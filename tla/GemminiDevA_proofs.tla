------------------------- MODULE GemminiDevA_proofs -------------------------
(***************************************************************************)
(* The Gemmini device for every set of jobs and every limit maxReqs: the   *)
(* status register tells the truth, and operands are complete before the   *)
(* result is sent.                                                         *)
(*                                                                         *)
(* The invariant is that the engine works on one burst at a time, exactly  *)
(* (NDP_proofs).                                                           *)
(***************************************************************************)
EXTENDS GemminiDevA, NDP_proofs

(* What the lemmas need of a job. *)
IsJob(job) ==
    /\ IsBurst(job.m) /\ IsInjective(job.m)
    /\ job.k = <<>> \/ (IsBurst(job.k) /\ IsInjective(job.k))
    /\ IsBurst(job.o) /\ IsInjective(job.o)

Operands(job) == IF job.k = <<>> THEN 1 ELSE 2

(* The burst that follows when n operands are in the device. *)
Burst(job, n) == IF n = 0 THEN job.m ELSE IF n < Operands(job) THEN job.k ELSE job.o

(* An engine that works on the burst of kind w after n operands, of which  *)
(* the chunks S are missing and done has been written.                     *)
WorksOn(e, job, n, w, S, done) ==
    /\ w <=> (n = Operands(job))
    /\ S # {} /\ S \subseteq Range(Burst(job, n))
    /\ OneBurst(e, w, S)
    /\ done = {a \in Range(job.o) : w /\ a \notin S}

Busy(e, job, n, done) ==
    /\ IsJob(job) /\ n \in 0 .. Operands(job)
    /\ \E w \in BOOLEAN : \E S \in SUBSET Range(Burst(job, n)) :
            WorksOn(e, job, n, w, S, done)

Idle(e) == e.packets = <<>> /\ e.mem = <<>> /\ e.requests = <<>>

(* The inductive invariant. *)
DevInv ==
    /\ Sound(engine, 0)
    /\ pi_status \in {0, 1}
    /\ pi_status = 1 => /\ Idle(engine) /\ has_operands = 0
                        /\ written = Range(regs.o)
    /\ pi_status = 0 => Busy(engine, regs, has_operands, written)

LEMMA JobsAreJobs == \A job \in Jobs : IsJob(job)
<1>1. ASSUME NEW c \in Seq(Addrs), c # <<>> PROVE IsBurst(c)
  <2>1. Len(c) \in Nat /\ DOMAIN c = 1 .. Len(c)
    OBVIOUS
  <2>2. Len(c) # 0
    BY <1>1, EmptySeq
  <2>3. \A i \in DOMAIN c : c[i] \in Addrs
    OBVIOUS
  <2> QED  BY <2>1, <2>2, <2>3 DEF IsBurst
<1>2. ASSUME NEW job \in Jobs PROVE IsJob(job)
  <2>1. /\ job \in [m : Seq(Addrs), k : Seq(Addrs), o : Seq(Addrs)]
        /\ IsInjective(job.m) /\ IsInjective(job.k) /\ IsInjective(job.o)
        /\ job.m # <<>> /\ job.o # <<>>
    BY JobAssumption
  <2>2. job.m \in Seq(Addrs) /\ job.k \in Seq(Addrs) /\ job.o \in Seq(Addrs)
    BY <2>1
  <2> QED  BY <1>1, <2>1, <2>2 DEF IsJob
<1> QED  BY <1>2

(* process_fsm asks for the burst that follows, of an idle engine or in    *)
(* recvData.                                                               *)
LEMMA FsmExact ==
    ASSUME NEW job, IsJob(job), NEW n \in 0 .. Operands(job),
           NEW e, NEW late \in {0, 1}, Sound(e, late),
           e.packets = <<>>, e.mem = <<>>,
           NEW f \in process_fsm(job, n, e)
    PROVE  /\ Sound(f, late) /\ Len(f.requests) = Len(e.requests) + 1
           /\ Range(Burst(job, n)) # {}
           /\ \E w \in BOOLEAN :
                /\ w <=> (n = Operands(job))
                /\ Exact(f, w, Range(Burst(job, n)))
                /\ f \in accessMemory(e, w, Burst(job, n))
                /\ f.requests = Append(e.requests,
                                [write |-> w, pending |-> Range(Burst(job, n))])
<1>1. ASSUME NEW c, IsBurst(c), IsInjective(c), NEW w \in BOOLEAN,
             c = Burst(job, n), w <=> (n = Operands(job)),
             f \in accessMemory(e, w, c)
      PROVE  /\ Sound(f, late) /\ Len(f.requests) = Len(e.requests) + 1
             /\ Range(Burst(job, n)) # {}
             /\ \E v \in BOOLEAN :
                  /\ v <=> (n = Operands(job))
                  /\ Exact(f, v, Range(Burst(job, n)))
                  /\ f \in accessMemory(e, v, Burst(job, n))
                  /\ f.requests = Append(e.requests,
                                [write |-> v, pending |-> Range(Burst(job, n))])
  <2>1. Sound(f, late) /\ Len(f.requests) = Len(e.requests) + 1
    BY <1>1, AccessSound
  <2>2. /\ Exact(f, w, Range(c))
        /\ f.requests = Append(e.requests, [write |-> w, pending |-> Range(c)])
    BY <1>1, AccessExact
  <2>3. Range(c) # {}
    <3>1. 1 \in DOMAIN c
      BY <1>1 DEF IsBurst
    <3> QED  BY <3>1 DEF Range
  <2> QED  BY <1>1, <2>1, <2>2, <2>3
<1>2. Operands(job) \in {1, 2} /\ (Operands(job) = 2 <=> job.k # <<>>)
  BY DEF Operands
<1>3. CASE n = 0
  <2>1. f \in accessMemory(e, FALSE, job.m) /\ Burst(job, n) = job.m
    BY <1>3 DEF process_fsm, Burst
  <2>2. n # Operands(job)
    BY <1>2, <1>3
  <2> QED  BY <1>1, <2>1, <2>2 DEF IsJob
<1>4. CASE n = 1 /\ job.k # <<>>
  <2>1. n < Operands(job) /\ n # 0 /\ n # Operands(job)
    BY <1>2, <1>4
  <2>2. Burst(job, n) = job.k
    BY <2>1 DEF Burst
  <2>3. f \in accessMemory(e, FALSE, job.k)
    BY <1>4, <2>1 DEF process_fsm
  <2>4. IsBurst(job.k) /\ IsInjective(job.k)
    BY <1>4 DEF IsJob
  <2> QED  BY <1>1, <2>1, <2>2, <2>3, <2>4
<1>5. CASE n # 0 /\ ~(n = 1 /\ job.k # <<>>)
  <2>1. n = Operands(job) /\ ~(n < Operands(job))
    BY <1>2, <1>5
  <2>2. Burst(job, n) = job.o
    BY <1>5, <2>1 DEF Burst
  <2>3. f \in accessMemory(e, TRUE, job.o)
    BY <1>5 DEF process_fsm
  <2> QED  BY <1>1, <2>1, <2>2, <2>3 DEF IsJob
<1> QED  BY <1>3, <1>4, <1>5

-----------------------------------------------------------------------------
(* The guest starts a job on an idle device. *)
LEMMA StartStep ==
    ASSUME DevInv, NEW job, IsJob(job), writePI(job)
    PROVE  DevInv'
<1>1. /\ pi_status = 1 /\ Sound(engine, 0) /\ Idle(engine) /\ has_operands = 0
      /\ pi_status' = 0 /\ regs' = job /\ written' = {}
      /\ has_operands' = 0 /\ engine' \in process_fsm(job, 0, engine)
  BY DEF DevInv, writePI
<1>2. 0 \in 0 .. Operands(job) /\ 0 # Operands(job)
  BY DEF Operands
<1>3. /\ Sound(engine', 0) /\ Range(Burst(job, 0)) # {}
      /\ \E w \in BOOLEAN :
            /\ w <=> (0 = Operands(job))
            /\ Exact(engine', w, Range(Burst(job, 0)))
            /\ engine'.requests = Append(engine.requests,
                        [write |-> w, pending |-> Range(Burst(job, 0))])
  BY <1>1, <1>2, FsmExact DEF Idle
<1>4. PICK w \in BOOLEAN :
            /\ w <=> (0 = Operands(job))
            /\ Exact(engine', w, Range(Burst(job, 0)))
            /\ engine'.requests = Append(engine.requests,
                        [write |-> w, pending |-> Range(Burst(job, 0))])
  BY <1>3
<1>5. OneBurst(engine', w, Range(Burst(job, 0)))
  BY <1>1, <1>4 DEF Idle, OneBurst
<1>6. WorksOn(engine', job, 0, w, Range(Burst(job, 0)), {})
  BY <1>2, <1>3, <1>4, <1>5 DEF WorksOn
<1>7. Busy(engine', job, 0, {})
  BY <1>2, <1>6 DEF Busy
<1> QED  BY <1>1, <1>3, <1>7 DEF DevInv

(* The engine sends, on its own or when the port asks for it. *)
LEMMA EngineStep ==
    ASSUME DevInv, sendDataEvent \/ retryPort
    PROVE  DevInv'
<1>1. /\ Sound(engine, 0)
      /\ UNCHANGED <<pi_status, has_operands, regs, written>>
      /\ \/ engine.events > 0 /\ engine' \in SendEvent(engine)
         \/ engine.retry /\ engine' \in recvReqRetry(engine)
  BY DEF DevInv, sendDataEvent, retryPort
<1>2. engine.packets # <<>>
  BY <1>1 DEF Sound, OneSender, Engines
<1>3. Sound(engine', 0)
  BY <1>1, EventSound, RetrySound
<1>4. pi_status = 0 /\ Busy(engine, regs, has_operands, written)
  BY <1>2 DEF DevInv, Idle
<1>5. PICK w \in BOOLEAN, S \in SUBSET Range(Burst(regs, has_operands)) :
            WorksOn(engine, regs, has_operands, w, S, written)
  BY <1>4 DEF Busy
<1>6. Exact(engine', w, S) /\ engine'.requests = engine.requests
  BY <1>1, <1>5, EventExact, RetryExact DEF WorksOn, OneBurst
<1>7. WorksOn(engine', regs, has_operands, w, S, written)
  BY <1>5, <1>6 DEF WorksOn, OneBurst
<1>8. Busy(engine', regs, has_operands, written)
  BY <1>4, <1>7 DEF Busy
<1> QED  BY <1>1, <1>3, <1>4, <1>8 DEF DevInv

(* Taking the first request off a list of one or two. *)
LEMMA FirstDropped ==
    ASSUME NEW e \in Engines, NEW x,
           e.requests = <<x>> \/ \E y : e.requests = Append(<<x>>, y)
    PROVE  /\ Dropped(e, 1).packets = e.packets /\ Dropped(e, 1).mem = e.mem
           /\ e.requests = <<x>> => Dropped(e, 1).requests = <<>>
           /\ \A y : e.requests = Append(<<x>>, y)
                    => Dropped(e, 1).requests = <<y>>
<1>1. Dropped(e, 1) = [e EXCEPT !.requests = RemoveAt(e.requests, 1)]
  BY DEF Dropped
<1>2. /\ Dropped(e, 1).packets = e.packets /\ Dropped(e, 1).mem = e.mem
      /\ Dropped(e, 1).requests = RemoveAt(e.requests, 1)
  BY <1>1 DEF Engines
<1>3. RemoveAt(<<x>>, 1) = <<>>
  BY DEF RemoveAt
<1>4. ASSUME NEW y PROVE RemoveAt(Append(<<x>>, y), 1) = <<y>>
  <2> DEFINE s == Append(<<x>>, y)
  <2>1. s \in Seq({x, y}) /\ Len(s) = 2 /\ s[2] = y
    OBVIOUS
  <2> HIDE DEF s
  <2>3. RemoveAt(s, 1) = SubSeq(s, 1, 0) \o SubSeq(s, 2, 2)
    BY <2>1 DEF RemoveAt
  <2>4. SubSeq(s, 1, 0) = <<>>
    BY <2>1
  <2>5. SubSeq(s, 2, 2) = <<y>>
    <3> DEFINE t == SubSeq(s, 2, 2)
    <3>1. t \in Seq({x, y}) /\ Len(t) = 1 /\ t[1] = s[2]
      BY <2>1, SubSeqProperties
    <3> HIDE DEF t
    <3>2. t = <<y>>
      BY <2>1, <3>1
    <3> QED  BY <3>2 DEF t
  <2> QED  BY <2>3, <2>4, <2>5 DEF s
<1> QED  BY <1>2, <1>3, <1>4

(* An answer belongs to the burst the device works on. *)
LEMMA AnswerFacts ==
    ASSUME DevInv, NEW i \in DOMAIN engine.mem
    PROVE  /\ pi_status = 0 /\ IsJob(regs)
           /\ has_operands \in 0 .. Operands(regs)
           /\ \E w \in BOOLEAN : \E S \in SUBSET Range(Burst(regs, has_operands)) :
                /\ WorksOn(engine, regs, has_operands, w, S, written)
                /\ Answers(engine, i, w, S)
<1>1. Sound(engine, 0)
  BY DEF DevInv
<1>2. engine.mem # <<>>
  OBVIOUS
<1>3. pi_status = 0 /\ Busy(engine, regs, has_operands, written)
  BY <1>2 DEF DevInv, Idle
<1>4. PICK w \in BOOLEAN, S \in SUBSET Range(Burst(regs, has_operands)) :
            WorksOn(engine, regs, has_operands, w, S, written)
  BY <1>3 DEF Busy
<1>5. Answers(engine, i, w, S)
  BY <1>1, <1>4, PoppedExact DEF WorksOn
<1> QED  BY <1>3, <1>4, <1>5 DEF Busy

(* memCallback in the middle of a burst, at the end of an operand, and at  *)
(* the end of the result.                                                  *)
LEMMA CallbackStep ==
    ASSUME DevInv, NEW i \in DOMAIN engine.mem, memCallback(i)
    PROVE  DevInv'
<1> DEFINE a == engine.mem[i].addr
           p == Popped(engine, i)
           r == Completed(engine, engine.mem[i])
           n == has_operands
<1>1. /\ pi_status = 0 /\ IsJob(regs) /\ n \in 0 .. Operands(regs)
      /\ Sound(engine, 0) /\ Sound(p, 1) /\ p \in Engines
      /\ Len(p.requests) = Len(engine.requests)
  BY AnswerFacts, PoppedSound DEF DevInv, Sound
<1>2. PICK w \in BOOLEAN, S \in SUBSET Range(Burst(regs, n)) :
        /\ WorksOn(engine, regs, n, w, S, written)
        /\ a \in S /\ engine.mem[i].write = w
        /\ Exact(p, w, S \ {a})
        /\ p.requests = <<[write |-> w, pending |-> S \ {a}]>>
        /\ r = IF S = {a} THEN 1 ELSE 0
  BY AnswerFacts DEF Answers, OneBurst
<1>3. /\ regs' = regs
      /\ written' = IF w THEN written \cup {a} ELSE written
      /\ ChunkDone(i, r) \/ OperandDone(i, r) \/ ResultDone(i, r)
  BY <1>2 DEF memCallback
<1>4. Operands(regs) \in {1, 2}
  BY DEF Operands
<1>5. w => Burst(regs, n) = regs.o
  BY <1>2, <1>4 DEF WorksOn, Burst
<1>6. written' = {b \in Range(regs.o) : w /\ b \notin S \ {a}}
  BY <1>2, <1>3, <1>5 DEF WorksOn
<1> HIDE DEF p, r, n, a
<1>7. CASE ChunkDone(i, r)
  <2>1. /\ r = 0 /\ engine' \in Finished(p) /\ pi_status' = 0
        /\ has_operands' = n
    BY <1>1, <1>7 DEF ChunkDone, p, n
  <2>2. S \ {a} # {}
    BY <1>2, <2>1
  <2>3. Sound(engine', 0) /\ Exact(engine', w, S \ {a})
        /\ engine'.requests = p.requests
    BY <1>1, <1>2, <2>1, FinishedSound, FinishedExact
  <2>4. WorksOn(engine', regs, n, w, S \ {a}, written')
    BY <1>2, <1>6, <2>2, <2>3 DEF WorksOn, OneBurst
  <2>5. Busy(engine', regs', has_operands', written')
    BY <1>1, <1>3, <2>1, <2>4 DEF Busy
  <2> QED  BY <2>1, <2>3, <2>5 DEF DevInv
<1>8. CASE OperandDone(i, r)
  <2>1. /\ r # 0 /\ ~engine.mem[i].write /\ has_operands' = n + 1
        /\ pi_status' = 0
        /\ \E e \in process_fsm(regs, n + 1, p) : engine' \in Finished(Dropped(e, r))
    BY <1>1, <1>8 DEF OperandDone, p, n
  <2>2. ~w /\ S = {a} /\ r = 1 /\ S \ {a} = {}
    BY <1>2, <2>1
  <2>3. n + 1 \in 0 .. Operands(regs)
    BY <1>1, <1>2, <1>4, <2>2 DEF WorksOn
  <2>4. p.packets = <<>> /\ p.mem = <<>> /\ p.requests = <<[write |-> w, pending |-> {}]>>
    BY <1>1, <1>2, <2>2, NothingExact
  <2>5. PICK e \in process_fsm(regs, n + 1, p) : engine' \in Finished(Dropped(e, 1))
    BY <2>1, <2>2
  <2> DEFINE T == Range(Burst(regs, n + 1))
  <2>6. /\ Sound(e, 1) /\ T # {}
        /\ Len(e.requests) = Len(p.requests) + 1
        /\ \E v \in BOOLEAN :
            /\ v <=> (n + 1 = Operands(regs))
            /\ Exact(e, v, T)
            /\ e.requests = Append(p.requests, [write |-> v, pending |-> T])
    <3>1. 1 \in {0, 1}
      OBVIOUS
    <3>2. \E v \in BOOLEAN :
            /\ v <=> (n + 1 = Operands(regs))
            /\ Exact(e, v, T)
            /\ e \in accessMemory(p, v, Burst(regs, n + 1))
            /\ e.requests = Append(p.requests, [write |-> v, pending |-> T])
      BY <1>1, <2>3, <2>4, <3>1, FsmExact, Zenon
    <3>3. Sound(e, 1) /\ T # {}
      BY <1>1, <2>3, <2>4, <3>1, FsmExact, Zenon
    <3>4. Len(e.requests) = Len(p.requests) + 1
      <4>1. p.requests \in Seq(BurstRequests)
        BY <1>1 DEF Engines
      <4> QED  BY <3>2, <4>1
    <3> QED  BY <3>2, <3>3, <3>4, Zenon
  <2>7. PICK v \in BOOLEAN :
            /\ v <=> (n + 1 = Operands(regs))
            /\ Exact(e, v, T)
            /\ e.requests = Append(p.requests, [write |-> v, pending |-> T])
    BY <2>6
  <2> DEFINE d == Dropped(e, 1)
             x == [write |-> w, pending |-> {}]
             y == [write |-> v, pending |-> T]
  <2>8. /\ d.packets = e.packets /\ d.mem = e.mem
        /\ d.requests = <<y>>
    <3> HIDE DEF x, y
    <3>1. e.requests = Append(<<x>>, y)
      BY <2>4, <2>7 DEF x, y
    <3>2. e \in Engines
      BY <2>6 DEF Sound
    <3> QED  BY <3>1, <3>2, FirstDropped
  <2>9. 1 \in 0 .. Len(e.requests)
    BY <2>4, <2>6
  <2>10. Sound(d, 1)
    BY <2>6, <2>9, DroppedSound
  <2> HIDE DEF d
  <2>11. Exact(d, v, T)
    BY <2>7, <2>8 DEF Exact
  <2>12. Sound(engine', 0) /\ Exact(engine', v, T) /\ engine'.requests = <<y>>
    BY <2>5, <2>8, <2>10, <2>11, FinishedSound, FinishedExact DEF d
  <2>13. v => T = Range(regs.o)
    BY <1>1, <1>4, <2>3, <2>7 DEF Burst
  <2>14. written' = {b \in Range(regs.o) : v /\ b \notin T}
    BY <1>6, <2>2, <2>13
  <2>15. WorksOn(engine', regs, n + 1, v, T, written')
    BY <2>6, <2>7, <2>12, <2>14 DEF WorksOn, OneBurst
  <2>16. Busy(engine', regs', has_operands', written')
    BY <1>1, <1>3, <2>1, <2>3, <2>15 DEF Busy
  <2> QED  BY <2>1, <2>12, <2>16 DEF DevInv
<1>9. CASE ResultDone(i, r)
  <2>1. /\ r # 0 /\ engine.mem[i].write /\ has_operands' = 0
        /\ pi_status' = 1 /\ engine' \in Finished(Dropped(p, r))
    BY <1>9 DEF ResultDone, p
  <2>2. w /\ S = {a} /\ r = 1 /\ S \ {a} = {}
    BY <1>2, <2>1
  <2>3. p.packets = <<>> /\ p.mem = <<>> /\ p.requests = <<[write |-> w, pending |-> {}]>>
    BY <1>1, <1>2, <2>2, NothingExact
  <2> DEFINE d == Dropped(p, 1)
             x == [write |-> w, pending |-> {}]
  <2>4. d.packets = <<>> /\ d.mem = <<>> /\ d.requests = <<>>
    <3> HIDE DEF x
    <3>1. p.requests = <<x>>
      BY <2>3 DEF x
    <3> QED  BY <1>1, <2>3, <3>1, FirstDropped
  <2>5. 1 \in 0 .. Len(p.requests)
    BY <2>3
  <2>6. Sound(d, 1)
    BY <1>1, <2>5, DroppedSound
  <2> HIDE DEF d
  <2>7. Exact(d, w, {})
    BY <2>4 DEF Exact, ChunksOf, NoRepeat, AllWrite
  <2>8. /\ Sound(engine', 0) /\ Exact(engine', w, {})
        /\ engine'.requests = d.requests
    BY <2>1, <2>2, <2>6, <2>7, FinishedSound, FinishedExact DEF d
  <2>9. Idle(engine')
    BY <2>4, <2>8, NothingExact DEF Idle, Sound
  <2>10. written' = Range(regs'.o)
    BY <1>3, <1>6, <2>2
  <2> QED  BY <2>1, <2>8, <2>9, <2>10 DEF DevInv
<1> QED  BY <1>3, <1>7, <1>8, <1>9

-----------------------------------------------------------------------------
(***************************************************************************)
(* The invariant, with the origin of the job in progress.                  *)
(***************************************************************************)
JobInv == DevInv /\ (pi_status = 0 => regs \in Jobs)

LEMMA InitDev == Init => DevInv
<1>1. Sound(NewEngine, 0)
  BY MaxReqsAssumption
  DEF NewEngine, Sound, Engines, CountedIn, OneSender, WillWake
<1>2. Idle(NewEngine)
  BY DEF NewEngine, Idle
<1>3. Range(NoJob.o) = {}
  BY DEF NoJob, Range
<1> QED  BY <1>1, <1>2, <1>3 DEF Init, DevInv

(* Every step of the device or its guest keeps the invariant. *)
THEOREM DeviceInvariant == Spec => []JobInv
<1>1. Init => JobInv
  BY InitDev DEF JobInv, Init
<1>2. JobInv /\ [Next]_vars => JobInv'
  <2> SUFFICES ASSUME JobInv, [Next]_vars PROVE JobInv'
    OBVIOUS
  <2> USE DEF JobInv
  <2>1. ASSUME NEW job \in Jobs, writePI(job) PROVE JobInv'
    <3>1. DevInv'
      BY <2>1, JobsAreJobs, StartStep
    <3> QED  BY <2>1, <3>1 DEF writePI
  <2>2. CASE sendDataEvent \/ retryPort
    <3>1. DevInv'
      BY <2>2, EngineStep
    <3> QED  BY <2>2, <3>1 DEF sendDataEvent, retryPort
  <2>3. ASSUME NEW i \in DOMAIN engine.mem, memCallback(i) PROVE JobInv'
    <3>1. DevInv'
      BY <2>3, CallbackStep
    <3>2. pi_status = 0 /\ regs' = regs
      BY <2>3, AnswerFacts DEF memCallback
    <3> QED  BY <3>1, <3>2
  <2>4. CASE UNCHANGED vars
    BY <2>4 DEF vars, DevInv
  <2> QED  BY <2>1, <2>2, <2>3, <2>4 DEF Next, response
<1> QED  BY <1>1, <1>2, PTL DEF Spec

(* What the invariant says of the packets that are outstanding. *)
LEMMA OutstandingFacts ==
    ASSUME DevInv
    PROVE  /\ pi_status = 1 => Outstanding = {}
           /\ pi_status = 0 =>
                \E w \in BOOLEAN :
                    /\ w <=> (has_operands = Operands(regs))
                    /\ ~w => written = {}
                    /\ \A p \in Outstanding :
                        /\ p.write = w
                        /\ p.addr \in Range(Burst(regs, has_operands))
<1>1. CASE pi_status = 1
  BY <1>1 DEF DevInv, Idle, Outstanding, Range
<1>2. CASE pi_status = 0
  <2>1. PICK w \in BOOLEAN, S \in SUBSET Range(Burst(regs, has_operands)) :
            WorksOn(engine, regs, has_operands, w, S, written)
    BY <1>2 DEF DevInv, Busy
  <2>2. /\ w <=> (has_operands = Operands(regs))
        /\ Exact(engine, w, S)
        /\ ~w => written = {}
    BY <2>1 DEF WorksOn, OneBurst
  <2>3. ASSUME NEW p \in Outstanding
        PROVE  p.write = w /\ p.addr \in S
    <3>1. \A s : \A i \in DOMAIN s : s[i].addr \in ChunksOf(s)
      BY Zenon DEF ChunksOf
    <3>2. PICK s \in {engine.packets, engine.mem} : \E i \in DOMAIN s : p = s[i]
      BY Zenon DEF Outstanding, Range
    <3>3. AllWrite(s, w) /\ ChunksOf(s) \subseteq S
      <4>1. /\ AllWrite(engine.packets, w) /\ AllWrite(engine.mem, w)
            /\ ChunksOf(engine.packets) \subseteq S
            /\ ChunksOf(engine.mem) \subseteq S
        BY <2>2 DEF Exact
      <4> QED  BY <3>2, <4>1, Zenon
    <3> QED  BY <3>1, <3>2, <3>3, Zenon DEF AllWrite
  <2>4. \A p \in Outstanding : p.write = w /\ p.addr \in Range(Burst(regs, has_operands))
    BY <2>3
  <2>5. pi_status # 1
    BY <1>2
  <2>6. \E v \in BOOLEAN :
            /\ v <=> (has_operands = Operands(regs))
            /\ ~v => written = {}
            /\ \A p \in Outstanding :
                p.write = v /\ p.addr \in Range(Burst(regs, has_operands))
    <3> WITNESS w \in BOOLEAN
    <3> QED  BY <2>2, <2>4, Zenon
  <2> QED  BY <2>5, <2>6, Zenon
<1> QED  BY <1>1, <1>2 DEF DevInv

(* When the status register is set the job is over and the whole result    *)
(* is in memory.                                                           *)
THEOREM Truthful == Spec => []StatusTruthful
<1>1. JobInv => StatusTruthful
  BY OutstandingFacts DEF JobInv, DevInv, Idle, StatusTruthful
<1> QED  BY <1>1, DeviceInvariant, PTL

(* Nothing is read after the first chunk of the result is written. *)
THEOREM InPlaceSafe == Spec => []ReadsBeforeWrites
<1>1. JobInv => ReadsBeforeWrites
  <2> SUFFICES ASSUME DevInv PROVE ReadsBeforeWrites
    BY DEF JobInv
  <2>1. CASE pi_status = 1
    BY <2>1, OutstandingFacts DEF ReadsBeforeWrites
  <2>2. CASE pi_status = 0
    BY <2>2, OutstandingFacts DEF ReadsBeforeWrites
  <2> QED  BY <2>1, <2>2 DEF DevInv
<1> QED  BY <1>1, DeviceInvariant, PTL

(* The result is sent only when every operand has been read. *)
THEOREM OperandsFirst == Spec => []OperandsRead
<1>1. JobInv => OperandsRead
  <2> SUFFICES ASSUME DevInv PROVE OperandsRead
    BY DEF JobInv
  <2>1. CASE pi_status = 1
    BY <2>1, OutstandingFacts DEF OperandsRead
  <2>2. CASE pi_status = 0
    BY <2>2, OutstandingFacts DEF OperandsRead, Operands
  <2> QED  BY <2>1, <2>2 DEF DevInv
<1> QED  BY <1>1, DeviceInvariant, PTL
=============================================================================
