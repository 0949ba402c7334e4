------------------------ MODULE GemminiEngine_proofs ------------------------
(***************************************************************************)
(* The Gemmini device implements NDPAnyDevice, for every set of jobs and   *)
(* every limit maxReqs.                                                    *)
(***************************************************************************)
EXTENDS GemminiEngine, GemminiDevA_proofs

(* The burst that process_fsm asks for is one of the job's. *)
LEMMA BurstOfJob ==
    ASSUME NEW job \in Jobs, NEW n \in 0 .. Operands(job)
    PROVE  Burst(job, n) \in JobBursts
<1>1. IsJob(job)
  BY JobsAreJobs
<1>2. Burst(job, n) \in {job.m, job.k, job.o}
  BY DEF Burst
<1>3. Burst(job, n) # <<>>
  <2>1. ASSUME NEW c, IsBurst(c) PROVE c # <<>>
    BY <2>1 DEF IsBurst
  <2>2. n # 0 /\ n < Operands(job) => job.k # <<>>
    BY DEF Operands
  <2> QED  BY <1>1, <2>1, <2>2 DEF Burst, IsJob
<1> QED  BY <1>2, <1>3, Zenon DEF JobBursts

(* The abstract engine has the methods of the engine of the device. *)
LEMMA SameMethods ==
    /\ AnyDevice!NewEngine = NewEngine
    /\ \A e : /\ AnyDevice!SendEvent(e) = SendEvent(e)
             /\ AnyDevice!recvReqRetry(e) = recvReqRetry(e)
             /\ AnyDevice!Finished(e) = Finished(e)
    /\ \A e, w, c : AnyDevice!accessMemory(e, w, c) = accessMemory(e, w, c)
    /\ \A e, pkt : AnyDevice!Completed(e, pkt) = Completed(e, pkt)
    /\ \A e, i : /\ AnyDevice!Popped(e, i) = Popped(e, i)
                /\ AnyDevice!Dropped(e, i) = Dropped(e, i)
<1>1. \A e : AnyDevice!sendData(e) = sendData(e)
  BY Zenon DEF AnyDevice!sendData, sendData, AnyDevice!Sent, Sent,
               AnyDevice!Refused, Refused
<1>2. \A e : AnyDevice!Trigger(e) = Trigger(e)
  BY <1>1, Zenon DEF AnyDevice!Trigger, Trigger
<1>3. \A e, w, c : AnyDevice!accessMemory(e, w, c) = accessMemory(e, w, c)
  BY <1>2, Zenon DEF AnyDevice!accessMemory, accessMemory, AnyDevice!Queued, Queued,
                     AnyDevice!Range, Range
<1>4. \A e, pkt : AnyDevice!Completed(e, pkt) = Completed(e, pkt)
  BY Zenon DEF AnyDevice!Completed, Completed, AnyDevice!Completing, Completing,
               AnyDevice!Matching, Matching
<1>5. \A e, i : AnyDevice!RemoveAt(e, i) = RemoveAt(e, i)
  BY Zenon DEF AnyDevice!RemoveAt, RemoveAt
<1>6. \A e, i : AnyDevice!Popped(e, i) = Popped(e, i)
  <2>1. \A e, pkt : AnyDevice!Matching(e, pkt) = Matching(e, pkt)
    BY Zenon DEF AnyDevice!Matching, Matching
  <2> QED  BY <1>4, <1>5, <2>1, ZenonT(60) DEF AnyDevice!Popped, Popped
<1>7. \A e, i : AnyDevice!Dropped(e, i) = Dropped(e, i)
  BY <1>5, Zenon DEF AnyDevice!Dropped, Dropped
<1>8. \A e : /\ AnyDevice!SendEvent(e) = SendEvent(e)
             /\ AnyDevice!recvReqRetry(e) = recvReqRetry(e)
  BY <1>1, Zenon DEF AnyDevice!SendEvent, SendEvent,
                     AnyDevice!recvReqRetry, recvReqRetry
<1>9. \A e : AnyDevice!Finished(e) = Finished(e)
  BY <1>2, Zenon DEF AnyDevice!Finished, Finished
<1>10. AnyDevice!NewEngine = NewEngine
  BY Zenon DEF AnyDevice!NewEngine, NewEngine
<1> QED  BY <1>3, <1>4, <1>6, <1>7, <1>8, <1>9, <1>10, Zenon

(***************************************************************************)
(* Every step of the device is a step that NDPAnyDevice allows, with one   *)
(* burst outstanding: a start is an access outside recvData, the end of an *)
(* operand one inside it.                                                  *)
(***************************************************************************)
THEOREM DeviceRefinement == Spec => UsesEngine
<1>1. Init => AnyDevice!Init
  BY SameMethods DEF Init, AnyDevice!Init
<1>2. JobInv /\ [Next]_vars => [AnyDevice!Next]_engine
  <2> SUFFICES ASSUME JobInv, [Next]_vars PROVE AnyDevice!Next \/ UNCHANGED engine
    OBVIOUS
  <2>1. DevInv /\ Sound(engine, 0) /\ (pi_status = 0 => regs \in Jobs)
    BY DEF JobInv, DevInv
  <2>2. ASSUME NEW job \in Jobs, writePI(job) PROVE AnyDevice!Access
    <3>1. /\ Idle(engine) /\ engine' \in process_fsm(job, 0, engine)
      BY <2>1, <2>2 DEF writePI, DevInv
    <3>2. 0 \in 0 .. Operands(job) /\ IsJob(job) /\ 0 \in {0, 1}
      BY JobsAreJobs DEF Operands
    <3>3. \E w \in BOOLEAN : engine' \in accessMemory(engine, w, Burst(job, 0))
      BY <2>1, <3>1, <3>2, FsmExact DEF Idle
    <3>4. Burst(job, 0) \in JobBursts
      BY <3>2, BurstOfJob
    <3>5. Len(engine.requests) < 1 /\ AnyDevice!Outstanding(engine) < 1
      BY <3>1 DEF Idle, AnyDevice!Outstanding
    <3> QED  BY <3>3, <3>4, <3>5, SameMethods DEF AnyDevice!Access
  <2>3. ASSUME NEW i \in DOMAIN engine.mem, memCallback(i)
        PROVE  AnyDevice!Answer(i) \/ AnyDevice!AnswerAndAccess(i)
    <3> DEFINE p == Popped(engine, i)
               r == Completed(engine, engine.mem[i])
    <3>1. /\ pi_status = 0 /\ IsJob(regs) /\ regs \in Jobs
          /\ has_operands \in 0 .. Operands(regs)
      BY <2>1, AnswerFacts
    <3>2. PICK w \in BOOLEAN, S \in SUBSET Range(Burst(regs, has_operands)) :
            /\ WorksOn(engine, regs, has_operands, w, S, written)
            /\ Answers(engine, i, w, S)
      BY <2>1, AnswerFacts
    <3>3. ChunkDone(i, r) \/ OperandDone(i, r) \/ ResultDone(i, r)
      BY <2>3 DEF memCallback
    <3>4. Sound(p, 1) /\ p \in Engines
      BY <2>1, PoppedSound DEF Sound
    <3> HIDE DEF p, r
    <3>5. CASE ChunkDone(i, r)
      <4>1. r = 0 /\ engine' \in Finished(p)
        BY <3>5 DEF ChunkDone, p
      <4>2. Dropped(p, 0) = p
        BY <3>4 DEF Dropped, Engines
      <4> QED  BY <4>1, <4>2, SameMethods DEF AnyDevice!Answer, p, r
    <3>6. CASE ResultDone(i, r)
      BY <3>6, SameMethods DEF ResultDone, AnyDevice!Answer, p, r
    <3>7. CASE OperandDone(i, r)
      <4> DEFINE n == has_operands + 1
      <4>1. /\ r # 0 /\ ~engine.mem[i].write
            /\ \E e \in process_fsm(regs, n, p) : engine' \in Finished(Dropped(e, r))
        BY <3>7 DEF OperandDone, p
      <4>2. ~w /\ S = {engine.mem[i].addr} /\ Exact(p, w, {})
        BY <3>2, <4>1 DEF Answers, OneBurst, p, r
      <4>3. p.packets = <<>> /\ p.mem = <<>>
        BY <3>4, <4>2, NothingExact
      <4>4. n \in 0 .. Operands(regs)
        <5>1. has_operands # Operands(regs) /\ Operands(regs) \in {1, 2}
          BY <3>2, <4>2 DEF WorksOn, Operands
        <5> QED  BY <3>1, <5>1
      <4> HIDE DEF n
      <4>5. PICK e \in process_fsm(regs, n, p) : engine' \in Finished(Dropped(e, r))
        BY <4>1
      <4>6. 1 \in {0, 1}
        OBVIOUS
      <4>7. PICK v \in BOOLEAN : e \in accessMemory(p, v, Burst(regs, n))
        BY <3>1, <3>4, <4>3, <4>4, <4>6, FsmExact, Zenon
      <4>8. Burst(regs, n) \in JobBursts
        BY <3>1, <4>4, BurstOfJob
      <4>9. Len(engine.requests) <= 1 /\ AnyDevice!Outstanding(p) < 1
        BY <3>2, <4>3 DEF WorksOn, OneBurst, AnyDevice!Outstanding
      <4> QED  BY <4>1, <4>5, <4>7, <4>8, <4>9, SameMethods DEF AnyDevice!AnswerAndAccess, p, r
    <3> QED  BY <3>3, <3>5, <3>6, <3>7
  <2>4. CASE sendDataEvent
    BY <2>4, SameMethods DEF sendDataEvent, AnyDevice!SendNext, AnyDevice!Next
  <2>5. CASE retryPort
    BY <2>5, SameMethods DEF retryPort, AnyDevice!Retry, AnyDevice!Next
  <2>6. CASE UNCHANGED vars
    BY <2>6 DEF vars
  <2> QED
    BY <2>2, <2>3, <2>4, <2>5, <2>6 DEF Next, response, AnyDevice!Next
<1> QED  BY <1>1, <1>2, DeviceInvariant, PTL DEF Spec, UsesEngine, AnyDevice!Spec
=============================================================================
