------------------------ MODULE NDPAnyDevice_proofs ------------------------
(***************************************************************************)
(* The promises of the DMA engine, for every device, every limit maxReqs   *)
(* and every set of bursts, from the lemmas of NDP_proofs on its methods.  *)
(***************************************************************************)
EXTENDS NDPAnyDevice, NDP_proofs

(* The bursts of any device are what accessMemory takes. *)
LEMMA BurstsAreBursts == \A c \in Bursts : IsBurst(c)
BY BurstAssumption DEF IsBurst

(***************************************************************************)
(* The inductive invariant: between two handlers of gem5 the engine is     *)
(* sound, with no packet answered and not counted out.                     *)
(***************************************************************************)
THEOREM EngineSound == Spec => []Sound(engine, 0)
<1>1. Init => Sound(engine, 0)
  BY MaxReqsAssumption
  DEF Init, NewEngine, Sound, Engines, CountedIn, OneSender, WillWake
<1>2. Sound(engine, 0) /\ [Next]_engine => Sound(engine, 0)'
  <2> SUFFICES ASSUME Sound(engine, 0), [Next]_engine
               PROVE  Sound(engine', 0)
    OBVIOUS
  <2>1. CASE Access
    BY <2>1, BurstsAreBursts, AccessSound DEF Access
  <2>2. CASE SendNext
    BY <2>2, EventSound DEF SendNext
  <2>3. CASE Retry
    BY <2>3, RetrySound DEF Retry
  <2>4. ASSUME NEW i \in DOMAIN engine.mem, Answer(i)
        PROVE  Sound(engine', 0)
    <3> DEFINE r == Completed(engine, engine.mem[i])
    <3>1. r \in 0 .. Len(engine.requests)
      BY CompletedInList DEF Sound
    <3> HIDE DEF r
    <3>2. /\ Sound(Popped(engine, i), 1)
          /\ Len(Popped(engine, i).requests) = Len(engine.requests)
      BY PoppedSound
    <3>3. Sound(Dropped(Popped(engine, i), r), 1)
      BY <3>1, <3>2, DroppedSound
    <3> QED  BY <2>4, <3>3, FinishedSound DEF Answer, r
  <2>5. ASSUME NEW i \in DOMAIN engine.mem, AnswerAndAccess(i)
        PROVE  Sound(engine', 0)
    <3> DEFINE r == Completed(engine, engine.mem[i])
               p == Popped(engine, i)
    <3>1. r \in 0 .. Len(engine.requests) /\ Len(engine.requests) \in Nat
      BY CompletedInList DEF Sound, Engines
    <3>2. Sound(p, 1) /\ Len(p.requests) = Len(engine.requests)
      BY PoppedSound
    <3>3. \E write \in BOOLEAN, c \in Bursts :
            \E e \in accessMemory(p, write, c) :
                engine' \in Finished(Dropped(e, r))
      BY <2>5 DEF AnswerAndAccess
    <3> HIDE DEF r, p
    <3>4. PICK write \in BOOLEAN, c \in Bursts :
            \E e \in accessMemory(p, write, c) :
                engine' \in Finished(Dropped(e, r))
      BY <3>3
    <3>5. PICK e \in accessMemory(p, write, c) :
            engine' \in Finished(Dropped(e, r))
      BY <3>4
    <3>6. Sound(e, 1) /\ Len(e.requests) = Len(p.requests) + 1
      BY <3>2, BurstsAreBursts, AccessSound
    <3>7. r \in 0 .. Len(e.requests)
      BY <3>1, <3>2, <3>6
    <3>8. Sound(Dropped(e, r), 1)
      BY <3>6, <3>7, DroppedSound
    <3> QED  BY <3>5, <3>8, FinishedSound
  <2>6. CASE UNCHANGED engine
    BY <2>6
  <2> QED  BY <2>1, <2>2, <2>3, <2>4, <2>5, <2>6 DEF Next
<1> QED  BY <1>1, <1>2, PTL DEF Spec

(* flyReqs is the number of packets in memory, and at most maxReqs. *)
THEOREM Counted == Spec => []FlyCounted
<1>1. Sound(engine, 0) => FlyCounted
  BY DEF Sound, FlyCounted
<1> QED  BY <1>1, EngineSound, PTL

(* While dmaActv is set one future call of sendData exists, else none. *)
THEOREM Single == Spec => []SingleSender
<1>1. Sound(engine, 0) => SingleSender
  BY DEF Sound, SingleSender
<1> QED  BY <1>1, EngineSound, PTL

(* Packets wait in a sleeping engine only while memory owes an answer. *)
THEOREM Wakes == Spec => []SleeperWakes
<1>1. Sound(engine, 0) => SleeperWakes
  BY DEF Sound, SleeperWakes
<1> QED  BY <1>1, EngineSound, PTL
=============================================================================
