-------------------------- MODULE NPUDevice_proofs --------------------------
(***************************************************************************)
(* Proofs about NPUDevice for every set of destinations, every counter     *)
(* width, every guest and every core.                                      *)
(***************************************************************************)
EXTENDS NPUDevice, TLAPS

(***************************************************************************)
(* The bridge: an adapter offers a response only for a request it holds,   *)
(* and the request in the slot is one that is held and not yet answered.   *)
(***************************************************************************)
BridgeInv(b) ==
    /\ \A c \in Channels : b.resp[c] # "none" => b.axi[c] # NoRequest
    /\ b.dma_pending /\ b.pending_dma # NoRequest
          => /\ b.axi[b.pending_dma.type] = b.pending_dma
             /\ b.resp[b.pending_dma.type] = "none"

(* NoRequest is not an access of the core. *)
LEMMA NoRequestIsNone == NoRequest \notin Requests
BY DEF NoRequest, Requests, Channels

(* An adapter's callback on an idle channel keeps the handle well formed,  *)
(* never lowers dma_pending and keeps the bridge invariant.                *)
LEMMA CallbackFacts ==
    ASSUME NEW b \in Handles, BridgeInv(b), NEW r \in Requests,
           b.axi[r.type] = NoRequest
    PROVE  /\ Callback(b, r) \in Handles
           /\ b.dma_pending => Callback(b, r).dma_pending
           /\ BridgeInv(Callback(b, r))
           /\ Callback(b, r).core = b.core
           /\ \A c \in Channels \ {r.type} :
                 Callback(b, r).axi[c] = b.axi[c] /\ Callback(b, r).resp[c] = b.resp[c]
<1>. DEFINE held == [b EXCEPT !.axi[r.type] = r, !.expects = @ \cup {r.type}]
<1>1. r.type \in Channels /\ r.dest \in Dests /\ r # NoRequest
  BY NoRequestIsNone DEF Requests
<1>2. /\ held \in Handles /\ held.core = b.core
      /\ held.dma_pending = b.dma_pending /\ held.pending_dma = b.pending_dma
      /\ held.resp = b.resp
      /\ held.axi = [b.axi EXCEPT ![r.type] = r]
  BY <1>1 DEF Handles
<1>3. b.resp[r.type] = "none"
  BY <1>1 DEF BridgeInv
<1>4. b.dma_pending /\ b.pending_dma # NoRequest => b.pending_dma.type # r.type
  BY <1>1 DEF BridgeInv, Handles
<1>. DEFINE n == Callback(b, r)
<1>5. /\ n \in Handles /\ n.core = b.core
      /\ n.axi = [b.axi EXCEPT ![r.type] = r]
      /\ \/ /\ n.resp = [b.resp EXCEPT ![r.type] = "ok"]
            /\ n.dma_pending = b.dma_pending /\ n.pending_dma = b.pending_dma
         \/ /\ n.resp = [b.resp EXCEPT ![r.type] = "error"]
            /\ n.dma_pending = b.dma_pending /\ n.pending_dma = NoRequest
         \/ n.resp = b.resp /\ n.dma_pending = TRUE /\ n.pending_dma = r
  <2>1. CASE r.dest = "device"
    <3>1. n = [held EXCEPT !.resp[r.type] = "ok"]
      BY <2>1 DEF Callback
    <3>. HIDE DEF held, n
    <3>. QED  BY <1>1, <1>2, <3>1 DEF Handles, Responses
  <2>2. CASE r.dest = "bad"
    <3>1. n = [held EXCEPT !.resp[r.type] = "error", !.pending_dma = NoRequest]
      BY <2>2 DEF Callback
    <3>. HIDE DEF held, n
    <3>. QED  BY <1>1, <1>2, <3>1 DEF Handles, Responses
  <2>3. CASE r.dest # "device" /\ r.dest # "bad"
    <3>1. n = [held EXCEPT !.dma_pending = TRUE, !.pending_dma = r]
      BY <2>3 DEF Callback
    <3>. HIDE DEF held, n
    <3>. QED  BY <1>1, <1>2, <3>1 DEF Handles, Responses
  <2>. QED  BY <2>1, <2>2, <2>3
<1>6. b.axi \in [Channels -> Requests \cup {NoRequest}] /\ b.resp \in [Channels -> Responses]
      /\ b.dma_pending \in BOOLEAN
      /\ (b.pending_dma # NoRequest => b.pending_dma.type \in Channels)
  BY DEF Handles, Requests
<1>. HIDE DEF n
<1>7. BridgeInv(n)
  BY <1>1, <1>3, <1>4, <1>5, <1>6 DEF BridgeInv
<1>. QED  BY <1>1, <1>5, <1>6, <1>7 DEF n

(* The callbacks of one clock, none, one or both. *)
LEMMA IssuesFacts ==
    ASSUME NEW b \in Handles, BridgeInv(b), NEW i \in Issues(b)
    PROVE  /\ i \in Handles
           /\ b.dma_pending => i.dma_pending
           /\ BridgeInv(i)
           /\ \A c \in Offered(b) : i.resp[c] = b.resp[c]
<1>1. CASE i = b
  BY <1>1 DEF Offered
<1>2. ASSUME NEW r \in Requests, MayIssue(b, r.type), i = Callback(b, r)
      PROVE  /\ i \in Handles
             /\ b.dma_pending => i.dma_pending
             /\ BridgeInv(i)
             /\ \A c \in Offered(b) : i.resp[c] = b.resp[c]
  <2>1. b.axi[r.type] = NoRequest /\ r.type \in Channels
    BY <1>2 DEF MayIssue, Ready, Requests
  <2>2. \A c \in Offered(b) : c \in Channels \ {r.type}
    BY <2>1 DEF Offered, BridgeInv
  <2>. QED  BY <1>2, <2>1, <2>2, CallbackFacts
<1>3. ASSUME NEW r \in Requests, NEW w \in Requests,
             MayIssue(b, "read"), MayIssue(b, "write"),
             r.type = "read", w.type = "write",
             i = Callback(Callback(b, r), w)
      PROVE  /\ i \in Handles
             /\ b.dma_pending => i.dma_pending
             /\ BridgeInv(i)
             /\ \A c \in Offered(b) : i.resp[c] = b.resp[c]
  <2>. DEFINE j == Callback(b, r)
  <2>1. b.axi["read"] = NoRequest /\ b.axi["write"] = NoRequest
    BY <1>3 DEF MayIssue, Ready
  <2>2. Offered(b) = {}
    BY <2>1 DEF Offered, BridgeInv, Channels
  <2>3. /\ j \in Handles
        /\ b.dma_pending => j.dma_pending
        /\ BridgeInv(j)
        /\ j.axi["write"] = NoRequest
    BY <1>3, <2>1, CallbackFacts DEF Channels
  <2>. HIDE DEF j
  <2>4. /\ Callback(j, w) \in Handles
        /\ j.dma_pending => Callback(j, w).dma_pending
        /\ BridgeInv(Callback(j, w))
    BY <1>3, <2>3, CallbackFacts
  <2>. QED  BY <1>3, <2>2, <2>3, <2>4 DEF j
<1>. QED  BY <1>1, <1>2, <1>3 DEF Issues

(* One clock of the core. *)
LEMMA ClockFacts ==
    ASSUME NEW b \in Handles, BridgeInv(b), NEW n \in Clock(b)
    PROVE  /\ n \in Handles
           /\ b.dma_pending => n.dma_pending
           /\ BridgeInv(n)
<1>0. PICK i \in Issues(b) :
         \E taken \in SUBSET Offered(b), m \in CoreMoves(i) :
            n = Settle(i, taken, m)
  BY DEF Clock
<1>1. PICK taken \in SUBSET Offered(b), m \in CoreMoves(i) :
         n = Settle(i, taken, m)
  BY <1>0
<1>2. /\ i \in Handles
      /\ b.dma_pending => i.dma_pending
      /\ BridgeInv(i)
      /\ \A c \in Offered(b) : i.resp[c] = b.resp[c]
  BY IssuesFacts
<1>3. m \in CoreStates
  BY <1>2 DEF CoreMoves, CoreStates, Handles
<1>4. taken \subseteq Channels /\ \A c \in taken : i.resp[c] # "none"
  BY <1>2 DEF Offered
<1>. DEFINE r == Retire(i, taken)
<1>5. /\ r \in Handles
      /\ r.axi = [c \in Channels |-> IF c \in taken THEN NoRequest ELSE i.axi[c]]
      /\ r.resp = [c \in Channels |-> IF c \in taken THEN "none" ELSE i.resp[c]]
      /\ r.dma_pending = i.dma_pending /\ r.pending_dma = i.pending_dma
  BY <1>2, <1>4 DEF Retire, Handles, Responses
<1>. HIDE DEF r
<1>6. /\ n \in Handles
      /\ n.axi = r.axi /\ n.resp = r.resp
      /\ n.dma_pending = i.dma_pending /\ n.pending_dma = i.pending_dma
  BY <1>1, <1>3, <1>5 DEF Handles, Settle, r
<1>7. i.pending_dma # NoRequest => i.pending_dma.type \in Channels
  BY <1>2 DEF Handles, Requests
<1>8. BridgeInv(n)
  BY <1>2, <1>4, <1>5, <1>6, <1>7 DEF BridgeInv
<1>. QED  BY <1>2, <1>6, <1>8

(* The ABI calls of the shell. *)
LEMMA StepFacts ==
    ASSUME NEW b \in Handles, BridgeInv(b), NEW n \in Step(b)
    PROVE  /\ n \in Handles
           /\ b.dma_pending => n.dma_pending
           /\ BridgeInv(n)
BY ClockFacts DEF Step

LEMMA MmioFacts ==
    ASSUME NEW b \in Handles, BridgeInv(b), NEW rc \in 0 .. 3,
           NEW n \in MmioAccess(rc, b)
    PROVE  /\ n \in Handles
           /\ b.dma_pending => n.dma_pending
           /\ BridgeInv(n)
BY ClockFacts DEF MmioAccess, ClockUnder

LEMMA MmioResetFacts ==
    ASSUME NEW b \in Handles, BridgeInv(b), NEW rc \in 0 .. 3, NEW v \in 0 .. 3,
           NEW n \in MmioWriteReset(rc, v, b)
    PROVE  /\ n \in Handles
           /\ b.dma_pending => n.dma_pending
           /\ BridgeInv(n)
<1>1. PICK c \in ClockUnder(rc, b) : n = WriteResetCsr(v, c)
  BY DEF MmioWriteReset
<1>2. c \in Handles /\ (b.dma_pending => c.dma_pending) /\ BridgeInv(c)
  BY ClockFacts DEF ClockUnder
<1>3. n \in Handles /\ n.axi = c.axi /\ n.resp = c.resp
      /\ n.dma_pending = c.dma_pending /\ n.pending_dma = c.pending_dma
  BY <1>1, <1>2 DEF WriteResetCsr, Handles, CoreStates
<1>. QED  BY <1>2, <1>3 DEF BridgeInv

LEMMA DmaCompleteFacts ==
    ASSUME NEW b \in Handles, BridgeInv(b), NEW error \in BOOLEAN,
           b.dma_pending, b.pending_dma # NoRequest
    PROVE  /\ DmaComplete(b, error) \in Handles
           /\ ~DmaComplete(b, error).dma_pending
           /\ BridgeInv(DmaComplete(b, error))
<1>. DEFINE n == DmaComplete(b, error)
            t == b.pending_dma.type
            a == IF error THEN "error" ELSE "ok"
<1>1. b.pending_dma \in Requests /\ t \in Channels
  BY DEF Handles, Requests
<1>2. b.axi[t] # NoRequest
  BY <1>1, NoRequestIsNone DEF BridgeInv
<1>3. /\ n \in Handles /\ n.axi = b.axi /\ n.resp = [b.resp EXCEPT ![t] = a]
      /\ n.dma_pending = FALSE
  BY <1>1 DEF DmaComplete, Handles, Responses
<1>4. b.resp \in [Channels -> Responses]
  BY DEF Handles
<1>. HIDE DEF n, t, a
<1>5. BridgeInv(n)
  BY <1>1, <1>2, <1>3, <1>4 DEF BridgeInv
<1>. QED  BY <1>3, <1>5 DEF n

-----------------------------------------------------------------------------
(***************************************************************************)
(* The inductive invariant.  OneDmaInFlight needs DmaCompleteAccepted to   *)
(* answer a request the adapter holds (BridgeInv); NeverStranded needs     *)
(* that an idle engine has no request left in the backend (OneDmaInFlight) *)
(* and that a backend with a next event runs.  The checkpoint must balance *)
(* for DmaAccounting to survive a restore.                                 *)
(***************************************************************************)
IInv ==
    /\ TypeOK
    /\ BridgeInv(bridge)
    /\ EventMirrored
    /\ OneDmaInFlight
    /\ running => pendingEvent \/ dmaActive
    /\ pendingEvent => running
    /\ DmaAccounting
    /\ checkpoint.dmaRequests = checkpoint.dmaCompletions
    /\ stopped => dmaQuiesced

(* Counting keeps a counter in its range. *)
LEMMA IncType == \A n \in Counter : Inc(n) \in Counter
<1>. SUFFICES ASSUME NEW n \in Counter PROVE (n + 1) % CounterMod \in 0 .. CounterMod - 1
  BY DEF Counter, Inc
<1>1. n + 1 \in Nat /\ CounterMod \in Nat /\ CounterMod > 0
  BY CounterModAssumption DEF Counter
<1>. QED  BY <1>1

LEMMA InitIInv == Init => IInv
<1>. SUFFICES ASSUME Init PROVE IInv
  OBVIOUS
<1>1. NewHandle \in Handles /\ BridgeInv(NewHandle) /\ ~NewHandle.dma_pending
  BY DEF NewHandle, Handles, BridgeInv, CoreStates, Responses
<1>2. 0 \in Counter /\ NoCheckpoint \in [dmaRequests : Counter, dmaCompletions : Counter, dmaErrors : Counter]
  BY CounterModAssumption DEF Counter, NoCheckpoint
<1>3. TypeOK
  <2>1. bridge \in Handles /\ resetControl \in 0 .. 3
    BY <1>1 DEF Init
  <2>2. /\ dmaRequests \in Counter /\ dmaCompletions \in Counter /\ dmaErrors \in Counter
        /\ checkpoint \in [dmaRequests : Counter, dmaCompletions : Counter, dmaErrors : Counter]
    BY <1>2 DEF Init
  <2>. QED  BY <2>1, <2>2 DEF Init, TypeOK, Exits
<1>. QED  BY <1>1, <1>3 DEF Init, IInv, EventMirrored, OneDmaInFlight,
       DmaAccounting, NoCheckpoint, dmaQuiesced

(* A fatal_if leaves everything but `exited' alone. *)
LEMMA FatalIInv ==
    ASSUME IInv, NEW reason \in Exits, Fatal(reason)
    PROVE  IInv'
<1>1. TypeOK'
  BY DEF IInv, TypeOK, Fatal, backendVars, counterVars, dmaVars, drainVars
<1>. QED  BY <1>1 DEF IInv, Fatal, backendVars, counterVars, dmaVars, drainVars,
       BridgeInv, EventMirrored, OneDmaInFlight, DmaAccounting, dmaQuiesced

(***************************************************************************)
(* The backend event.  A scheduled event means a running backend, so the   *)
(* bridge was stepped; the engine then finds a request exactly when the    *)
(* bridge reported one or one is already in flight.                        *)
(***************************************************************************)
LEMMA EventIInv == ASSUME IInv, processBackendEvent PROVE IInv'
<1>1. running /\ pendingEvent /\ ~stopped
  BY DEF IInv, processBackendEvent, EventMirrored, Simulating
<1>2. PICK b \in Step(bridge) : AfterBatch(b)
  BY <1>1 DEF processBackendEvent
<1>3. /\ b \in Handles
      /\ bridge.dma_pending => b.dma_pending
      /\ BridgeInv(b)
  BY StepFacts DEF IInv, TypeOK
<1>. DEFINE result == StepResult(b)
            pending == dmaRequestPending \/ (running /\ result = 2)
            request == IF running /\ result = 2 THEN b.pending_dma
                       ELSE pendingDmaRequest
            run == running /\ result # 1
            event == running /\ result \in {0, 3}
<1>4. /\ result \in {0, 1, 2, 3, 4}
      /\ result = 2 <=> b.dma_pending
  BY <1>3 DEF StepResult, Handles
<1>. HIDE DEF result
<1>5. CASE result = 4
  BY <1>1, <1>2, <1>5, FatalIInv DEF AfterBatch, Exits, result
<1>6. CASE result = 2 /\ b.pending_dma = NoRequest
  BY <1>1, <1>2, <1>6, FatalIInv DEF AfterBatch, Exits, result
<1>7. CASE result # 4 /\ ~(result = 2 /\ b.pending_dma = NoRequest)
  <2>1. /\ startBackendDma(b, pending, request, run, event)
        /\ syncBackendEvent
        /\ checkDrainDone
    BY <1>1, <1>2, <1>4, <1>7 DEF AfterBatch, result
  <2>0. /\ dmaActive \in BOOLEAN /\ dmaRequestPending = dmaActive
        /\ dmaActive => bridge.dma_pending
        /\ pendingDmaRequest \in Requests \cup {NoRequest}
    BY DEF IInv, TypeOK, OneDmaInFlight
  <2>2. /\ pending \in BOOLEAN /\ run \in BOOLEAN /\ event \in BOOLEAN
        /\ request \in Requests \cup {NoRequest}
        /\ dmaRequestPending = dmaActive
        /\ dmaActive => result = 2
    <3>1. b.pending_dma \in Requests \cup {NoRequest}
      BY <1>3 DEF Handles
    <3>2. dmaActive => result = 2
      BY <1>3, <1>4, <2>0
    <3>. QED  BY <1>1, <2>0, <3>1, <3>2
  <2>3. /\ TypeOK /\ OneDmaInFlight /\ DmaAccounting
        /\ checkpoint.dmaRequests = checkpoint.dmaCompletions
    BY DEF IInv
  <2>. HIDE DEF pending, request, run, event
  <2>4. ASSUME NoDmaToStart(b, pending, request, run, event) PROVE IInv'
    <3>1. TypeOK'
      BY <1>3, <2>1, <2>2, <2>3, <2>4 DEF TypeOK, NoDmaToStart, counterVars, dmaVars, syncBackendEvent, checkDrainDone
    <3>2. run => event \/ dmaActive
      BY <1>1, <1>4, <1>7, <2>2, <2>4 DEF NoDmaToStart, run, event, pending
    <3>3. event => run
      BY <1>4 DEF run, event
    <3>4. dmaActive = pending
      BY <1>1, <2>0, <2>2, <2>4 DEF NoDmaToStart, pending
    <3>. QED  BY <1>1, <1>3, <1>4, <2>1, <2>2, <2>3, <2>4, <3>1, <3>2, <3>3, <3>4
         DEF IInv, NoDmaToStart, counterVars, dmaVars, syncBackendEvent, checkDrainDone,
             EventMirrored, OneDmaInFlight, DmaAccounting, dmaQuiesced
  <2>5. ASSUME StartsDma(b, pending, request, run, event) PROVE IInv'
    <3>1. result = 2 /\ b.dma_pending
      <4>1. ~dmaRequestPending
        BY <2>2, <2>5 DEF StartsDma
      <4>. QED  BY <1>4, <2>5, <4>1 DEF StartsDma, pending
    <3>2. request # NoRequest
      BY <2>5 DEF StartsDma, NoRequest
    <3>3. TypeOK'
      BY <1>3, <2>1, <2>2, <2>3, <2>5, IncType DEF TypeOK, StartsDma, syncBackendEvent, checkDrainDone
    <3>4. run = TRUE /\ event = FALSE
      BY <1>1, <3>1 DEF run, event
    <3>. QED  BY <1>1, <1>3, <2>1, <2>2, <2>3, <2>5, <3>1, <3>2, <3>3, <3>4
         DEF IInv, StartsDma, syncBackendEvent, checkDrainDone,
             EventMirrored, OneDmaInFlight, DmaAccounting, dmaQuiesced
  <2>6. ASSUME RejectsDma(b, pending, request, run) PROVE IInv'
    <3>1. result = 2 /\ b.dma_pending /\ b.pending_dma # NoRequest
      BY <1>4, <1>7, <2>2, <2>6 DEF RejectsDma, pending
    <3>2. DmaComplete(b, TRUE) \in Handles /\ BridgeInv(DmaComplete(b, TRUE))
      BY <1>3, <3>1, DmaCompleteFacts
    <3>3. TypeOK'
      BY <2>1, <2>2, <2>3, <2>6, <3>2, IncType DEF TypeOK, RejectsDma, dmaVars, syncBackendEvent, checkDrainDone
    <3>. QED  BY <1>1, <2>1, <2>2, <2>3, <2>6, <3>2, <3>3
         DEF IInv, RejectsDma, dmaVars, syncBackendEvent, checkDrainDone,
             EventMirrored, OneDmaInFlight, DmaAccounting, dmaQuiesced
  <2>. QED  BY <2>1, <2>4, <2>5, <2>6 DEF startBackendDma
<1>. QED  BY <1>4, <1>5, <1>6, <1>7

(* The DMA callback: the engine goes idle, and a running backend gets its  *)
(* next event.                                                             *)
LEMMA CompletionIInv == ASSUME IInv, completeBackendDma PROVE IInv'
<1>1. CASE ~dmaRequestPending \/ ~DmaCompleteAccepted(bridge, pendingDmaRequest.type, FALSE)
  BY <1>1, FatalIInv DEF completeBackendDma, Exits
<1>2. CASE dmaRequestPending /\ DmaCompleteAccepted(bridge, pendingDmaRequest.type, FALSE)
  <2>1. bridge.dma_pending /\ bridge.pending_dma # NoRequest
    BY <1>2 DEF DmaCompleteAccepted, NoRequest
  <2>2. DmaComplete(bridge, FALSE) \in Handles /\ BridgeInv(DmaComplete(bridge, FALSE))
    BY <2>1, DmaCompleteFacts DEF IInv, TypeOK
  <2>3. dmaActive /\ ~stopped /\ running \in BOOLEAN
    BY <1>2 DEF IInv, OneDmaInFlight, completeBackendDma, Simulating, TypeOK
  <2>4. TypeOK'
    BY <1>2, <2>2, <2>3, IncType DEF IInv, TypeOK, completeBackendDma, syncBackendEvent, checkDrainDone
  <2>. QED  BY <1>2, <2>2, <2>3, <2>4
       DEF IInv, completeBackendDma, syncBackendEvent, checkDrainDone,
           EventMirrored, OneDmaInFlight, DmaAccounting, dmaQuiesced
<1>. QED  BY <1>1, <1>2

LEMMA MmioReadIInv == ASSUME IInv, MmioRead PROVE IInv'
<1>1. bridge' \in Handles /\ (bridge.dma_pending => bridge'.dma_pending) /\ BridgeInv(bridge')
  BY MmioFacts DEF IInv, TypeOK, MmioRead
<1>2. TypeOK'
  BY <1>1 DEF IInv, TypeOK, MmioRead, backendVars, counterVars, dmaVars, drainVars, syncBackendEvent
<1>. QED  BY <1>1, <1>2
     DEF IInv, MmioRead, backendVars, counterVars, dmaVars, drainVars, syncBackendEvent,
         EventMirrored, OneDmaInFlight, DmaAccounting, dmaQuiesced

LEMMA WriteResetIInv == ASSUME IInv, NEW v \in 0 .. 3, WriteResetControl(v) PROVE IInv'
<1>1. bridge' \in Handles /\ (bridge.dma_pending => bridge'.dma_pending) /\ BridgeInv(bridge')
  BY MmioResetFacts DEF IInv, TypeOK, WriteResetControl
<1>2. TypeOK'
  BY <1>1 DEF IInv, TypeOK, WriteResetControl, counterVars, dmaVars, drainVars, syncBackendEvent
<1>3. ~stopped /\ ~stopped'
  BY DEF IInv, TypeOK, WriteResetControl, Simulating, drainVars
<1>. QED  BY <1>1, <1>2, <1>3
     DEF IInv, WriteResetControl, counterVars, dmaVars, drainVars, syncBackendEvent,
         EventMirrored, OneDmaInFlight, DmaAccounting, dmaQuiesced

(* Drain, checkpoint, resume and restore. *)
LEMMA DrainIInv ==
    ASSUME IInv,
           (\E others \in BOOLEAN : drain(others)) \/ serialize \/ drainResume \/ unserialize
    PROVE  IInv'
<1>1. ASSUME NEW others \in BOOLEAN, drain(others) PROVE IInv'
  <2>1. TypeOK'
    BY <1>1 DEF IInv, TypeOK, drain, backendVars, counterVars, dmaVars
  <2>. QED  BY <1>1, <2>1 DEF IInv, TypeOK, drain, backendVars, counterVars, dmaVars,
         BridgeInv, EventMirrored, OneDmaInFlight, DmaAccounting, dmaQuiesced
<1>2. CASE serialize
  <2>1. ~dmaActive
    BY <1>2 DEF IInv, serialize, dmaQuiesced
  <2>2. TypeOK'
    BY <1>2 DEF IInv, TypeOK, serialize, backendVars, counterVars, dmaVars
  <2>. QED  BY <1>2, <2>1, <2>2 DEF IInv, TypeOK, serialize, backendVars, counterVars, dmaVars,
         BridgeInv, EventMirrored, OneDmaInFlight, DmaAccounting, dmaQuiesced
<1>3. CASE drainResume
  <2>1. TypeOK'
    BY <1>3 DEF IInv, TypeOK, drainResume, backendVars, counterVars, dmaVars
  <2>. QED  BY <1>3, <2>1 DEF IInv, drainResume, backendVars, counterVars, dmaVars,
         BridgeInv, EventMirrored, OneDmaInFlight, DmaAccounting, dmaQuiesced
<1>4. CASE unserialize
  <2>1. NewHandle \in Handles /\ BridgeInv(NewHandle) /\ ~NewHandle.dma_pending
    BY DEF NewHandle, Handles, BridgeInv, CoreStates, Responses
  <2>2. checkpoint.dmaRequests \in Counter /\ checkpoint.dmaCompletions \in Counter
        /\ checkpoint.dmaErrors \in Counter
    BY DEF IInv, TypeOK
  <2>3. TypeOK'
    <3>1. /\ bridge' \in Handles /\ resetControl' \in 0 .. 3
          /\ dmaRequests' \in Counter /\ dmaCompletions' \in Counter /\ dmaErrors' \in Counter
          /\ checkpoint' = checkpoint
      BY <1>4, <2>1, <2>2 DEF unserialize
    <3>. QED  BY <1>4, <3>1 DEF IInv, TypeOK, unserialize, Exits
  <2>. QED  BY <1>4, <2>1, <2>3 DEF IInv, unserialize,
         EventMirrored, OneDmaInFlight, DmaAccounting, dmaQuiesced
<1>. QED  BY <1>1, <1>2, <1>3, <1>4

LEMMA NextIInv == IInv /\ [Next]_vars => IInv'
<1>. SUFFICES ASSUME IInv, [Next]_vars PROVE IInv'
  OBVIOUS
<1>1. CASE UNCHANGED vars
  BY <1>1 DEF vars, backendVars, counterVars, dmaVars, drainVars, IInv, TypeOK, BridgeInv,
     EventMirrored, OneDmaInFlight, DmaAccounting, dmaQuiesced
<1>2. CASE Next
  BY <1>2, EventIInv, CompletionIInv, MmioReadIInv, WriteResetIInv, DrainIInv DEF Next, Handler
<1>. QED  BY <1>1, <1>2

(* The inductive invariant holds in every reachable state. *)
THEOREM Invariance == Spec => []IInv
BY InitIInv, NextIInv, PTL DEF Spec

(* Every variable keeps its type. *)
THEOREM TypeCorrect == Spec => []TypeOK
<1>1. IInv => TypeOK
  BY DEF IInv
<1>. QED  BY <1>1, Invariance, PTL

(* Whatever order the guest's resets and restarts, the backend's events    *)
(* and the completions of the memory system come in, a running NPU is      *)
(* never left without an event or a DMA to wait for.                       *)
THEOREM NoStranding == Spec => []NeverStranded
<1>1. IInv => NeverStranded
  BY DEF IInv, NeverStranded, EventMirrored
<1>. QED  BY <1>1, Invariance, PTL

(* Shell, backend, DMA port and bridge always agree on whether a DMA is in *)
(* flight, so there is at most one.                                        *)
THEOREM SingleDma == Spec => []OneDmaInFlight
<1>1. IInv => OneDmaInFlight
  BY DEF IInv
<1>. QED  BY <1>1, Invariance, PTL

(* The two DMA counters that the guest reads differ by exactly the request *)
(* in flight, for every counter width and across restores.                 *)
THEOREM Accounting == Spec => []DmaAccounting
<1>1. IInv => DmaAccounting
  BY DEF IInv
<1>. QED  BY <1>1, Invariance, PTL

(* No access of the core is in the bridge's slot after it was answered. *)
THEOREM AnsweredOnce == Spec => []SlotUnanswered
<1>1. IInv => SlotUnanswered
  BY DEF IInv, BridgeInv, SlotUnanswered
<1>. QED  BY <1>1, Invariance, PTL

(* A checkpoint is only written of a device at rest. *)
THEOREM QuietCheckpoint == Spec => []StoppedIsQuiet
<1>1. IInv => StoppedIsQuiet
  BY DEF IInv, StoppedIsQuiet, dmaQuiesced, EventMirrored
<1>. QED  BY <1>1, Invariance, PTL
=============================================================================
