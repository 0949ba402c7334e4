----------------------------- MODULE NPUDevice -----------------------------
(***************************************************************************)
(* The gem5 shell of the Coral NPU (dev/npu/npu_device.cc) with its        *)
(* Verilated backend (coral_verilated_backend.cc) over the bridge of       *)
(* module CoralBridge, in timing mode (fastDma = false).                   *)
(*                                                                         *)
(* gem5 is single threaded: every handler runs to completion, so an action *)
(* is a whole handler: the backend event, the completion callback of the   *)
(* DMA port, an MMIO access of the guest, a call of the drain manager.     *)
(* A fatal_if that fires ends the process: it sets `exited' and no action  *)
(* follows.  pendingEventTick is modelled by whether it is nonzero, the    *)
(* gem5 event by whether it is scheduled.                                  *)
(***************************************************************************)
EXTENDS CoralBridge

CONSTANTS
    CounterMod       \* the DMA counters are modulo this (2^32 in the code)

ASSUME CounterModAssumption == CounterMod \in Nat \ {0}

MidRunReset == env.midRunReset   \* the guest writes RESET_CONTROL during a run
DrainWrites == env.drainWrites   \* and also while the device drains

VARIABLES
    bridge,             \* the bridge handle
    resetControl,       \* CoralVerilatedBackend::resetControl
    running,            \* CoralVerilatedBackend::running
    pendingEvent,       \* CoralVerilatedBackend::pendingEventTick # 0
    dmaRequestPending,  \* CoralVerilatedBackend::dmaRequestPending
    pendingDmaRequest,  \* CoralVerilatedBackend::pendingDmaRequest
    dmaActive,          \* NPUDevice::dmaActive
    dmaBuffer,          \* the request handed to the DMA port
    dmaRequests, dmaCompletions, dmaErrors,
    eventScheduled,     \* backendEvent.scheduled()
    drainState,         \* Drainable::_drainState
    stopped,            \* the simulation loop is stopped for a checkpoint
    checkpoint,         \* the counters last serialized
    exited              \* why the gem5 process ended, or "no"

backendVars == <<resetControl, running, pendingEvent, dmaRequestPending,
                 pendingDmaRequest>>
counterVars == <<dmaRequests, dmaCompletions, dmaErrors>>
dmaVars     == <<dmaActive, dmaBuffer>>
drainVars   == <<drainState, stopped, checkpoint>>
vars == <<env, bridge, backendVars, counterVars, dmaVars, eventScheduled,
          drainVars, exited>>

Counter == 0 .. CounterMod - 1

Inc(n) == (n + 1) % CounterMod

Exits == {"no", "core fault", "bad DMA size", "completion rejected"}

NoCheckpoint == [dmaRequests |-> 0, dmaCompletions |-> 0, dmaErrors |-> 0]

TypeOK ==
    /\ bridge \in Handles
    /\ resetControl \in 0 .. 3
    /\ running \in BOOLEAN /\ pendingEvent \in BOOLEAN
    /\ dmaRequestPending \in BOOLEAN
    /\ pendingDmaRequest \in Requests \cup {NoRequest}
    /\ dmaActive \in BOOLEAN
    /\ dmaBuffer \in Requests \cup {NoRequest}
    /\ dmaRequests \in Counter /\ dmaCompletions \in Counter
    /\ dmaErrors \in Counter
    /\ eventScheduled \in BOOLEAN
    /\ drainState \in {"Running", "Draining", "Drained"}
    /\ stopped \in BOOLEAN
    /\ checkpoint \in [dmaRequests : Counter, dmaCompletions : Counter,
                       dmaErrors : Counter]
    /\ exited \in Exits

Init ==
    /\ env \in Environments
    /\ bridge = NewHandle
    /\ resetControl = 3 /\ running = FALSE /\ pendingEvent = FALSE
    /\ dmaRequestPending = FALSE /\ pendingDmaRequest = NoRequest
    /\ dmaActive = FALSE /\ dmaBuffer = NoRequest
    /\ dmaRequests = 0 /\ dmaCompletions = 0 /\ dmaErrors = 0
    /\ eventScheduled = FALSE
    /\ drainState = "Running" /\ stopped = FALSE /\ checkpoint = NoCheckpoint
    /\ exited = "no"

-----------------------------------------------------------------------------
(* Mutant: a quiet DMA engine is taken for a quiet device. *)
dmaQuiesced_NoEvent == ~dmaActive /\ ~dmaRequestPending

(* NPUDevice::dmaQuiesced. *)
dmaQuiesced == ~dmaActive /\ ~dmaRequestPending /\ ~pendingEvent

(* syncBackendEvent, the last call of every handler. *)
syncBackendEvent == eventScheduled' = pendingEvent'

(* Mutant: the manager is never told. *)
checkDrainDone_Silent == UNCHANGED <<drainState, stopped, checkpoint>>

(* checkDrainDone, with the values the handler leaves. *)
checkDrainDone ==
    /\ drainState' = IF drainState = "Draining" /\ dmaQuiesced'
                     THEN "Drained" ELSE drainState
    /\ UNCHANGED <<stopped, checkpoint>>

(* A fatal_if: the process ends, nothing else is observable. *)
Fatal(reason) ==
    /\ exited' = reason
    /\ UNCHANGED <<bridge, backendVars, counterVars, dmaVars, eventScheduled,
                   drainVars>>

(* The simulation loop is running. *)
Simulating == ~stopped /\ exited = "no"
-----------------------------------------------------------------------------
(***************************************************************************)
(* startBackendDma, called with the bridge and backend that processEvent   *)
(* left: b the handle, pending and request the backend's DMA request, run  *)
(* and event its running flag and whether it has a next event.             *)
(***************************************************************************)
NoDmaToStart(b, pending, request, run, event) ==
    /\ dmaActive \/ ~pending
    /\ bridge' = b
    /\ dmaRequestPending' = pending /\ pendingDmaRequest' = request
    /\ running' = run /\ pendingEvent' = event
    /\ UNCHANGED <<resetControl, counterVars, dmaVars, exited>>

(* Mutant: every request is performed as a write. *)
StartsDma_AlwaysWrites(b, pending, request, run, event) ==
    /\ ~dmaActive /\ pending /\ request.dest = "shared"
    /\ dmaActive' = TRUE /\ dmaBuffer' = [request EXCEPT !.type = "write"]
    /\ dmaRequests' = Inc(dmaRequests)
    /\ bridge' = b
    /\ dmaRequestPending' = pending /\ pendingDmaRequest' = request
    /\ running' = run /\ pendingEvent' = event
    /\ UNCHANGED <<resetControl, dmaCompletions, dmaErrors, exited>>

StartsDma(b, pending, request, run, event) ==
    /\ ~dmaActive /\ pending /\ request.dest = "shared"
    /\ dmaActive' = TRUE /\ dmaBuffer' = request
    /\ dmaRequests' = Inc(dmaRequests)
    /\ bridge' = b
    /\ dmaRequestPending' = pending /\ pendingDmaRequest' = request
    /\ running' = run /\ pendingEvent' = event
    /\ UNCHANGED <<resetControl, dmaCompletions, dmaErrors, exited>>

(* Mutant: a rejected request is counted as a request. *)
RejectsDma_Counted(b, pending, request, run) ==
    /\ ~dmaActive /\ pending /\ request.dest # "shared"
    /\ bridge' = DmaComplete(b, TRUE)
    /\ dmaRequestPending' = FALSE /\ pendingDmaRequest' = NoRequest
    /\ running' = run /\ pendingEvent' = run
    /\ dmaErrors' = Inc(dmaErrors) /\ dmaRequests' = Inc(dmaRequests)
    /\ UNCHANGED <<resetControl, dmaCompletions, dmaVars, exited>>

(* Mutant: the error completion does not schedule the next batch. *)
RejectsDma_NoEvent(b, pending, request, run) ==
    /\ ~dmaActive /\ pending /\ request.dest # "shared"
    /\ bridge' = DmaComplete(b, TRUE)
    /\ dmaRequestPending' = FALSE /\ pendingDmaRequest' = NoRequest
    /\ running' = run /\ pendingEvent' = FALSE
    /\ dmaErrors' = Inc(dmaErrors)
    /\ UNCHANGED <<resetControl, dmaRequests, dmaCompletions, dmaVars, exited>>

(* completeBackendDmaError: the request lies outside the EXTMEM window. *)
RejectsDma(b, pending, request, run) ==
    /\ ~dmaActive /\ pending /\ request.dest # "shared"
    /\ bridge' = DmaComplete(b, TRUE)
    /\ dmaRequestPending' = FALSE /\ pendingDmaRequest' = NoRequest
    /\ running' = run /\ pendingEvent' = run
    /\ dmaErrors' = Inc(dmaErrors)
    /\ UNCHANGED <<resetControl, dmaRequests, dmaCompletions, dmaVars, exited>>

startBackendDma(b, pending, request, run, event) ==
    \/ NoDmaToStart(b, pending, request, run, event)
    \/ StartsDma(b, pending, request, run, event)
    \/ RejectsDma(b, pending, request, run)

(***************************************************************************)
(* processBackendEvent in timing mode: processEvent of the backend, which  *)
(* leaves the handle b, then the DMA engine, the event and the drain state.*)
(***************************************************************************)
AfterBatch(b) ==
    LET result == StepResult(b)
    IN  IF running /\ result = 4 THEN Fatal("core fault")
        ELSE IF running /\ result = 2 /\ b.pending_dma = NoRequest
        THEN Fatal("bad DMA size")
        ELSE /\ startBackendDma(
                    b,
                    dmaRequestPending \/ (running /\ result = 2),
                    IF running /\ result = 2 THEN b.pending_dma
                    ELSE pendingDmaRequest,
                    running /\ result # 1,
                    running /\ result \in {0, 3})
             /\ syncBackendEvent
             /\ checkDrainDone

processBackendEvent ==
    /\ Simulating /\ eventScheduled
    /\ \E b \in IF running THEN Step(bridge) ELSE {bridge} : AfterBatch(b)

(* completeBackendDma, the callback of the DMA port. *)
completeBackendDma ==
    /\ Simulating /\ dmaBuffer # NoRequest
    /\ IF ~dmaRequestPending
          \/ ~DmaCompleteAccepted(bridge, pendingDmaRequest.type, FALSE)
       THEN Fatal("completion rejected")
       ELSE /\ dmaActive' = FALSE /\ dmaBuffer' = NoRequest
            /\ bridge' = DmaComplete(bridge, FALSE)
            /\ dmaRequestPending' = FALSE /\ pendingDmaRequest' = NoRequest
            /\ pendingEvent' = running
            /\ dmaCompletions' = Inc(dmaCompletions)
            /\ UNCHANGED <<resetControl, running, dmaRequests, dmaErrors,
                           exited>>
            /\ syncBackendEvent
            /\ checkDrainDone

-----------------------------------------------------------------------------
(***************************************************************************)
(* MMIO.  The shell's own registers change nothing; every other read, and  *)
(* every write but one of RESET_CONTROL, only clocks the core.             *)
(***************************************************************************)
MmioRead ==
    /\ Simulating
    /\ bridge' \in MmioAccess(resetControl, bridge)
    /\ UNCHANGED <<backendVars, counterVars, dmaVars, drainVars, exited>>
    /\ syncBackendEvent

(* A guest that never interrupts a run writes RESET_CONTROL only when the  *)
(* core is held or STATUS shows that it has halted.                        *)
GuestMayWriteReset ==
    /\ MidRunReset \/ resetControl # 0 \/ bridge.core = "halted"
    /\ DrainWrites \/ drainState = "Running"

(* Mutant: a reset forgets the request that is in flight. *)
WriteResetControl_Forgets(v) ==
    /\ Simulating /\ GuestMayWriteReset
    /\ bridge' \in MmioWriteReset(resetControl, v, bridge)
    /\ resetControl' = v
    /\ running' = (v = 0)
    /\ pendingEvent' = (v = 0)
    /\ dmaRequestPending' = (dmaRequestPending /\ v % 2 = 0)
    /\ syncBackendEvent
    /\ UNCHANGED <<pendingDmaRequest, counterVars, dmaVars, drainVars, exited>>

WriteResetControl(v) ==
    /\ Simulating /\ GuestMayWriteReset
    /\ bridge' \in MmioWriteReset(resetControl, v, bridge)
    /\ resetControl' = v
    /\ running' = (v = 0)
    /\ pendingEvent' = (v = 0)
    /\ syncBackendEvent
    /\ UNCHANGED <<dmaRequestPending, pendingDmaRequest, counterVars, dmaVars,
                   drainVars, exited>>

-----------------------------------------------------------------------------
(***************************************************************************)
(* Drain, checkpoint and restore.  The drain manager (external) calls      *)
(* drain() on every object, again and again until each returns Drained on  *)
(* the first call; `others' says whether the other objects all did.        *)
(***************************************************************************)
drain(others) ==
    /\ Simulating
    /\ drainState' = IF dmaQuiesced THEN "Drained" ELSE "Draining"
    /\ stopped' = (dmaQuiesced /\ others)
    /\ UNCHANGED <<bridge, backendVars, counterVars, dmaVars, eventScheduled,
                   checkpoint, exited>>

serialize ==
    /\ stopped /\ exited = "no"
    /\ checkpoint' = [dmaRequests |-> dmaRequests,
                      dmaCompletions |-> dmaCompletions,
                      dmaErrors |-> dmaErrors]
    /\ UNCHANGED <<bridge, backendVars, counterVars, dmaVars, eventScheduled,
                   drainState, stopped, exited>>

drainResume ==
    /\ stopped /\ exited = "no"
    /\ drainState' = "Running" /\ stopped' = FALSE
    /\ UNCHANGED <<bridge, backendVars, counterVars, dmaVars, eventScheduled,
                   checkpoint, exited>>

(* A new process: the constructor, then unserialize of the counters. *)
unserialize ==
    /\ stopped \/ exited # "no"
    /\ bridge' = NewHandle
    /\ resetControl' = 3 /\ running' = FALSE /\ pendingEvent' = FALSE
    /\ dmaRequestPending' = FALSE /\ pendingDmaRequest' = NoRequest
    /\ dmaActive' = FALSE /\ dmaBuffer' = NoRequest
    /\ dmaRequests' = checkpoint.dmaRequests
    /\ dmaCompletions' = checkpoint.dmaCompletions
    /\ dmaErrors' = checkpoint.dmaErrors
    /\ eventScheduled' = FALSE
    /\ drainState' = "Running" /\ stopped' = FALSE
    /\ exited' = "no"
    /\ UNCHANGED checkpoint

Handler ==
    \/ processBackendEvent
    \/ completeBackendDma
    \/ MmioRead
    \/ \E v \in 0 .. 3 : WriteResetControl(v)
    \/ \E others \in BOOLEAN : drain(others)
    \/ serialize
    \/ drainResume
    \/ unserialize

Next == Handler /\ UNCHANGED env

Spec == Init /\ [][Next]_vars

(***************************************************************************)
(* An in-order core and a guest that waits for its runs.  gem5 runs a      *)
(* scheduled event and the memory system answers a request; the core takes *)
(* a response that is offered to it again and again, and does not compute  *)
(* for ever without halting.  Nothing obliges it to fault.  Fairness is    *)
(* asked for where liveness is claimed, in orderly environments.           *)
(***************************************************************************)
Orderly == env.inOrderCore /\ ~env.midRunReset /\ ~env.drainWrites

Fairly(A) == Orderly /\ A /\ UNCHANGED env

EventWithoutNewFault ==
    /\ processBackendEvent
    /\ bridge'.fault_seen = bridge.fault_seen
    /\ bridge.fault_seen \/ exited' = "no"
CoreTakesResponse ==
    EventWithoutNewFault /\ Offered(bridge) # {} /\ Offered(bridge') = {}
CoreHalts ==
    EventWithoutNewFault /\ bridge'.core = "halted"

Fairness ==
    /\ WF_vars(Fairly(EventWithoutNewFault))
    /\ WF_vars(Fairly(completeBackendDma))
    /\ SF_vars(Fairly(CoreTakesResponse))
    /\ SF_vars(Fairly(CoreHalts))

FairSpec == Spec /\ Fairness

-----------------------------------------------------------------------------
(***************************************************************************)
(* What holds whatever the guest and the core do.                          *)
(***************************************************************************)

(* The gem5 event is scheduled exactly when the backend has a next event:  *)
(* no handler leaves without the effect of syncBackendEvent.  A stopped or *)
(* restarted run has no event left over, a running one is not forgotten.   *)
EventMirrored == eventScheduled = pendingEvent

(* A running backend always has something that will move it on: its next   *)
(* event or the completion of a DMA.  Resets, restarts and completions may *)
(* come in any order; none of them may leave it running with neither.      *)
NeverStranded == running => eventScheduled \/ dmaActive

(* The DMA engine, the backend and the port agree on whether a request is  *)
(* in flight, and the bridge still waits for it: a reset or restart in the *)
(* middle neither starts a second DMA nor leaves a completion without a    *)
(* request (the fatal_ifs of completeBackendDma and completeDma).          *)
OneDmaInFlight ==
    /\ dmaActive = dmaRequestPending
    /\ dmaActive = (dmaBuffer # NoRequest)
    /\ dmaActive => bridge.dma_pending

(* The DMA_REQUESTS and DMA_COMPLETIONS registers differ by the request in *)
(* flight, also across resets, restores and wrap-around; a rejected access *)
(* counts in neither.                                                      *)
DmaAccounting ==
    dmaRequests = IF dmaActive THEN Inc(dmaCompletions) ELSE dmaCompletions

(* The bridge's slot holds an access that its adapter still holds and that *)
(* has not been answered: no access of the core reaches memory twice.      *)
SlotUnanswered ==
    LET r == bridge.pending_dma
    IN bridge.dma_pending /\ r # NoRequest
          => bridge.axi[r.type] = r /\ bridge.resp[r.type] = "none"

(* A checkpoint is only ever written of a device with no event and no DMA. *)
(* serialize relies on it (its fatal_if) and saves only the counters.      *)
StoppedIsQuiet == stopped => dmaQuiesced /\ ~eventScheduled /\ ~running

-----------------------------------------------------------------------------
(***************************************************************************)
(* What holds for an in-order core and a guest that waits for its runs.    *)
(***************************************************************************)

(* The request the memory system works on is the one the bridge will       *)
(* answer: each response belongs to the access that was performed.         *)
MatchingResponse ==
    Orderly /\ dmaActive => /\ bridge.pending_dma = dmaBuffer
                 /\ pendingDmaRequest = dmaBuffer

(* Only a fault of the core ends the simulation; no fatal_if about the DMA *)
(* protocol between shell, backend and bridge is reachable.                *)
NoProtocolFatal == Orderly => exited \in {"no", "core fault"}

(* Every access that an adapter has accepted is answered, unless the run   *)
(* ends in a core fault, a reset or a checkpoint restore.                  *)
AccessAnswered ==
    \A c \in Channels :
        Orderly /\ bridge.axi[c] # NoRequest ~>
            \/ bridge.axi[c] = NoRequest
            \/ exited # "no" \/ stopped

(* A drain that the manager asked for completes, because every way for the *)
(* device to become quiet signals the manager, unless the core faults or   *)
(* waits for an interrupt (processEvent keeps such a core scheduled).      *)
DrainCompletes ==
    Orderly /\ drainState = "Draining" ~>
        drainState # "Draining" \/ exited # "no" \/ bridge.core = "wfi"

-----------------------------------------------------------------------------
(***************************************************************************)
(* What a comment of gem5 says and the code does not keep.                 *)
(***************************************************************************)

(* "This method is designed to be called whenever an object enters into a  *)
(* state where it is ready to be drained" (sim/drain.hh): a device that is *)
(* still Draining between two handlers is not quiet.                       *)
DrainSignalled == drainState = "Draining" => ~dmaQuiesced
=============================================================================
