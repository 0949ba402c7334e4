---------------------------- MODULE CoralBridge ----------------------------
(***************************************************************************)
(* The Verilator bridge of the Coral NPU: the handle behind                *)
(* coral_gem5_{step,mmio_*,dma_*} (coralnpu_gem5_abi.cc), the two AXI      *)
(* master adapters (gem5_axi_master_drivers.h) at the granularity of one   *)
(* transaction, and the Verilated core as their client.                    *)
(*                                                                         *)
(* The bridge has no thread of its own: every ABI function is called by    *)
(* the gem5 device, so this module has no VARIABLES.  It defines the state *)
(* of a handle as a record and each ABI function as the set of handles it  *)
(* may leave behind; NPUDevice composes them into its handlers.            *)
(*                                                                         *)
(*   core        what the core's own CSRs and outputs show                 *)
(*   expects     channels on which this run of the core awaits a response  *)
(*   axi[c]      the request the adapter of channel c holds                *)
(*               (request_pending_), or NoRequest                          *)
(*   resp[c]     the response queued on channel c                          *)
(*   dma_pending, pending_dma   the handle's one request slot              *)
(*   fault_seen  the wrapper's sticky fault flag                           *)
(***************************************************************************)
EXTENDS Naturals, FiniteSets

CONSTANTS
    Dests,         \* destinations of the core's accesses, a subset of AllDests
    Environments   \* the kinds of core and guest to look at

VARIABLE env      \* the core and the guest of this behaviour: never changes

(***************************************************************************)
(* "shared" lies in the EXTMEM window of the shell, "outside" does not,    *)
(* "bad" has a burst shape that BuildGem5Dma*Request refuses, "device" is  *)
(* an operator or custom-MAC register that the callback answers itself.    *)
(***************************************************************************)
AllDests == {"shared", "outside", "bad", "device"}

ASSUME DestsAssumption == Dests \subseteq AllDests
ASSUME EnvironmentsAssumption ==
    Environments \subseteq [inOrderCore : BOOLEAN, midRunReset : BOOLEAN,
                            drainWrites : BOOLEAN]

InOrderCore == env.inOrderCore   \* it waits for an access before the next

Channels == {"read", "write"}

Requests == [type : Channels, dest : Dests]

NoRequest == [type |-> "none", dest |-> "none"]

CoreStates == {"reset", "run", "wfi", "halted", "fault"}

Responses == {"none", "ok", "error"}

Handles ==
    [core : CoreStates, expects : SUBSET Channels,
     axi : [Channels -> Requests \cup {NoRequest}],
     resp : [Channels -> Responses],
     dma_pending : BOOLEAN, pending_dma : Requests \cup {NoRequest},
     fault_seen : BOOLEAN]

(* coral_gem5_create followed by coral_gem5_reset. *)
NewHandle ==
    [core |-> "reset", expects |-> {},
     axi |-> [c \in Channels |-> NoRequest],
     resp |-> [c \in Channels |-> "none"],
     dma_pending |-> FALSE, pending_dma |-> NoRequest, fault_seen |-> FALSE]

(***************************************************************************)
(* The core (external).  In one clock it may take the responses offered to *)
(* it, issue an access on a channel whose adapter is ready, and change     *)
(* state.  While it waits, an in-order core may fault but neither issues   *)
(* an access nor stops by itself.                                          *)
(***************************************************************************)
Offered(b) == {c \in Channels : b.resp[c] # "none"}

Ready(b) == {c \in Channels : b.axi[c] = NoRequest}

MayIssue(b, c) ==
    /\ b.core = "run"
    /\ c \in Ready(b)
    /\ InOrderCore => b.expects = {}

CoreMoves(b) ==
    CASE b.core # "run" -> {b.core}
      [] b.core = "run" /\ InOrderCore /\ b.expects # {} -> {"run", "fault"}
      [] OTHER -> {"run", "wfi", "halted", "fault"}

(* The core's response handshake retires the request in its adapter. *)
Retire(b, taken) ==
    [b EXCEPT !.axi = [c \in Channels |->
                          IF c \in taken THEN NoRequest ELSE b.axi[c]],
              !.resp = [c \in Channels |->
                          IF c \in taken THEN "none" ELSE b.resp[c]],
              !.expects = @ \ taken]

(***************************************************************************)
(* The deferred callback of an adapter.  Register accesses and malformed   *)
(* bursts are answered on the spot; the builder clears the slot before it  *)
(* looks at a burst, so a malformed one leaves pending_dma empty whatever  *)
(* was in it.  Any other access takes the slot and raises dma_pending.     *)
(***************************************************************************)
Callback(b, r) ==
    LET held == [b EXCEPT !.axi[r.type] = r, !.expects = @ \cup {r.type}]
    IN CASE r.dest = "device" -> [held EXCEPT !.resp[r.type] = "ok"]
         [] r.dest = "bad"    -> [held EXCEPT !.resp[r.type] = "error",
                                              !.pending_dma = NoRequest]
         [] OTHER             -> [held EXCEPT !.dma_pending = TRUE,
                                              !.pending_dma = r]

(* The adapters that see a handshake in this clock: none, one, or the read *)
(* adapter and then the write adapter.                                     *)
Issues(b) ==
    {b} \cup
    {Callback(b, r) : r \in {q \in Requests : MayIssue(b, q.type)}} \cup
    (IF InOrderCore \/ ~MayIssue(b, "read") \/ ~MayIssue(b, "write") THEN {}
     ELSE {Callback(Callback(b, r), w) :
              r \in {q \in Requests : q.type = "read"},
              w \in {q \in Requests : q.type = "write"}})

(* Gem5CoreMiniAxiWrapper::Step: one clock of the core and its adapters.   *)
Settle(i, taken, m) ==
    [Retire(i, taken) EXCEPT !.core = m, !.fault_seen = @ \/ m = "fault"]

Clock(b) ==
    UNION {{Settle(i, taken, m) : taken \in SUBSET Offered(b),
                                  m \in CoreMoves(i)} : i \in Issues(b)}

(* Clocks of a core that is held in reset or clock-gated do nothing. *)
ClockUnder(resetControl, b) == IF resetControl = 0 THEN Clock(b) ELSE {b}

(***************************************************************************)
(* coral_gem5_mmio_read and coral_gem5_mmio_write clock the core until the *)
(* slave transaction has finished, whatever dma_pending says.  One clock   *)
(* stands for them: more is the same as several accesses in a row.         *)
(***************************************************************************)
MmioAccess(resetControl, b) == ClockUnder(resetControl, b)

(* What a write of RESET_CONTROL does to the core: bit 0 resets it. *)
WriteResetCsr(v, b) ==
    IF v % 2 = 1 THEN [b EXCEPT !.core = "reset", !.expects = {}]
    ELSE IF b.core = "reset" THEN [b EXCEPT !.core = "run"] ELSE b

MmioWriteReset(resetControl, v, b) ==
    {WriteResetCsr(v, c) : c \in ClockUnder(resetControl, b)}

(* The result code of coral_gem5_step after its last clock. *)
StepResult(b) ==
    CASE b.dma_pending      -> 2
      [] ~b.dma_pending /\ b.fault_seen -> 4
      [] ~b.dma_pending /\ ~b.fault_seen /\ b.core = "halted" -> 1
      [] ~b.dma_pending /\ ~b.fault_seen /\ b.core = "wfi"    -> 3
      [] OTHER              -> 0

(* coral_gem5_step with one clock per call: no clock when there is already *)
(* something to report.                                                    *)
Step(b) ==
    IF b.dma_pending \/ b.fault_seen \/ b.core = "halted" THEN {b} ELSE Clock(b)

(***************************************************************************)
(* coral_gem5_dma_complete.  The caller passes read data exactly when its  *)
(* own request is a read; the bridge answers the request in its slot.  The *)
(* cleared slot has the type of a read and size 0, which no caller's data  *)
(* has.                                                                    *)
(***************************************************************************)
DmaCompleteAccepted(b, type, error) ==
    /\ b.dma_pending
    /\ \/ b.pending_dma.type = "write"
       \/ b.pending_dma.type = "read" /\ (error \/ type = "read")
       \/ b.pending_dma = NoRequest /\ error

(* Mutants: a completion that leaves dma_pending up, with the slot cleared *)
(* or not, and one that queues no response.                                *)
DmaComplete_StillPending(b, error) ==
    LET c == IF b.pending_dma = NoRequest THEN "read" ELSE b.pending_dma.type
    IN [b EXCEPT !.resp[c] = IF error THEN "error" ELSE "ok",
                 !.pending_dma = NoRequest]

DmaComplete_NoResponse(b, error) ==
    [b EXCEPT !.dma_pending = FALSE, !.pending_dma = NoRequest]

DmaComplete(b, error) ==
    LET c == IF b.pending_dma = NoRequest THEN "read" ELSE b.pending_dma.type
    IN [b EXCEPT !.resp[c] = IF error THEN "error" ELSE "ok",
                 !.dma_pending = FALSE, !.pending_dma = NoRequest]
=============================================================================
