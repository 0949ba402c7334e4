--------------------------- MODULE CommandDevice ---------------------------
(***************************************************************************)
(* The NPU as the host commands see it: its registers, the firmware on its *)
(* core and the shared window, with the data that moves between them.      *)
(* The three ways the shell is built:                                      *)
(*   "timing"  Verilated core, every access to the window is a gem5 DMA    *)
(*   "fast"    Verilated core, fastDma: the bridge serves the window from  *)
(*             its local EXTMEM; the mailbox page is copied in when the    *)
(*             core is started and back when it has halted                 *)
(*   "stagea"  no core: a started device halts after its latency           *)
(*                                                                         *)
(* NPUDevice examines the handlers of the timing mode for any core; here   *)
(* the core runs a program, waits for each access before it goes on, and a *)
(* restarted core does not reach its first access before the bridge has    *)
(* answered the access of the run before.                                  *)
(***************************************************************************)
EXTENDS CoralFirmware

CONSTANT Builds   \* the [backend, firmware, transport] to look at

VARIABLES
    build,         \* what was built and how it is used: never changes
    mem,           \* the window in the memory of the system
    local,         \* the local EXTMEM of the bridge
    core,          \* state, program counter and registers of the core
    access,        \* the access the bridge has accepted, or NoAccess
    resetControl,  \* as in NPUDevice
    running, event,
    exited,        \* a fatal_if has ended the simulation
    started,       \* DMA requests since the host last read DMA_REQUESTS
    early          \* the run has halted while the guest accessed a register

deviceVars == <<build, mem, local, core, access, resetControl, running, event,
                exited, started, early>>

backend  == build.backend
firmware == build.firmware

(***************************************************************************)
(* A cell of the window remembers whether a run that the current host call *)
(* started wrote it.  The programs and the host never look at that.        *)
(***************************************************************************)
Cell(v, fresh) == [v |-> v, fresh |-> fresh]
Stale(m) == [l \in DOMAIN m |-> Cell(m[l].v, FALSE)]

NoAccess == [stage |-> "none", instr |-> Return(0), mine |-> FALSE,
             fresh |-> FALSE]

MaxStarted == 2   \* `started' counts no further

Started(n) == IF n < MaxStarted THEN n + 1 ELSE n

InitDevice ==
    /\ build \in Builds
    /\ mem = [l \in Locs(firmware) |-> Cell(0, FALSE)]
    /\ local = [l \in Locs(firmware) |-> Cell(0, FALSE)]
    /\ core = [StartedCore EXCEPT !.state = "reset"]
    /\ access = NoAccess
    /\ resetControl = 3 /\ running = FALSE /\ event = FALSE
    /\ exited = FALSE /\ started = 0 /\ early = FALSE

-----------------------------------------------------------------------------
(***************************************************************************)
(* One clock of the core: the next instruction of its program.  With local *)
(* EXTMEM the bridge answers the access in the same clock, otherwise it    *)
(* goes to the slot.  A result is [core, access, local].                   *)
(***************************************************************************)
Now == [core |-> core, access |-> access, local |-> local]

Execute(d, n) ==
    CASE n.op = "return" ->
            [d EXCEPT !.core.state = IF n.val = 0 THEN "halted" ELSE "fault"]
      [] n.op = "write" /\ backend = "fast" ->
            [d EXCEPT !.core = AfterWrite(firmware, @, n.next),
                      !.local[n.loc] = Cell(n.val, d.core.fresh)]
      [] n.op = "read" /\ backend = "fast" ->
            [d EXCEPT !.core = AfterRead(firmware, @, d.local[n.loc].v)]
      [] OTHER ->
            [d EXCEPT !.access = [stage |-> "slot", instr |-> n, mine |-> TRUE,
                                  fresh |-> d.core.fresh]]

Clock(d) ==
    IF d.core.state = "run" /\ d.access = NoAccess
    THEN {Execute(d, n) : n \in Instructions(firmware, d.core)}
    ELSE {d}

(* A register access clocks a Verilated core that is not held: not at all  *)
(* as far as the program can tell, or once.                                *)
MmioClocks(d) ==
    IF backend # "stagea" /\ resetControl = 0 THEN {d} \cup Clock(d) ELSE {d}

Becomes(d) == core' = d.core /\ access' = d.access /\ local' = d.local

HaltsEarly(d) ==
    early' = (early \/ (core.state = "run" /\ d.core.state = "halted"))

STATUS(c) == [halted |-> c.state = "halted", fault |-> c.state = "fault"]
-----------------------------------------------------------------------------
(* MMIO read of a register of the core; the value is that of core'. *)
ReadCsr ==
    /\ \E d \in MmioClocks(Now) : Becomes(d) /\ HaltsEarly(d)
    /\ UNCHANGED <<build, mem, resetControl, running, event, exited>>

(* syncHostToLocalExtmem, before the write reaches the backend. *)
SyncHostToLocal(d) == [d EXCEPT !.local = mem]

(* CoralStageABackend::writeCsr: the run starts when reset is released. *)
StageAReset(v) ==
    /\ core' = IF v % 2 = 1 THEN [core EXCEPT !.state = "reset"]
               ELSE IF resetControl % 2 = 1 /\ v = 0 THEN StartedCore ELSE core
    /\ event' = IF v % 2 = 1 THEN FALSE
                ELSE IF resetControl % 2 = 1 /\ v = 0 THEN TRUE ELSE event
    /\ UNCHANGED <<running, access, local, started, early>>

ResetCore(v, d) ==
    IF v % 2 = 1
    THEN [d EXCEPT !.core = [StartedCore EXCEPT !.state = "reset"],
                   !.access.mine = FALSE]
    ELSE IF d.core.state = "reset" THEN [d EXCEPT !.core = StartedCore] ELSE d

(* NPUDevice::write and CoralVerilatedBackend::write of RESET_CONTROL.     *)
VerilatedReset(v) ==
    LET sync == backend = "fast" /\ v = 0
    IN  /\ \E d \in MmioClocks(IF sync THEN SyncHostToLocal(Now) ELSE Now) :
              Becomes(ResetCore(v, d)) /\ HaltsEarly(d)
        /\ running' = (v = 0) /\ event' = (v = 0)
        /\ started' = IF sync THEN Started(started) ELSE started

(* Mutant: a reset copies the page back, whatever the host has put there. *)
WriteResetControl_CopiesBack(v) ==
    /\ IF backend = "stagea" THEN StageAReset(v) ELSE VerilatedReset(v)
    /\ resetControl' = v
    /\ mem' = IF backend = "fast" /\ v = 1 THEN local ELSE mem
    /\ UNCHANGED <<build, exited>>

(* A write of RESET_CONTROL on either backend. *)
WriteResetControl(v) ==
    /\ IF backend = "stagea" THEN StageAReset(v) ELSE VerilatedReset(v)
    /\ resetControl' = v
    /\ UNCHANGED <<build, mem, exited>>
-----------------------------------------------------------------------------
(* What the backend event does with the state that the batch has left. *)
EventFatal(d) ==
    /\ d.core.state = "fault"
    /\ Becomes(d)
    /\ exited' = TRUE
    /\ UNCHANGED <<mem, running, event, started>>

(* A request in the slot: start its DMA unless one is active.              *)
EventDma(d) ==
    /\ d.core.state # "fault" /\ d.access # NoAccess
    /\ Becomes([d EXCEPT !.access.stage = "flight"])
    /\ started' = IF d.access.stage = "slot" THEN Started(started) ELSE started
    /\ event' = FALSE
    /\ UNCHANGED <<mem, running, exited>>

(* Mutant: the page is not copied back. *)
EventHalted_NoCopy(d) ==
    /\ d.core.state = "halted" /\ d.access = NoAccess
    /\ Becomes(d)
    /\ running' = FALSE /\ event' = FALSE
    /\ started' = IF backend = "fast" THEN Started(started) ELSE started
    /\ UNCHANGED <<mem, exited>>

(* The run is over; fast mode calls syncLocalExtmemToHost. *)
EventHalted(d) ==
    /\ d.core.state = "halted" /\ d.access = NoAccess
    /\ Becomes(d)
    /\ running' = FALSE /\ event' = FALSE
    /\ mem' = IF backend = "fast" THEN d.local ELSE mem
    /\ started' = IF backend = "fast" THEN Started(started) ELSE started
    /\ UNCHANGED exited

EventGoesOn(d) ==
    /\ d.core.state = "run" /\ d.access = NoAccess
    /\ Becomes(d)
    /\ UNCHANGED <<mem, running, event, started, exited>>

(* processBackendEvent.  Stage A's processEvent just halts. *)
processBackendEvent ==
    /\ event /\ ~exited
    /\ IF backend = "stagea"
       THEN /\ core' = [core EXCEPT !.state = "halted"] /\ event' = FALSE
            /\ UNCHANGED <<mem, access, local, running, started, exited>>
       ELSE \E d \in Clock(Now) :
              EventFatal(d) \/ EventDma(d) \/ EventHalted(d) \/ EventGoesOn(d)
    /\ UNCHANGED <<build, resetControl, early>>

(* The core after the answer to its access. *)
Answered(c, n) ==
    IF n.op = "read" THEN AfterRead(firmware, c, mem[n.loc].v)
    ELSE AfterWrite(firmware, c, n.next)

(* Mutant: the completion does not schedule the next batch. *)
completeBackendDma_NoEvent ==
    /\ access.stage = "flight" /\ ~exited
    /\ mem' = IF access.instr.op = "read" THEN mem
              ELSE [mem EXCEPT ![access.instr.loc] =
                                    Cell(access.instr.val, access.fresh)]
    /\ core' = IF access.mine THEN Answered(core, access.instr) ELSE core
    /\ access' = NoAccess
    /\ UNCHANGED <<build, local, resetControl, running, event, exited, started,
                   early>>

(* completeBackendDma; a run that was reset takes no notice of its answer. *)
completeBackendDma ==
    /\ access.stage = "flight" /\ ~exited
    /\ mem' = IF access.instr.op = "read" THEN mem
              ELSE [mem EXCEPT ![access.instr.loc] =
                                    Cell(access.instr.val, access.fresh)]
    /\ core' = IF access.mine THEN Answered(core, access.instr) ELSE core
    /\ access' = NoAccess
    /\ event' = running
    /\ UNCHANGED <<build, local, resetControl, running, exited, started, early>>
=============================================================================
