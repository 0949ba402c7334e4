--------------------------- MODULE CoralRuntime ---------------------------
(***************************************************************************)
(* The host runtime (runtime/host/src/coral_runtime.c) over the driver of  *)
(* module CoralDriver: processes that open the device, make runs with      *)
(* opennpux_coral_run and close it.  Each process is one thread with a     *)
(* file of its own, and may be killed whenever it is not inside a call.    *)
(* The driver of this repository always offers START and poll, so the      *)
(* runtime's RUN ioctl path is not taken; the /dev/mem path is.            *)
(***************************************************************************)
EXTENDS CoralDriver

CONSTANTS
    Environments,  \* the values of OPENNPUX_CORAL_TRANSPORT in each process
    MaxSignals     \* bound on the signals that interrupt a poll

(* A process of an environment that is "absent" does not run. *)
ASSUME RuntimeAssumption ==
    /\ Environments \subseteq
            [Threads -> {"driver", "devmem", "unset", "absent"}]
    /\ MaxSignals \in Nat

VARIABLES
    forced,   \* OPENNPUX_CORAL_TRANSPORT of each process
    app,      \* where each process is in the runtime, and what it has read
    signals   \* the signals so far

allVars == <<vars, forced, app, signals>>

NewApp == [at |-> "closed", transport |-> "none", polled |-> "ok",
           info |-> "none", left |-> 0, result |-> "none",
           fresh |-> FALSE]

Results == {"none", "ok", "EBUSY", "EIO", "ETIMEDOUT"}

RuntimeTypeOK ==
    /\ TypeOK
    /\ app \in [Threads ->
                  [at : {"closed", "open", "starting", "polling", "info",
                         "ack", "closing", "mem_reset1", "mem_reset0",
                         "mem_poll"},
                   transport : {"none", "driver", "devmem"},
                   polled : Returns, info : Statuses, left : 0 .. MaxPolls,
                   result : Results, fresh : BOOLEAN]]
    /\ signals \in 0 .. MaxSignals /\ forced \in Environments

RuntimeInit ==
    /\ Init /\ forced \in Environments
    /\ app = [p \in Threads |-> NewApp] /\ signals = 0

(* Process p goes on to place a. *)
Moves(p, a) == app' = [app EXCEPT ![p].at = a]

-----------------------------------------------------------------------------
(* opennpux_coral_open: the driver, unless it cannot be opened. *)
Opened(p, t) ==
    app' = [app EXCEPT ![p] = [NewApp EXCEPT !.at = "open", !.transport = t]]

OpenDriver(p) ==
    /\ forced[p] \in {"driver", "unset"} /\ coral_open(p)
    /\ IF ret'[p] = "ok" THEN Opened(p, "driver")
       ELSE IF forced[p] = "driver" THEN UNCHANGED app
       ELSE Opened(p, "devmem")

OpenDevmem(p) ==
    forced[p] = "devmem" /\ Opened(p, "devmem") /\ UNCHANGED vars

opennpux_coral_open(p) ==
    /\ app[p].at = "closed"
    /\ OpenDriver(p) \/ OpenDevmem(p)
    /\ UNCHANGED signals

(* opennpux_coral_close, or the exit of a process that was killed. *)
opennpux_coral_close(p) ==
    /\ app[p].at \notin {"closed", "closing"}
    /\ IF app[p].transport = "driver"
       THEN Close(p) /\ Moves(p, "closing")
       ELSE app' = [app EXCEPT ![p] = NewApp] /\ UNCHANGED vars
    /\ UNCHANGED signals

Closed(p) ==
    /\ app[p].at = "closing" /\ call[p] = "none"
    /\ app' = [app EXCEPT ![p] = NewApp]
    /\ UNCHANGED <<vars, signals>>

-----------------------------------------------------------------------------
(* opennpux_coral_run through the driver: START, poll, GET_INFO, RESET. *)
RunStart(p) ==
    /\ app[p].at = "open" /\ app[p].transport = "driver"
    /\ Enter(p, "start", 0, "no")
    /\ app' = [app EXCEPT ![p].at = "starting", ![p].result = "none",
                          ![p].polled = "ok", ![p].info = "none"]
    /\ UNCHANGED signals

StartReturned(p) ==
    /\ app[p].at = "starting" /\ call[p] = "none"
    /\ IF ret[p] = "ok"
       THEN /\ \E why \in {"no", "timeout"} : Enter(p, "poll", 0, why)
            /\ Moves(p, "polling")
       ELSE /\ app' = [app EXCEPT ![p].at = "open", ![p].result = "EBUSY"]
            /\ UNCHANGED vars
    /\ UNCHANGED signals

(* Mutant: the loop goes on after a timeout as well. *)
PollReturned_Retries(p) ==
    /\ app[p].at = "polling" /\ call[p] = "none"
    /\ \/ /\ ret[p] \in {"EINTR", "timeout"}
          /\ Enter(p, "poll", 0, "no")
          /\ UNCHANGED app
       \/ /\ ret[p] \notin {"EINTR", "timeout"}
          /\ app' = [app EXCEPT ![p].at = "info", ![p].polled = ret[p]]
          /\ UNCHANGED vars
    /\ UNCHANGED signals

(* An interrupted poll starts again with the whole timeout. *)
PollReturned(p) ==
    /\ app[p].at = "polling" /\ call[p] = "none"
    /\ \/ /\ ret[p] = "EINTR"
          /\ Enter(p, "poll", 0, "no")
          /\ UNCHANGED app
       \/ /\ ret[p] # "EINTR"
          /\ app' = [app EXCEPT ![p].at = "info", ![p].polled = ret[p]]
          /\ UNCHANGED vars
    /\ UNCHANGED signals

(* Mutant: a run that timed out is not reset. *)
ReadInfo_TimeoutLeft(p) ==
    /\ app[p].at = "info"
    /\ IF app[p].polled = "timeout"
       THEN /\ app' = [app EXCEPT ![p].at = "open", ![p].result = "ETIMEDOUT"]
            /\ UNCHANGED vars
       ELSE /\ app' = [app EXCEPT ![p].at = "ack", ![p].info = status]
            /\ Enter(p, "reset", 0, "no")
    /\ UNCHANGED signals

(* opennpux_coral_get_info, then the RESET every outcome ends with. *)
ReadInfo(p) ==
    /\ app[p].at = "info"
    /\ app' = [app EXCEPT ![p].at = "ack", ![p].info = status]
    /\ Enter(p, "reset", 0, "no")
    /\ UNCHANGED signals

Outcome(polled, info) ==
    CASE polled = "timeout"                           -> "ETIMEDOUT"
      [] polled = "POLLERR"                           -> "EIO"
      [] polled = "POLLIN" /\ info # "halted"         -> "EIO"
      [] polled = "POLLIN" /\ info = "halted"         -> "ok"

ResetReturned(p) ==
    /\ app[p].at = "ack" /\ call[p] = "none"
    /\ app' = [app EXCEPT ![p].at = "open",
                          ![p].result = Outcome(app[p].polled, app[p].info)]
    /\ UNCHANGED <<vars, signals>>

(* A signal that the process handles interrupts its poll. *)
Signal(p) ==
    /\ signals < MaxSignals /\ signals' = signals + 1
    /\ PollStops(p, "signal")
    /\ UNCHANGED app

TimesOut(p) == PollStops(p, "timeout") /\ UNCHANGED <<app, signals>>

-----------------------------------------------------------------------------
(* opennpux_coral_run through /dev/mem. *)
MemStart(p) ==
    /\ app[p].at = "open" /\ app[p].transport = "devmem"
    /\ \E polls \in 0 .. MaxPolls :
            app' = [app EXCEPT ![p].at = "mem_reset1", ![p].left = polls,
                               ![p].info = "none", ![p].result = "none",
                               ![p].fresh = FALSE]
    /\ UNCHANGED <<vars, signals>>

MemReset1(p) ==
    /\ app[p].at = "mem_reset1" /\ Moves(p, "mem_reset0")
    /\ AssertReset
    /\ UNCHANGED <<running, state_lock, workVars, users, threadVars, signals>>

MemReset0(p) ==
    /\ app[p].at = "mem_reset0"
    /\ app' = [app EXCEPT ![p].at = "mem_poll", ![p].fresh = (control = 1)]
    /\ ReleaseReset(p)
    /\ UNCHANGED <<running, state_lock, workVars, users, threadVars, signals>>

MemPoll(p) ==
    /\ app[p].at = "mem_poll"
    /\ \/ /\ app[p].left > 0 /\ app[p].info = "none"
          /\ app' = [app EXCEPT ![p].left = @ - 1, ![p].info = status]
       \/ /\ app[p].left = 0 \/ app[p].info # "none"
          /\ app' = [app EXCEPT ![p].at = "open", ![p].left = 0,
                                ![p].result = RunResult(app[p].info)]
    /\ UNCHANGED <<vars, signals>>

opennpux_coral_run(p) ==
    \/ RunStart(p) \/ StartReturned(p) \/ PollReturned(p) \/ ReadInfo(p)
    \/ ResetReturned(p)
    \/ MemStart(p) \/ MemReset1(p) \/ MemReset0(p) \/ MemPoll(p)

-----------------------------------------------------------------------------
KernelStep(p) == Kernel(p) /\ UNCHANGED <<app, signals>>

Worker == coral_completion_work /\ UNCHANGED <<app, signals>>

Device == RunEnds /\ UNCHANGED <<app, signals>>

RuntimeNext ==
    /\ \/ \E p \in Threads :
            \/ opennpux_coral_open(p) \/ opennpux_coral_run(p)
            \/ opennpux_coral_close(p) \/ Closed(p)
            \/ KernelStep(p) \/ Signal(p) \/ TimesOut(p)
       \/ Worker
       \/ Device
    /\ UNCHANGED <<mayCall, forced>>

RuntimeSpec == RuntimeInit /\ [][RuntimeNext]_allVars

(***************************************************************************)
(* A process goes on with a run it has begun, the kernel serves its calls, *)
(* its poll has a finite timeout, and it is interrupted finitely often.    *)
(***************************************************************************)
InProgram(A) == A /\ UNCHANGED <<mayCall, forced>>

Continues(p) == opennpux_coral_run(p) /\ app[p].at # "open"

RuntimeFairSpec ==
    /\ RuntimeSpec
    /\ \A p \in Threads : /\ WF_allVars(InProgram(KernelStep(p)))
                          /\ WF_allVars(InProgram(TimesOut(p)))
                          /\ WF_allVars(InProgram(Continues(p)))
                          /\ WF_allVars(InProgram(Closed(p)))
    /\ WF_allVars(InProgram(Worker))
-----------------------------------------------------------------------------
(***************************************************************************)
(* While a process waits for the run it has started, the device executes   *)
(* that very run: no other process, and no leftover of an earlier run,     *)
(* resets it or starts another in its place. On /dev/mem, where the device *)
(* is not reset when a run returns, a status taken for the end of the run  *)
(* is not the one that the run before has left.                            *)
(***************************************************************************)
OwnRun ==
    \A p \in Threads :
        /\ app[p].at \in {"polling", "info"} => control = 0 /\ starter = p
        /\ app[p].transport = "devmem" /\ app[p].info # "none" => app[p].fresh

(***************************************************************************)
(* Back-to-back runs on one open device are never refused: when the        *)
(* runtime submits a run, the driver has forgotten the one before, however *)
(* late the delayed worker is and however that run ended.                  *)
(***************************************************************************)
NeverBusy == \A p \in Threads : app[p].result # "EBUSY"

(***************************************************************************)
(* A driver run that has returned to its caller, with whatever result, is  *)
(* not still executing on the device; neither is the run of a process that was *)
(* killed and whose file is closed.                                        *)
(***************************************************************************)
StoppedBetweenRuns ==
    (\A p \in Threads : /\ app[p].at \in {"open", "closed"}
                        /\ forced[p] # "devmem") => ~Computing

(* Every run returns: success, error or timeout. *)
RunReturns ==
    \A p \in Threads :
        (app[p].at = "starting") ~> (app[p].at \in {"open", "closed"})

(***************************************************************************)
(* The runtime uses the driver when its device node exists, as it does     *)
(* throughout, and does not fall back to /dev/mem.                         *)
(***************************************************************************)
DriverSelected ==
    \A p \in Threads : app[p].transport = "devmem" => forced[p] = "devmem"
=============================================================================
