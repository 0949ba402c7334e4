---------------------------- MODULE HostCommands ----------------------------
(***************************************************************************)
(* The commands of the host runtime that use the shared window:            *)
(* opennpux_coral_dma_test, _vector_add_test, _run_model_file and          *)
(* _mobilenet_test of coral_runtime.c, over opennpux_coral_run on the      *)
(* driver (START, poll, GET_INFO, RESET) or on /dev/mem.  CoralDriver and  *)
(* CoralRuntime examine the driver's concurrency; here a call is one       *)
(* thread, and the interleavings are those with the device.                *)
(***************************************************************************)
EXTENDS CommandDevice, Integers

(***************************************************************************)
(* A model file is a sequence of commands.  valid: ranges and counts are   *)
(* in order; checksum: its expected_checksum is that of its results.       *)
(***************************************************************************)
CONSTANT Models

Commands == [job : Jobs, valid : BOOLEAN, checksum : BOOLEAN]

ASSUME ModelsAssumption == Models \subseteq Seq(Commands) \ {<<>>}

VARIABLES
    pc,         \* where the call is
    call,       \* which function, "none" between calls
    todo,       \* commands not yet completed
    completed,  \* result->completed_commands
    outcome,    \* what opennpux_coral_run has found so far
    valid,      \* the mailbox was as it must be
    before,     \* requests less completions, as read before the run
    result,     \* what the last call returned
    verified,   \* ghost: every result consumed was written by this call's runs
    disturbed   \* ghost: an older run was not over when this call began

hostVars == <<pc, call, todo, completed, outcome, valid, before, result,
              verified, disturbed>>
vars == <<deviceVars, hostVars>>

Job == Head(todo).job

InFlight == IF access.stage = "flight" THEN 1 ELSE 0

Init ==
    /\ InitDevice
    /\ pc = "idle" /\ call = "none" /\ todo = <<>> /\ completed = 0
    /\ outcome = "none" /\ valid = FALSE /\ before = 0 /\ result = "none"
    /\ verified = TRUE /\ disturbed = FALSE

-----------------------------------------------------------------------------
(* A call begins.  What earlier runs wrote is stale from here on. *)
Begins(c, commands, first) ==
    /\ pc = "idle" /\ ~exited
    /\ pc' = first /\ call' = c /\ todo' = commands /\ completed' = 0
    /\ outcome' = "none" /\ valid' = FALSE /\ before' = 0 /\ result' = "none"
    /\ verified' = TRUE
    /\ disturbed' = (access # NoAccess \/ core.state = "run" \/ (early /\ event))
    /\ mem' = Stale(mem) /\ local' = Stale(local)
    /\ core' = [core EXCEPT !.fresh = FALSE]
    /\ access' = [access EXCEPT !.fresh = FALSE]
    /\ early' = FALSE
    /\ UNCHANGED <<build, resetControl, running, event, exited, started>>

DmaTest == firmware = "dma" /\ Begins("dma", <<>>, "zero")
VectorAddTest ==
    /\ firmware = "command"
    /\ \E j \in Jobs :
          Begins("vector",
                 <<[job |-> j, valid |-> TRUE, checksum |-> TRUE]>>, "zero")
RunModelFile ==
    /\ firmware = "command"
    /\ \E m \in Models : Begins("model", m, "before requests")
MobilenetTest == firmware = "mobilenet" /\ Begins("mobilenet", <<>>, "zero")

Returns(r) ==
    /\ result' = r /\ pc' = "idle" /\ call' = "none" /\ todo' = <<>>
    /\ outcome' = "none" /\ valid' = FALSE /\ before' = 0

(* Mutant: a run that failed is forgiven when the window looks right. *)
Verdict_IgnoresRun(good) == IF good THEN "ok" ELSE "EIO"

(* What a command returns after its run. *)
Verdict(good) ==
    IF outcome # "ok" THEN outcome ELSE IF good THEN "ok" ELSE "EIO"

(* Steps of the host that leave the device alone. *)
DeviceIdle == UNCHANGED deviceVars

(* The host's stores into the window. *)
Stores(f, next) ==
    /\ pc' = next
    /\ mem' = [l \in DOMAIN mem |->
                  IF l \in DOMAIN f THEN Cell(f[l], FALSE) ELSE mem[l]]
    /\ UNCHANGED <<build, local, core, access, resetControl, running, event,
                   exited, started, early, call, todo, completed, outcome,
                   valid, before, result, verified, disturbed>>

(* The validation of one command of a model. *)
CheckCommand ==
    /\ pc = "check" /\ ~exited
    /\ IF Head(todo).valid
       THEN pc' = "zero" /\ UNCHANGED <<call, todo, outcome, valid, before, result>>
       ELSE Returns("EINVAL")
    /\ DeviceIdle /\ UNCHANGED <<completed, verified, disturbed>>

(***************************************************************************)
(* The window is prepared.  dma_test stores its three words and MobileNet  *)
(* clears the mailbox; submit_vector_add clears the command, stores inputs *)
(* and outputs, and then fills in the descriptor.                          *)
(***************************************************************************)
Prepare ==
    /\ ~exited
    /\ \/ /\ pc = "zero" /\ call = "dma"
          /\ Stores([s0 |-> 1, s1 |-> 2, s2 |-> 0], "reset")
       \/ /\ pc = "zero" /\ call = "mobilenet"
          /\ Stores([l \in DOMAIN mem |-> 0], "before requests")
       \/ /\ pc = "zero" /\ call \in {"vector", "model"}
          /\ Stores([l \in {"hdr", "status", "error", "done"} |-> 0], "tensors")
       \/ /\ pc = "tensors"
          /\ Stores([l \in {InLoc(i) : i \in 1 .. Count(Job)}
                           \cup {OutLoc(i) : i \in 1 .. Count(Job)} |->
                        IF \E i \in Elements : l = OutLoc(i) THEN 0
                        ELSE Sum(Job, CHOOSE i \in Elements : l = InLoc(i))],
                    "header")
       \/ /\ pc = "header"
          /\ Stores([hdr |-> Job, status |-> PENDING], "reset")
-----------------------------------------------------------------------------
(* opennpux_coral_get_info reads the shell's counters one after the other, *)
(* and then registers of the core.                                         *)
ReadsRequests ==
    /\ ~exited /\ pc \in {"before requests", "after requests"}
    /\ pc' = IF pc = "before requests" THEN "before completions"
             ELSE "after completions"
    /\ valid' = (valid /\ started > 0)
    /\ started' = 0
    /\ UNCHANGED <<build, mem, local, core, access, resetControl, running, event,
                   exited, early, call, todo, completed, outcome, before,
                   result, verified, disturbed>>

BeforeCompletions ==
    /\ ~exited /\ pc = "before completions"
    /\ pc' = IF call = "mobilenet" THEN "reset" ELSE "check"
    /\ before' = InFlight - started
    /\ ReadCsr
    /\ UNCHANGED <<started, call, todo, completed, outcome, valid, result,
                   verified, disturbed>>

(* As many completions as requests since the first reading. *)
CountersAgree == InFlight - started = before

(* The last checks of run_model_file and mobilenet_test. *)
AfterCompletions ==
    /\ ~exited /\ pc = "after completions"
    /\ Returns(Verdict(valid /\ CountersAgree))
    /\ ReadCsr
    /\ UNCHANGED <<started, completed, verified, disturbed>>

(* RESET_CONTROL = 1, then 0: coral_start, or the stores of /dev/mem. *)
StartRun ==
    /\ ~exited /\ pc \in {"reset", "release"}
    /\ pc' = IF pc = "reset" THEN "release" ELSE "poll"
    /\ WriteResetControl(IF pc = "reset" THEN 1 ELSE 0)
    /\ UNCHANGED <<call, todo, completed, outcome, valid, before, result,
                   verified, disturbed>>

(* A read of STATUS: the driver's worker or poll method, or the loop of    *)
(* opennpux_coral_run.                                                     *)
Poll ==
    /\ ~exited /\ pc = "poll"
    /\ ReadCsr
    /\ IF STATUS(core').halted \/ STATUS(core').fault
       THEN /\ pc' = IF build.transport = "driver" THEN "info" ELSE "consume"
            /\ outcome' = IF STATUS(core').fault THEN "EIO" ELSE "ok"
       ELSE UNCHANGED <<pc, outcome>>
    /\ UNCHANGED <<started, call, todo, completed, valid, before, result,
                   verified, disturbed>>

(* The timeout of poll(2), or the last of the polls. *)
GiveUp ==
    /\ ~exited /\ pc = "poll"
    /\ outcome' = "ETIMEDOUT"
    /\ pc' = IF build.transport = "driver" THEN "info" ELSE "consume"
    /\ DeviceIdle
    /\ UNCHANGED <<call, todo, completed, valid, before, result, verified,
                   disturbed>>

(* GET_INFO after the poll, on the driver. *)
FinalStatus ==
    /\ ~exited /\ pc = "info"
    /\ ReadCsr
    /\ pc' = "stop"
    /\ outcome' = IF outcome = "ETIMEDOUT" THEN outcome
                  ELSE IF STATUS(core').halted THEN "ok" ELSE "EIO"
    /\ UNCHANGED <<started, call, todo, completed, valid, before, result,
                   verified, disturbed>>

(* Mutant: a run that is given up is not stopped. *)
StopRun_NotAfterTimeout ==
    /\ ~exited /\ pc = "stop"
    /\ IF outcome = "ETIMEDOUT" THEN DeviceIdle ELSE WriteResetControl(1)
    /\ pc' = "consume"
    /\ UNCHANGED <<call, todo, completed, outcome, valid, before, result,
                   verified, disturbed>>

(* The RESET ioctl that ends every run on the driver. *)
StopRun ==
    /\ ~exited /\ pc = "stop"
    /\ WriteResetControl(1)
    /\ pc' = "consume"
    /\ UNCHANGED <<call, todo, completed, outcome, valid, before, result,
                   verified, disturbed>>
-----------------------------------------------------------------------------
Outputs ==
    CASE call = "dma" -> {"s0", "s2"}
      [] call = "mobilenet" -> Locs("mobilenet")
      [] OTHER -> {"status", "error", "done"}
                  \cup {OutLoc(i) : i \in 1 .. Count(Job)}

(* `valid' and `mailbox_valid' of the commands. *)
MailboxValid ==
    CASE call = "dma" -> mem["s0"].v = 3 /\ mem["s2"].v = MAGIC
      [] call = "mobilenet" ->
            /\ mem["magic"].v = MAGIC /\ mem["state"].v = COMPLETE
            /\ mem["error"].v = 0 /\ mem["count"].v = 1
      [] OTHER ->
            /\ mem["status"].v = COMPLETE /\ mem["error"].v = 0
            /\ mem["done"].v = Count(Job)
            /\ \A i \in 1 .. Count(Job) : mem[OutLoc(i)].v = Sum(Job, i)
            /\ Head(todo).checksum

(* The results are read and judged. *)
Consume ==
    /\ ~exited /\ pc = "consume"
    /\ verified' = (verified /\ \A l \in Outputs : mem[l].fresh)
    /\ \/ /\ call \in {"dma", "vector"}
          /\ Returns(Verdict(MailboxValid))
          /\ UNCHANGED completed
       \/ /\ call = "mobilenet"
          /\ pc' = "after requests" /\ valid' = MailboxValid
          /\ UNCHANGED <<call, todo, completed, outcome, before, result>>
       \/ /\ call = "model" /\ Verdict(MailboxValid) # "ok"
          /\ Returns(Verdict(MailboxValid))
          /\ UNCHANGED completed
       \/ /\ call = "model" /\ Verdict(MailboxValid) = "ok"
          /\ completed' = completed + 1
          /\ todo' = Tail(todo)
          /\ pc' = IF Len(todo) > 1 THEN "check" ELSE "after requests"
          /\ valid' = TRUE
          /\ UNCHANGED <<call, outcome, before, result>>
    /\ DeviceIdle /\ UNCHANGED disturbed

Device ==
    /\ processBackendEvent \/ completeBackendDma
    /\ UNCHANGED hostVars

Host ==
    \/ DmaTest \/ VectorAddTest \/ RunModelFile \/ MobilenetTest
    \/ CheckCommand \/ Prepare
    \/ ReadsRequests \/ BeforeCompletions \/ AfterCompletions
    \/ StartRun \/ Poll \/ GiveUp \/ FinalStatus \/ StopRun
    \/ Consume

(* fatal() has ended the simulation. *)
Ended == exited /\ UNCHANGED vars

Next == Device \/ Host \/ Ended

Spec == Init /\ [][Next]_vars

(* gem5 runs scheduled events and the memory answers. *)
Fairness ==
    /\ WF_vars(processBackendEvent /\ UNCHANGED hostVars)
    /\ WF_vars(completeBackendDma /\ UNCHANGED hostVars)

FairSpec == Spec /\ Fairness
-----------------------------------------------------------------------------
TypeOK ==
    /\ build \in Builds
    /\ DOMAIN mem = Locs(firmware) /\ DOMAIN local = Locs(firmware)
    /\ core.state \in {"reset", "run", "halted", "fault"}
    /\ access.stage \in {"none", "slot", "flight"}
    /\ resetControl \in {0, 1, 3}
    /\ running \in BOOLEAN /\ event \in BOOLEAN /\ exited \in BOOLEAN
    /\ started \in 0 .. MaxStarted
    /\ pc \in {"idle", "before requests", "before completions", "check", "zero",
               "tensors", "header", "reset", "release", "poll", "info", "stop",
               "consume", "after requests", "after completions"}
    /\ result \in {"none", "ok", "EIO", "EINVAL", "ETIMEDOUT"}
    /\ before \in -MaxStarted .. 1

(* A success was earned by this call: a command returns 0 only if firmware *)
(* runs that the call itself started wrote every result it looked at, and  *)
(* not a run before, one that a timeout cut off included.  The exception   *)
(* is a fast-mode run that halts inside a register access (HaltPublished). *)
SuccessIsFresh ==
    result = "ok" => verified \/ (backend = "fast" /\ early)

(* A failure has a cause: a run that ended well is refused only when there *)
(* was no firmware to answer, the model's own checksum is wrong, the run   *)
(* halted before its page was copied back, or a run of an earlier call was *)
(* still on the device and the command is one that it can upset: dma_test, *)
(* which works in place, and the two that compare the DMA counters.        *)
RefusalHasCause ==
    /\ pc = "consume" /\ outcome = "ok" /\ ~MailboxValid =>
          \/ backend = "stagea"
          \/ call = "model" /\ ~Head(todo).checksum
          \/ backend = "fast" /\ early
          \/ disturbed /\ call = "dma"
    /\ pc = "after completions" /\ outcome = "ok" /\ ~(valid /\ CountersAgree) =>
          disturbed \/ (backend = "fast" /\ early)

(* What the host has prepared is still there when its run starts: between  *)
(* the first store and the release of reset the device writes the window   *)
(* only for a run that was not over when the call began.                   *)
PreparedKept ==
    [][(pc \in {"reset", "release"} \/ (pc \in {"tensors", "header"} /\ pc' = pc))
         => (mem' = mem \/ disturbed)]_vars

(* On the driver the simulation survives every command of a good host:     *)
(* firmware that reports an error ends in ebreak, which the backend takes  *)
(* for fatal, and only an inference that fails, or a host on /dev/mem that *)
(* clears a descriptor under a run it has given up, gets there.            *)
DriverSurvives ==
    exited => firmware = "mobilenet" \/ (build.transport = "mem" /\ disturbed)

(* A run that is started ends: whatever DMA an earlier run left, the core  *)
(* reaches mpause or ebreak, unless the guest resets it.                   *)
RunEnds == core.state = "run" ~> core.state # "run"

=============================================================================
