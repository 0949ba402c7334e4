---------------------------- MODULE CoralDriver ----------------------------
(***************************************************************************)
(* The Linux driver of the Coral NPU (runtime/kernel/opennpux_coral.c):    *)
(* system calls of several threads, the delayed completion work and the    *)
(* device, interleaved at every access to shared state.                    *)
(*                                                                         *)
(* A step of a thread is one access to `running', to a device register, to *)
(* the work item or to the wait queue; taking state_lock is joined with    *)
(* the access that follows it and releasing it with the one before.        *)
(* PC_START and the values that calls only copy to user space are left     *)
(* out.  The device is what its registers show: RESET_CONTROL = 1 clears   *)
(* STATUS, RESET_CONTROL = 0 after it starts a run, and a run ends by      *)
(* raising STATUS.                                                         *)
(***************************************************************************)
EXTENDS Integers, FiniteSets

CONSTANTS
    Threads,    \* the threads that make system calls
    NoThread,   \* the holder of a free mutex
    Programs,   \* the ways in which threads may use the driver
    SharesFile, \* the threads that share the file a thread opens
    MaxPolls    \* bound on the polls argument of the RUN ioctl

Calls == {"start", "reset", "run", "poll"}

ASSUME ThreadAssumption == NoThread \notin Threads /\ MaxPolls \in Nat
ASSUME CallAssumption == Programs \subseteq [Threads -> SUBSET Calls]
ASSUME FileAssumption ==
    /\ SharesFile \in [Threads -> SUBSET Threads]
    /\ \A t \in Threads : t \in SharesFile[t]

VARIABLES
    mayCall,     \* the program: the calls each thread makes
    control,     \* RESET_CONTROL of the device: 1 in reset, 0 released
    status,      \* STATUS of the device
    starter,     \* history: the thread that started the device's run
    running,     \* opennpux_coral_dev::running
    state_lock,  \* opennpux_coral_dev::state_lock
    queued,      \* completion_work is queued
    canceling,   \* a cancel_delayed_work_sync is in progress
    workerAt,    \* where coral_completion_work is
    users,       \* the threads that have the file open (open_count = 1)
    call,        \* the system call a thread is in, or "none"
    at,          \* where in it the thread is
    seen,        \* the STATUS a thread has read
    left,        \* the polls left to the RUN ioctl
    stopping,    \* why a poll will not sleep again: "no", "timeout", "signal"
    woken,       \* poll_wqueues::triggered
    ret          \* what the last call of a thread returned

deviceVars == <<control, status, starter>>
workVars   == <<queued, canceling, workerAt>>
threadVars == <<call, at, seen, left, stopping, woken, ret>>
vars == <<mayCall, deviceVars, running, state_lock, workVars, users, threadVars>>

Statuses == {"none", "halted", "fault"}

Places == {"user",
           "start_check", "start_cancel", "start_set", "start_reset1",
           "start_reset0", "start_schedule",
           "reset_clear", "reset_cancel", "reset_write", "reset_wake",
           "run_claim", "run_reset1", "run_reset0", "run_poll", "run_clear",
           "poll_read", "poll_consume", "poll_sleep",
           "release_check", "release_close"}

Returns == {"ok", "EBUSY", "EIO", "ETIMEDOUT", "EINTR",
            "POLLIN", "POLLERR", "timeout"}

TypeOK ==
    /\ mayCall \in Programs
    /\ control \in {0, 1} /\ status \in Statuses
    /\ starter \in Threads \cup {NoThread}
    /\ running \in BOOLEAN
    /\ state_lock \in Threads \cup {NoThread}
    /\ queued \in BOOLEAN /\ canceling \in BOOLEAN
    /\ workerAt \in {"idle", "check", "read", "clear", "wake", "again"}
    /\ users \in SUBSET Threads
    /\ call \in [Threads -> Calls \cup {"none", "release"}]
    /\ at \in [Threads -> Places]
    /\ seen \in [Threads -> Statuses]
    /\ left \in [Threads -> 0 .. MaxPolls]
    /\ stopping \in [Threads -> {"no", "timeout", "signal"}]
    /\ woken \in [Threads -> BOOLEAN]
    /\ ret \in [Threads -> Returns]

Init ==
    /\ mayCall \in Programs
    /\ control = 1 /\ status = "none" /\ starter = NoThread
    /\ running = FALSE /\ state_lock = NoThread
    /\ queued = FALSE /\ canceling = FALSE /\ workerAt = "idle"
    /\ users = {}
    /\ call = [t \in Threads |-> "none"]
    /\ at = [t \in Threads |-> "user"]
    /\ seen = [t \in Threads |-> "none"]
    /\ left = [t \in Threads |-> 0]
    /\ stopping = [t \in Threads |-> "no"]
    /\ woken = [t \in Threads |-> FALSE]
    /\ ret = [t \in Threads |-> "ok"]

-----------------------------------------------------------------------------
(* The device executes a run. *)
Computing == control = 0 /\ status = "none"

(* A run ends: the core halts or faults. *)
RunEnds ==
    /\ Computing
    /\ status' \in {"halted", "fault"}
    /\ UNCHANGED <<control, starter, running, state_lock, workVars, users,
                   threadVars>>

(* coral_writel(RESET_CONTROL, 1): the run, if any, is gone. *)
AssertReset == control' = 1 /\ status' = "none" /\ UNCHANGED starter

(* coral_writel(RESET_CONTROL, 0): a run starts if the device was in reset. *)
ReleaseReset(t) ==
    /\ control' = 0
    /\ starter' = IF control = 1 THEN t ELSE starter
    /\ UNCHANGED status

-----------------------------------------------------------------------------
(* A thread goes on to place p. *)
Goto(t, p) == at' = [at EXCEPT ![t] = p]

(* A call of t returns r. *)
Return(t, r) ==
    /\ Goto(t, "user")
    /\ call' = [call EXCEPT ![t] = "none"]
    /\ ret' = [ret EXCEPT ![t] = r]

Acquire(t) == state_lock = NoThread /\ state_lock' = t
Release(t) == state_lock = t /\ state_lock' = NoThread

(* wake_up_interruptible_poll: every thread on completion_wq. *)
OnQueue(t) == at[t] \in {"poll_read", "poll_consume", "poll_sleep"}
WakeAll == woken' = [t \in Threads |-> woken[t] \/ OnQueue(t)]

(* schedule_delayed_work: a work item being cancelled stays off the queue. *)
Schedule == queued' = (queued \/ ~canceling)

(***************************************************************************)
(* cancel_delayed_work_sync: take the item off the queue and keep it off,  *)
(* then wait for the execution in progress.                                *)
(***************************************************************************)
CancelBegins == queued' = FALSE /\ canceling' = TRUE /\ UNCHANGED workerAt


CancelEnds ==
    /\ workerAt = "idle"
    /\ canceling' = FALSE
    /\ UNCHANGED <<queued, workerAt>>

-----------------------------------------------------------------------------
(* coral_start, for a thread that has the file open. *)
StartCheck(t) ==
    /\ at[t] = "start_check" /\ state_lock = NoThread
    /\ \/ /\ running
          /\ Return(t, "EBUSY")
          /\ UNCHANGED state_lock
       \/ /\ ~running
          /\ Acquire(t) /\ Goto(t, "start_cancel")
          /\ UNCHANGED <<call, ret>>
    /\ UNCHANGED <<deviceVars, running, workVars, users, seen, left,
                   stopping, woken>>

(* Mutant: coral_start does not wait for the previous run's worker. *)
StartCancel_Skipped(t) ==
    /\ at[t] = "start_cancel" /\ Goto(t, "start_set")
    /\ UNCHANGED <<deviceVars, running, state_lock, workVars, users, call,
                   seen, left, stopping, woken, ret>>

StartCancel(t) ==
    /\ at[t] = "start_cancel" /\ Goto(t, "start_set")
    /\ CancelBegins
    /\ UNCHANGED <<deviceVars, running, state_lock, users, call, seen, left,
                   stopping, woken, ret>>

StartSet(t) ==
    /\ at[t] = "start_set" /\ Goto(t, "start_reset1")
    /\ CancelEnds
    /\ running' = TRUE
    /\ UNCHANGED <<deviceVars, state_lock, users, call, seen, left,
                   stopping, woken, ret>>

StartReset1(t) ==
    /\ at[t] = "start_reset1" /\ Goto(t, "start_reset0")
    /\ AssertReset
    /\ UNCHANGED <<running, state_lock, workVars, users, call, seen, left,
                   stopping, woken, ret>>

StartReset0(t) ==
    /\ at[t] = "start_reset0" /\ Goto(t, "start_schedule")
    /\ ReleaseReset(t)
    /\ UNCHANGED <<running, state_lock, workVars, users, call, seen, left,
                   stopping, woken, ret>>


StartSchedule(t) ==
    /\ at[t] = "start_schedule" /\ Return(t, "ok")
    /\ Schedule /\ Release(t)
    /\ UNCHANGED <<deviceVars, running, canceling, workerAt, users, seen,
                   left, stopping, woken>>

coral_start(t) ==
    \/ StartCheck(t) \/ StartCancel(t) \/ StartSet(t) \/ StartReset1(t)
    \/ StartReset0(t) \/ StartSchedule(t)

-----------------------------------------------------------------------------
(* Mutant: coral_reset leaves running as it is. *)
ResetClear_Keeps(t) ==
    /\ at[t] = "reset_clear" /\ Goto(t, "reset_cancel")
    /\ Acquire(t)
    /\ UNCHANGED <<deviceVars, running, workVars, users, call, seen, left,
                   stopping, woken, ret>>

(* coral_reset, called by the RESET ioctl and by coral_release. *)
ResetClear(t) ==
    /\ at[t] = "reset_clear" /\ Goto(t, "reset_cancel")
    /\ Acquire(t)
    /\ running' = FALSE
    /\ UNCHANGED <<deviceVars, workVars, users, call, seen, left, stopping,
                   woken, ret>>

ResetCancel(t) ==
    /\ at[t] = "reset_cancel" /\ Goto(t, "reset_write")
    /\ CancelBegins
    /\ UNCHANGED <<deviceVars, running, state_lock, users, call, seen, left,
                   stopping, woken, ret>>

ResetWrite(t) ==
    /\ at[t] = "reset_write" /\ Goto(t, "reset_wake")
    /\ CancelEnds
    /\ AssertReset
    /\ UNCHANGED <<running, state_lock, users, call, seen, left, stopping,
                   woken, ret>>

ResetWake(t) ==
    /\ at[t] = "reset_wake"
    /\ WakeAll /\ Release(t)
    /\ \/ /\ call[t] = "reset"
          /\ Return(t, "ok")
       \/ /\ call[t] = "release"
          /\ Goto(t, "release_close")
          /\ UNCHANGED <<call, ret>>
    /\ UNCHANGED <<deviceVars, running, workVars, users, seen, left,
                   stopping>>

coral_reset(t) ==
    ResetClear(t) \/ ResetCancel(t) \/ ResetWrite(t) \/ ResetWake(t)

-----------------------------------------------------------------------------
(* coral_run: the synchronous ioctl takes neither the lock nor the worker. *)
RunClaim(t) ==
    /\ at[t] = "run_claim"
    /\ \/ /\ running
          /\ Return(t, "EBUSY")
          /\ UNCHANGED running
       \/ /\ ~running
          /\ running' = TRUE
          /\ Goto(t, "run_reset1")
          /\ UNCHANGED <<call, ret>>
    /\ UNCHANGED <<deviceVars, state_lock, workVars, users, seen, left,
                   stopping, woken>>

RunReset1(t) ==
    /\ at[t] = "run_reset1" /\ Goto(t, "run_reset0")
    /\ AssertReset
    /\ UNCHANGED <<running, state_lock, workVars, users, call, seen, left,
                   stopping, woken, ret>>

RunReset0(t) ==
    /\ at[t] = "run_reset0" /\ Goto(t, "run_poll")
    /\ ReleaseReset(t)
    /\ seen' = [seen EXCEPT ![t] = "none"]
    /\ UNCHANGED <<running, state_lock, workVars, users, call, left,
                   stopping, woken, ret>>

(* One turn of the polling loop, or its end. *)
RunPoll(t) ==
    /\ at[t] = "run_poll"
    /\ \/ /\ left[t] > 0 /\ seen[t] = "none"
          /\ seen' = [seen EXCEPT ![t] = status]
          /\ left' = [left EXCEPT ![t] = @ - 1]
          /\ UNCHANGED at
       \/ /\ left[t] = 0 \/ seen[t] # "none"
          /\ Goto(t, "run_clear")
          /\ left' = [left EXCEPT ![t] = 0]
          /\ UNCHANGED seen
    /\ UNCHANGED <<deviceVars, running, state_lock, workVars, users, call,
                   stopping, woken, ret>>

RunResult(s) == CASE s = "fault"  -> "EIO"
                  [] s = "none"   -> "ETIMEDOUT"
                  [] s = "halted" -> "ok"

RunClear(t) ==
    /\ at[t] = "run_clear" /\ Return(t, RunResult(seen[t]))
    /\ running' = FALSE
    /\ seen' = [seen EXCEPT ![t] = "none"]
    /\ UNCHANGED <<deviceVars, state_lock, workVars, users, left, stopping,
                   woken>>

coral_run(t) ==
    \/ RunClaim(t) \/ RunReset1(t) \/ RunReset0(t) \/ RunPoll(t)
    \/ RunClear(t)

-----------------------------------------------------------------------------
(***************************************************************************)
(* poll(2) on the file: coral_poll is called once, and again after each    *)
(* wake-up and once more when the time is over or a signal is pending.     *)
(***************************************************************************)
PollRead(t) ==
    /\ at[t] = "poll_read" /\ Goto(t, "poll_consume")
    /\ seen' = [seen EXCEPT ![t] = status]
    /\ UNCHANGED <<deviceVars, running, state_lock, workVars, users, call,
                   left, stopping, woken, ret>>

PollReturns(t, r) ==
    /\ Return(t, r)
    /\ seen' = [seen EXCEPT ![t] = "none"]
    /\ stopping' = [stopping EXCEPT ![t] = "no"]
    /\ woken' = [woken EXCEPT ![t] = FALSE]

PollReady(t) ==
    /\ seen[t] # "none"
    /\ running' = FALSE
    /\ PollReturns(t, IF seen[t] = "fault" THEN "POLLERR" ELSE "POLLIN")

PollEmpty(t) ==
    /\ seen[t] = "none"
    /\ \/ /\ stopping[t] = "no"
          /\ Goto(t, "poll_sleep")
          /\ UNCHANGED <<call, seen, stopping, woken, ret>>
       \/ stopping[t] = "timeout" /\ PollReturns(t, "timeout")
       \/ stopping[t] = "signal" /\ PollReturns(t, "EINTR")
    /\ UNCHANGED running

PollConsume(t) ==
    /\ at[t] = "poll_consume"
    /\ PollReady(t) \/ PollEmpty(t)
    /\ UNCHANGED <<deviceVars, state_lock, workVars, users, left>>

PollWakes(t) ==
    /\ at[t] = "poll_sleep" /\ woken[t]
    /\ Goto(t, "poll_read")
    /\ woken' = [woken EXCEPT ![t] = FALSE]
    /\ UNCHANGED <<deviceVars, running, state_lock, workVars, users, call,
                   seen, left, stopping, ret>>

PollStops(t, why) ==
    /\ at[t] = "poll_sleep"
    /\ Goto(t, "poll_read")
    /\ stopping' = [stopping EXCEPT ![t] = why]
    /\ UNCHANGED <<deviceVars, running, state_lock, workVars, users, call,
                   seen, left, woken, ret>>

coral_poll(t) == PollRead(t) \/ PollConsume(t) \/ PollWakes(t)

-----------------------------------------------------------------------------
(* Mutant: a second open succeeds. *)
coral_open_Again(t) ==
    /\ call[t] = "none" /\ t \notin users
    /\ users' = users \cup SharesFile[t]
    /\ ret' = [ret EXCEPT ![t] = "ok"]
    /\ UNCHANGED <<deviceVars, running, state_lock, workVars, call, at, seen,
                   left, stopping, woken>>

(* coral_open: the file is opened once; another open gets EBUSY. *)
coral_open(t) ==
    /\ call[t] = "none" /\ t \notin users
    /\ IF users = {}
       THEN users' = SharesFile[t] /\ ret' = [ret EXCEPT ![t] = "ok"]
       ELSE ret' = [ret EXCEPT ![t] = "EBUSY"] /\ UNCHANGED users
    /\ UNCHANGED <<deviceVars, running, state_lock, workVars, call, at, seen,
                   left, stopping, woken>>

(* The last close of the file, which no system call is using any more. *)
Close(t) ==
    /\ t \in users /\ \A u \in users : call[u] = "none"
    /\ call' = [call EXCEPT ![t] = "release"]
    /\ Goto(t, "release_check")
    /\ UNCHANGED <<deviceVars, running, state_lock, workVars, users, seen,
                   left, stopping, woken, ret>>


ReleaseCheck(t) ==
    /\ at[t] = "release_check"
    /\ Goto(t, IF running THEN "reset_clear" ELSE "release_close")
    /\ UNCHANGED <<deviceVars, running, state_lock, workVars, users, call,
                   seen, left, stopping, woken, ret>>

ReleaseClose(t) ==
    /\ at[t] = "release_close" /\ Return(t, "ok")
    /\ users' = {}
    /\ UNCHANGED <<deviceVars, running, state_lock, workVars, seen, left,
                   stopping, woken>>

coral_release(t) == ReleaseCheck(t) \/ ReleaseClose(t)

(* A thread enters a system call on the open file. *)
Entry == [start |-> "start_check", reset |-> "reset_clear",
          run |-> "run_claim", poll |-> "poll_read"]

FileInUse(t) ==
    t \in users /\ call[t] = "none" /\ \A u \in users : call[u] # "release"

Enter(t, c, polls, why) ==
    /\ FileInUse(t)
    /\ call' = [call EXCEPT ![t] = c]
    /\ Goto(t, Entry[c])
    /\ left' = [left EXCEPT ![t] = polls]
    /\ stopping' = [stopping EXCEPT ![t] = why]
    /\ UNCHANGED <<deviceVars, running, state_lock, workVars, users, seen,
                   woken, ret>>

(* coral_ioctl and the entry of poll(2), with their arguments. *)
coral_ioctl(t) ==
    \/ \E c \in mayCall[t] \cap {"start", "reset"} : Enter(t, c, 0, "no")
    \/ \E polls \in 0 .. MaxPolls :
            "run" \in mayCall[t] /\ Enter(t, "run", polls, "no")
    \/ \E why \in {"no", "timeout"} :
            "poll" \in mayCall[t] /\ Enter(t, "poll", 0, why)

-----------------------------------------------------------------------------
(* coral_completion_work on the system work queue. *)
WorkBegins ==
    /\ queued /\ workerAt = "idle"
    /\ queued' = FALSE /\ workerAt' = "check"
    /\ UNCHANGED <<deviceVars, running, state_lock, canceling, users,
                   threadVars>>

WorkCheck ==
    /\ workerAt = "check"
    /\ workerAt' = IF running THEN "read" ELSE "idle"
    /\ UNCHANGED <<deviceVars, running, state_lock, queued, canceling, users,
                   threadVars>>

WorkRead ==
    /\ workerAt = "read"
    /\ workerAt' = IF status = "none" THEN "again" ELSE "clear"
    /\ UNCHANGED <<deviceVars, running, state_lock, queued, canceling, users,
                   threadVars>>

(* Mutant: the worker takes state_lock to clear running. *)
WorkClear_Locks ==
    /\ workerAt = "clear" /\ workerAt' = "wake"
    /\ state_lock = NoThread
    /\ running' = FALSE
    /\ UNCHANGED <<deviceVars, state_lock, queued, canceling, users,
                   threadVars>>

WorkClear ==
    /\ workerAt = "clear" /\ workerAt' = "wake"
    /\ running' = FALSE
    /\ UNCHANGED <<deviceVars, state_lock, queued, canceling, users,
                   threadVars>>

WorkWake ==
    /\ workerAt = "wake" /\ workerAt' = "idle"
    /\ WakeAll
    /\ UNCHANGED <<deviceVars, running, state_lock, queued, canceling, users,
                   call, at, seen, left, stopping, ret>>

WorkAgain ==
    /\ workerAt = "again" /\ workerAt' = "idle"
    /\ IF running THEN Schedule ELSE UNCHANGED queued
    /\ UNCHANGED <<deviceVars, running, state_lock, canceling, users,
                   threadVars>>

coral_completion_work ==
    WorkBegins \/ WorkCheck \/ WorkRead \/ WorkClear \/ WorkWake \/ WorkAgain

-----------------------------------------------------------------------------
(* A step of the kernel in a call of t. *)
Kernel(t) ==
    \/ coral_start(t) \/ coral_reset(t) \/ coral_run(t) \/ coral_poll(t)
    \/ coral_release(t)

Next ==
    /\ \/ \E t \in Threads :
            \/ Kernel(t)
            \/ \E why \in {"timeout", "signal"} : PollStops(t, why)
            \/ coral_open(t) \/ coral_ioctl(t) \/ Close(t)
       \/ coral_completion_work
       \/ RunEnds
    /\ UNCHANGED mayCall

Spec == Init /\ [][Next]_vars

(***************************************************************************)
(* The scheduler runs every thread in the kernel and the work queue; the   *)
(* mutex hands itself over to its waiters in turn.  Nothing is assumed of  *)
(* the device, of what threads call, or of timeouts and signals.           *)
(***************************************************************************)
Fairness ==
    /\ \A t \in Threads : /\ WF_vars(Kernel(t) /\ UNCHANGED mayCall)
                          /\ SF_vars(StartCheck(t) /\ UNCHANGED mayCall)
                          /\ SF_vars(ResetClear(t) /\ UNCHANGED mayCall)
    /\ WF_vars(coral_completion_work /\ UNCHANGED mayCall)

FairSpec == Spec /\ Fairness
-----------------------------------------------------------------------------
(***************************************************************************)
(* A work item that coral_start or coral_reset has cancelled is neither    *)
(* queued nor executing until coral_start schedules it for the new run,    *)
(* even when it was about to requeue itself: no completion of the old run  *)
(* is taken for one of the new run.                                        *)
(***************************************************************************)
CancelledStaysAway ==
    \A t \in Threads :
        at[t] \in {"start_reset1", "start_reset0", "start_schedule",
                   "reset_wake"}
            => ~queued /\ workerAt = "idle"

(* A program that starts its runs with START, as the runtime does. *)
Asynchronous == \A t \in Threads : "run" \notin mayCall[t]




(***************************************************************************)
(* Every ioctl and every close returns: coral_start and coral_reset wait   *)
(* for the worker while they hold state_lock, and the worker never waits   *)
(* for them.                                                               *)
(***************************************************************************)
CallsReturn ==
    \A t \in Threads :
        (call[t] \in {"start", "reset", "run", "release"})
            ~> (call[t] = "none")
=============================================================================
