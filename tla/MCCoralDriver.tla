--------------------------- MODULE MCCoralDriver ---------------------------
(***************************************************************************)
(* Instances of CoralDriver: threads of one process that share the file.   *)
(***************************************************************************)
EXTENDS CoralDriver

CONSTANTS t1, t2

(* One thread submits and waits, a watchdog may reset at any time. *)
WatchdogCalls == [t \in {t1, t2} |->
                    IF t = t1 THEN {"start", "poll", "reset"} ELSE {"reset"}]

(* Both ways to start a run, from two threads, and resets in between. *)
MixedCalls == [t \in {t1, t2} |->
                 IF t = t1 THEN {"start", "run", "reset"}
                           ELSE {"start", "reset"}]

TwoThreads == {WatchdogCalls, MixedCalls}

OneProcess == [t \in {t1, t2} |-> {t1, t2}]
=============================================================================
