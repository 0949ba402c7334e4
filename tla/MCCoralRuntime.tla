-------------------------- MODULE MCCoralRuntime --------------------------
(***************************************************************************)
(* Instances of CoralRuntime: processes with files of their own.           *)
(***************************************************************************)
EXTENDS CoralRuntime

CONSTANTS p1, p2

(* The runtime chooses the calls itself. *)
RuntimeCalls == {[p \in {p1, p2} |-> {"start", "poll", "reset"}]}

OwnFiles == [p \in {p1, p2} |-> {p}]

(* Two processes on the driver, or one on /dev/mem alone. *)
ForcedTransports ==
    {[p \in {p1, p2} |-> "driver"],
     [p \in {p1, p2} |-> IF p = p1 THEN "devmem" ELSE "absent"]}

(* Two processes that leave the choice to the runtime. *)
FreeTransports == {[p \in {p1, p2} |-> "unset"]}
=============================================================================
