--------------------------- MODULE MCHostCommands ---------------------------
(* Instances of HostCommands for TLC. *)
EXTENDS HostCommands

B(b, f, t) == [backend |-> b, firmware |-> f, transport |-> t]

MCBuilds ==
    {B("timing", f, t) : f \in Firmwares, t \in {"driver", "mem"}}
    \cup {B("fast", "mobilenet", t) : t \in {"driver", "mem"}}
    \cup {B("stagea", "command", t) : t \in {"driver", "mem"}}

FastBuilds == {B("fast", "mobilenet", "driver")}

Good(j) == [job |-> j, valid |-> TRUE, checksum |-> TRUE]

MCModels ==
    {<<Good(2), Good(1)>>,
     <<Good(1), [Good(2) EXCEPT !.valid = FALSE]>>,
     <<[Good(1) EXCEPT !.checksum = FALSE]>>}
=============================================================================
