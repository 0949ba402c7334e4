--------------------------- MODULE MCBridgePorts ---------------------------
(* Small instances of BridgePorts. *)
EXTENDS BridgePorts

(* Bursts over the request slot; bursts, sums and convolutions over the    *)
(* local EXTMEM; the other operator modes; a build without operators.      *)
Config(mode, masked, local, program) ==
    [highmem |-> TRUE, mode |-> mode, masked |-> masked, local |-> local,
     programs |-> {program}]

MCConfigs ==
    {Config("RTL", FALSE, FALSE, "burst"), Config("RTL", FALSE, TRUE, "burst"),
     Config("RTL", FALSE, FALSE, "add"),
     Config("RTL", FALSE, TRUE, "conv"),
     Config("HYBRID", FALSE, TRUE, "conv"), Config("HYBRID", FALSE, FALSE, "conv"),
     Config("SAMPLED", FALSE, TRUE, "conv"), Config("SAMPLED", TRUE, TRUE, "conv"),
     [Config("HYBRID", FALSE, TRUE, "conv") EXCEPT !.highmem = FALSE],
     [Config("SAMPLED", FALSE, TRUE, "conv") EXCEPT !.highmem = FALSE]}

Conv(input, filter, channels, fits) ==
    [input |-> input, filter |-> filter, bias |-> <<channels>>,
     output |-> <<1, 1, 1, channels>>, fits |-> fits]

(* One that the kernel takes, one that it refuses, one that ends with the  *)
(* arena, one that is a byte too large, one with a bad dimension, and one  *)
(* whose size wraps around.                                                *)
MCConvs ==
    {Conv(<<1, 2, 2, 1>>, <<1, 1, 1, 1>>, 1, TRUE),
     Conv(<<1, 2, 2, 1>>, <<1, 1, 1, 1>>, 2, FALSE),
     Conv(<<1, 3, 5, 1>>, <<1, 1, 3, 5>>, 7, TRUE),
     Conv(<<1, 3, 5, 1>>, <<1, 1, 1, 17>>, 7, TRUE),
     Conv(<<1, 0, 5, 1>>, <<1, 1, 1, 1>>, 1, TRUE),
     Conv(<<1, 64, 64, 1>>, <<1, 1, 1, 1>>, 1, TRUE)}
=============================================================================
