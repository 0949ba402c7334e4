-------------------------- MODULE MCNDPAnyDevice --------------------------
(* Instances of NDPAnyDevice: bursts that share chunks, contain one another *)
(* or lie apart.                                                            *)
EXTENDS NDPAnyDevice

SmallBursts == {<<0>>, <<0, 1>>, <<1, 2>>}
=============================================================================
