----------------------------- MODULE MCNDPDevA -----------------------------
(* Instances of NDPDevA: a memory with a repeated and a missing element. *)
EXTENDS NDPDevA

SmallMemory == [a \in 0 .. 4 |-> <<2, 1, 2, 3, 1>>[a + 1]]
=============================================================================
