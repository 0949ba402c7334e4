---------------------------- MODULE MCNPUDevice ----------------------------
(* Instances of NPUDevice for TLC. *)
EXTENDS NPUDevice

E(inOrder, midRun, draining) ==
    [inOrderCore |-> inOrder, midRunReset |-> midRun, drainWrites |-> draining]

(* Any core with any guest, and an in-order core with a guest that waits. *)
MCEnvironments == {E(FALSE, TRUE, TRUE), E(TRUE, FALSE, FALSE)}

(* An in-order core, and a guest that may reset it at any time. *)
RestlessGuest == {E(TRUE, TRUE, TRUE)}
=============================================================================
