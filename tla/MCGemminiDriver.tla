-------------------------- MODULE MCGemminiDriver --------------------------
(***************************************************************************)
(* Instances of GemminiDriver.  Direct jobs have up to four chunks per     *)
(* matrix, with and without k, the result apart from the operands or over  *)
(* them.                                                                   *)
(***************************************************************************)
EXTENDS GemminiDriver, GemminiEngine

SmallJobs == [m : {<<0>>, <<0, 1, 2, 3>>},
              k : {<<>>, <<1>>, <<3, 4, 5>>},
              o : {<<0>>, <<2, 3>>, <<5, 6, 7>>}]

(* Every run of up to four chunks, for the jobs of the driver. *)
PoolRuns == {Run(a, n) : a \in 0 .. 3, n \in 1 .. 4} \cup {Run(a, 1) : a \in 4 .. 5}
               \cup {Run(4, 2)}

MCJobs == SmallJobs \cup [m : PoolRuns, k : PoolRuns \cup {<<>>}, o : PoolRuns]

(* One and two operands, of one chunk and of several; a matrix that is not *)
(* a multiple of its window; a size that wraps around.                     *)
MCRequests ==
    {[op |-> "relu", m |-> 2, k |-> 0],
     [op |-> "conv2d_gemm", m |-> 2, k |-> 2],
     [op |-> "maxpool", m |-> 4, k |-> 2],
     [op |-> "maxpool", m |-> 3, k |-> 2],
     [op |-> "relu", m |-> 6, k |-> 0]}
=============================================================================
