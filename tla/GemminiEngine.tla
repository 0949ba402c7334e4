--------------------------- MODULE GemminiEngine ---------------------------
(***************************************************************************)
(* The Gemmini device as a user of the DMA engine.                         *)
(***************************************************************************)
EXTENDS GemminiDevA

(***************************************************************************)
(* The device uses the engine as any device may, with one burst at a time. *)
(***************************************************************************)
JobBursts == (UNION {{job.m, job.k, job.o} : job \in Jobs}) \ {<<>>}

AnyDevice == INSTANCE NDPAnyDevice
    WITH Bursts <- JobBursts,
         MaxBursts <- 1,
         MaxPackets <- 1

(* GemminiDevA implements NDPAnyDevice. *)
UsesEngine == AnyDevice!Spec
=============================================================================
