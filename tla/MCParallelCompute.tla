-------------------------- MODULE MCParallelCompute --------------------------
(***************************************************************************)
(* TLC instances of ParallelCompute: three threads over five elements, so  *)
(* that the spans differ in size, and the bounds of get_splits.            *)
(***************************************************************************)
EXTENDS ParallelCompute
=============================================================================
