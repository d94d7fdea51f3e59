------------------------- MODULE MCSampleGeneration -------------------------
(***************************************************************************)
(* TLC instance of SampleGeneration: three ranks that share five samples   *)
(* unequally, on one or two threads each, two generations, one restart.    *)
(* Four of the five are left to train on: a mini-batch of 4 fits, and one  *)
(* of 64, the default, does not.                                           *)
(***************************************************************************)
EXTENDS SampleGeneration, TLC

MCHardwareThreads == 0 :> 2 @@ 1 :> 1 @@ 2 :> 3
=============================================================================
