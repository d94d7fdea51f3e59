---------------------------- MODULE MCQueueIdling ----------------------------
(***************************************************************************)
(* TLC instance of QueueIdling, with the pools and types of MCQueueMDP.    *)
(***************************************************************************)
EXTENDS MCQueueMDP, QueueIdling
=============================================================================
