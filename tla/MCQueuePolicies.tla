--------------------------- MODULE MCQueuePolicies ---------------------------
(***************************************************************************)
(* TLC instance of QueueModes: a chain of two pools over three types, pool *)
(* k serving types k and k + 1 as in mdp_config_large_6j5s.json, the first *)
(* pool with two servers; costs rise while service slows down.             *)
(***************************************************************************)
EXTENDS QueueModes, TLC

MCServers     == 0 :> 2 @@ 1 :> 1
MCCanServe    == 0 :> {0, 1} @@ 1 :> {1, 2}
MCArrivalRate == 0 :> 1 @@ 1 :> 1 @@ 2 :> 1
MCMu          == 0 :> (0 :> 2 @@ 1 :> 1 @@ 2 :> 0) @@ 1 :> (0 :> 0 @@ 1 :> 1 @@ 2 :> 1)
MCDueTime     == 0 :> 1 @@ 1 :> 0 @@ 2 :> 1
MCCostRate    == 0 :> 1 @@ 1 :> 3 @@ 2 :> 2
=============================================================================
