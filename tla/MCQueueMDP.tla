---------------------------- MODULE MCQueueMDP ----------------------------
(***************************************************************************)
(* TLC instance of QueueMDP: a specialist pool and a generalist pool over  *)
(* two job types, the shape of mdp_config_exp2_specialist_gen.json, with   *)
(* two servers in the generalist pool as in mdp_config_0.json.             *)
(***************************************************************************)
EXTENDS QueueMDP, TLC

MCServers     == 0 :> 1 @@ 1 :> 2
MCCanServe    == 0 :> {0} @@ 1 :> {0, 1}
MCArrivalRate == 0 :> 1 @@ 1 :> 2
MCMu          == 0 :> (0 :> 1 @@ 1 :> 0) @@ 1 :> (0 :> 2 @@ 1 :> 1)
MCDueTime     == 0 :> 0 @@ 1 :> 1
MCCostRate    == 0 :> 1 @@ 1 :> 3
=============================================================================
