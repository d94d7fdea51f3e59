-------------------------- MODULE MCPolicyComparer --------------------------
(***************************************************************************)
(* TLC instance of PolicyComparer: four trajectories in each of three      *)
(* small MDPs: an infinite-horizon one with an extra event and an action   *)
(* that is the only one, after an event, an action or at the start, with   *)
(* and without discounting, and a finite one that need not end in time.    *)
(***************************************************************************)
EXTENDS PolicyComparer, TLC

Serving(discount) ==
  [category |-> "idle" :> "AwaitEvent" @@ "choice" :> "AwaitAction"
                @@ "started" :> "AwaitExtraEvent" @@ "second" :> "AwaitAction"
                @@ "forced" :> "AwaitAction",
   allowed  |-> "choice" :> {0, 1} @@ "second" :> {0, 1} @@ "forced" :> {1},
   action   |-> <<"choice", 0>> :> "idle" @@ <<"choice", 1>> :> "started"
                @@ <<"second", 0>> :> "idle" @@ <<"second", 1>> :> "forced"
                @@ <<"forced", 1>> :> "idle",
   event    |-> "idle" :> {"idle", "choice"} @@ "started" :> {"forced", "second"},
   initial  |-> {"idle", "forced"},
   infinite |-> TRUE, discounted |-> discount]

Stopping ==
  [category |-> "running" :> "AwaitEvent" @@ "offer" :> "AwaitAction" @@ "over" :> "Final",
   allowed  |-> "offer" :> {0, 1},
   action   |-> <<"offer", 0>> :> "running" @@ <<"offer", 1>> :> "over",
   event    |-> "running" :> {"offer", "over"},
   initial  |-> {"running"},
   infinite |-> FALSE, discounted |-> FALSE]

MCMDPs == {Serving(FALSE), Serving(TRUE), Stopping}
=============================================================================
