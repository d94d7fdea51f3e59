----------------------------- MODULE QueueIdling -----------------------------
(***************************************************************************)
(* QueueMDP with the history of a commitment: action 2 skips all remaining *)
(* candidates and, its comment says, commits to idling until the next      *)
(* event.  An empty slot of the uniformized process is no event of the     *)
(* queue: the analytical twin and the documentation make it a self-loop.   *)
(***************************************************************************)
EXTENDS QueueMDP

VARIABLE committed  \* a skip-all has been answered, and nothing has happened since

idlingVars == <<waiting, total_arrival_rate, busy_on, action_queue, action_counter,
                next_fil_job_type, cat, committed>>

IdlingInit == Init /\ committed = FALSE

OtherStep == Serve \/ (\E n \in Jobs : ServeType(n)) \/ Skip \/ FilRefresh

IdlingNext ==
  \/ SkipAll   /\ committed' = TRUE
  \/ OtherStep /\ UNCHANGED committed
  \/ \E u \in 0 .. UniformizationRate - 1 :
       Happens(u) /\ committed' = (committed /\ EventAt(u) = Nothing)

IdlingSpec == IdlingInit /\ [][IdlingNext]_idlingVars

(* "skip ALL remaining candidates: commit to idling until the next event": *)
(* who has answered skip-all is not asked again before an arrival, a tick  *)
(* or a completion (action == 2 in ModifyStateWithAction).                 *)
IdlingCommitted == committed => cat = "AwaitEvent"
=============================================================================
