-------------------------- MODULE TrajectoryDriver --------------------------
(***************************************************************************)
(* What the type-erased MDP does to the trajectories it is handed:         *)
(* initiation, IncorporateAction, and one round of the loops of            *)
(* IncorporateUntilSomeAction<SkipTrivial = true>, for any MDP.            *)
(***************************************************************************)
EXTENDS Integers, FiniteSets

(***************************************************************************)
(* An MDP is a record of                                                   *)
(*   category: state -> "AwaitEvent" (event stream 0), "AwaitExtraEvent"   *)
(*             (another stream), "AwaitAction" or "Final",                 *)
(*   allowed:  state -> allowed actions,                                   *)
(*   action:   <<state, action>> -> state,                                 *)
(*   event:    state -> the states an event can lead to,                   *)
(*   initial:  the initial states,                                         *)
(*   infinite, discounted: its horizon and objective.                      *)
(* CumulativeReturn is abstracted to whose return it is and up to when.    *)
(***************************************************************************)
Initiated(mdp, externalIndex, s) ==
  [state |-> s, Category |-> mdp.category[s], PeriodCount |-> 0,
   ExternalIndex |-> externalIndex]

CumulativeReturn(traj) == [of |-> traj.ExternalIndex, upto |-> traj.PeriodCount]

IsAwaitAction(traj) == traj.Category = "AwaitAction"
IsAwaitEvent(traj)  == traj.Category \in {"AwaitEvent", "AwaitExtraEvent"}
IsFinal(traj)       == traj.Category = "Final"

(* The category is kept up to date with the state. *)
Moved(mdp, traj, s) == [traj EXCEPT !.state = s, !.Category = mdp.category[s]]

(* Faulty variant: the bound is taken for the last period to simulate. *)
GoesOnOneMore(traj, MaxPeriodCount) == traj.PeriodCount <= MaxPeriodCount /\ IsAwaitEvent(traj)

(* The test of the loop over events. *)
GoesOn(traj, MaxPeriodCount) == traj.PeriodCount < MaxPeriodCount /\ IsAwaitEvent(traj)

(* Faulty variant: every event is taken for the end of a period. *)
AfterAnyEvent(mdp, traj, s) == [Moved(mdp, traj, s) EXCEPT !.PeriodCount = @ + 1]

(* Only events of stream 0 count as periods. *)
AfterEvent(mdp, traj, s) ==
  [Moved(mdp, traj, s) EXCEPT
     !.PeriodCount = IF traj.Category = "AwaitEvent" THEN @ + 1 ELSE @]

IsTrivial(mdp, traj) == IsAwaitAction(traj) /\ Cardinality(mdp.allowed[traj.state]) = 1

AfterAction(mdp, traj, a) == Moved(mdp, traj, mdp.action[<<traj.state, a>>])
=============================================================================
