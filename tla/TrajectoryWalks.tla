--------------------------- MODULE TrajectoryWalks ---------------------------
(***************************************************************************)
(* What a batch of trajectories promises: each of them is a walk of the    *)
(* MDP on its own.  An event takes it on, at most up to the period it is   *)
(* evolved to, an action that is allowed takes it on, and nothing else     *)
(* happens to it.                                                          *)
(***************************************************************************)
EXTENDS Naturals

CONSTANTS
  MDPs,    \* as in TrajectoryDriver
  Walkers  \* the trajectories

VARIABLES
  mdp,
  state,   \* of each walker
  period,  \* periods it has passed
  horizon  \* the period all may be evolved to

Init ==
  /\ mdp \in MDPs
  /\ state \in [Walkers -> mdp.initial]
  /\ period = [k \in Walkers |-> 0]

(* Only events of stream 0 end a period. *)
Event(k) ==
  /\ period[k] < horizon
  /\ \/ mdp.category[state[k]] = "AwaitEvent" /\ period'[k] = period[k] + 1
     \/ mdp.category[state[k]] = "AwaitExtraEvent" /\ period'[k] = period[k]
  /\ state'[k] \in mdp.event[state[k]]

Action(k) ==
  /\ mdp.category[state[k]] = "AwaitAction"
  /\ \E a \in mdp.allowed[state[k]] : state'[k] = mdp.action[<<state[k], a>>]
  /\ period'[k] = period[k]

Rest(k) == state'[k] = state[k] /\ period'[k] = period[k]

Next ==
  /\ \A k \in Walkers : Event(k) \/ Action(k) \/ Rest(k)
  /\ UNCHANGED mdp

Spec == Init /\ [][Next]_<<mdp, state, period>>
=============================================================================
