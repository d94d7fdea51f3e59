----------------------------- MODULE QueueModes ------------------------------
(***************************************************************************)
(* The heuristics of QueuePolicies in either action mode.  The mode is a   *)
(* constant of a queue_mdp instance; here a behaviour chooses it, among    *)
(* Modes, at its start.  The two instances are taken of QueueProofs, which *)
(* adds only theorems to QueuePolicies, so that those hold of them too.    *)
(***************************************************************************)
EXTENDS Integers

CONSTANTS
  NJobs, KServers, Servers, CanServe, ArrivalRate, TickRate, Mu, CostRate, DueTime,
  Depth, SortDescending, EnableSkipAll, ForceLateService, MaxAge,
  Modes  \* the values of PerEventMode to run

VARIABLES
  waiting, total_arrival_rate, busy_on, action_queue, action_counter,
  next_fil_job_type, cat, policy, draws,
  per_event  \* the mode chosen

vars == <<waiting, total_arrival_rate, busy_on, action_queue, action_counter,
          next_fil_job_type, cat, policy, draws, per_event>>

ByQueue  == INSTANCE QueueProofs WITH PerEventMode <- FALSE
PerEvent == INSTANCE QueueProofs WITH PerEventMode <- TRUE

(* The data make an instance in every mode that is run. *)
ASSUME ModesAssumption ==
  /\ Modes \subseteq BOOLEAN
  /\ FALSE \in Modes => ByQueue!StaticAssumption
  /\ TRUE \in Modes => PerEvent!StaticAssumption

Init ==
  /\ per_event \in Modes
  /\ IF per_event THEN PerEvent!PolicyInit ELSE ByQueue!PolicyInit

Next ==
  /\ \/ ~per_event /\ ByQueue!PolicyNext
     \/ per_event /\ PerEvent!PolicyNext
  /\ UNCHANGED per_event

Spec == Init /\ [][Next]_vars

-----------------------------------------------------------------------------
(* The properties of QueuePolicies, in the mode chosen. *)

(* Answers are allowed actions, which nothing checks. *)
PolicyLegal == IF per_event THEN PerEvent!PolicyLegal ELSE ByQueue!PolicyLegal

(* No heuristic leaves a server idle that could start a waiting job. *)
WorkConserving == IF per_event THEN PerEvent!WorkConserving ELSE ByQueue!WorkConserving

(* With the oldest first, enforced FIFO never skips. *)
EnforcedIsGreedy == ~per_event => ByQueue!EnforcedIsGreedy

(* Each heuristic honours its order at the moment of serving. *)
HonoursItsOrder ==
  [][IF per_event THEN PerEvent!ServesInOrder ELSE ByQueue!ServesInOrder]_vars

(* The greedy policy starts the oldest job that can be started. *)
FifoServesOldest == [][~per_event => ByQueue!ServesOldest]_vars
=============================================================================
