--------------------------- MODULE ActionSelection ---------------------------
(***************************************************************************)
(* How deep controlled learning labels one state: the sample generator     *)
(* picks a selector, which rolls out the allowed actions under the current *)
(* policy and names the best.  UniformActionSelector gives every action M  *)
(* replications; SequentialHalving spends as many in rounds, and dismisses *)
(* the worse half of the actions after each.  Rollouts are batches as in   *)
(* PolicyComparer; here a rollout is the return it comes to, times the     *)
(* objective, under its seed.                                              *)
(***************************************************************************)
EXTENDS Integers, SequencesExt

CONSTANTS
  RootActions,  \* the states considered, as what AllowedActions gives
  Answers,      \* what the policy may answer, allowed or not
  Returns,      \* what a rollout may come to
  M

(* AllowedActions lists actions in ascending order. *)
ASSUME SelectionAssumption ==
  /\ M \in Nat \ {0}
  /\ Returns \subseteq Int
  /\ RootActions \subseteq Seq(Nat)
  /\ \A as \in RootActions : \A i, j \in DOMAIN as : i < j => as[i] < as[j]

VARIABLES
  enable_sequential_halving,
  root_actions,
  answer,               \* the action the policy answers
  prescribed_action_initial_policy,  \* meant to be its index
  prescribed_action_allowed,
  pc,
  iter,                 \* rounds of halving done
  competing_actions,
  trajectory_costs,     \* action -> its results, [seed, return], in the order stored
  total_budget_used_per_action,  \* what halving takes each still competing to have
  NextAction

vars == <<enable_sequential_halving, root_actions, answer, prescribed_action_initial_policy,
          prescribed_action_allowed, pc, iter, competing_actions, trajectory_costs,
          total_budget_used_per_action, NextAction>>
rootVars == <<enable_sequential_halving, root_actions, answer, prescribed_action_allowed>>

-----------------------------------------------------------------------------
Actions == ToSet(root_actions)
Size    == Len(root_actions)
None    == -1

(* ceil(log2 n), exactly: how many powers of two, numbers without an odd   *)
(* factor, are less than n.                                                *)
PowerOfTwo(p) == \A d, e \in 1 .. p : p = d * e => d = 1 \/ d % 2 = 0
Rounds(n)     == Cardinality({p \in 1 .. n - 1 : PowerOfTwo(p)})
TotalRounds == Rounds(Size)

Position(a) == (CHOOSE i \in 1 .. Size : root_actions[i] = a) - 1

Sum(results) == FoldLeft(LAMBDA total, x : total + x.return, 0, results)
AccumulatedReward(a) == Sum(trajectory_costs[a])

Init ==
  /\ enable_sequential_halving \in BOOLEAN
  /\ root_actions \in RootActions
  /\ answer \in Answers
  /\ prescribed_action_initial_policy = None
  /\ prescribed_action_allowed = FALSE
  /\ pc = "dispatch"
  /\ iter = 0
  /\ competing_actions = root_actions
  /\ trajectory_costs = [a \in Actions |-> <<>>]
  /\ total_budget_used_per_action = 0
  /\ NextAction = None

-----------------------------------------------------------------------------
(* A single action is taken without a sample. *)
Trivial ==
  /\ pc = "dispatch"
  /\ Size = 1
  /\ NextAction' = root_actions[1]
  /\ pc' = "taken"
  /\ UNCHANGED <<rootVars, prescribed_action_initial_policy, iter, competing_actions,
                 trajectory_costs, total_budget_used_per_action>>

(* Faulty variant: the answer is kept as an action. *)
AsAnswered(a) == a

(* An action becomes its index, if it is allowed. *)
AsIndex(a) == IF a \in Actions THEN Position(a) ELSE a

(* Halving needs more replications than rounds. *)
Dispatch ==
  /\ pc = "dispatch"
  /\ Size > 1
  /\ pc' = IF enable_sequential_halving /\ M > TotalRounds THEN "halving" ELSE "uniform"
  /\ prescribed_action_allowed' = (answer \in Actions)
  /\ prescribed_action_initial_policy' = AsIndex(answer)
  /\ UNCHANGED <<enable_sequential_halving, root_actions, answer, iter, competing_actions,
                 trajectory_costs, total_budget_used_per_action, NextAction>>

(* Each of the actions gets more results, under the same seeds. *)
Results(as, first_seed, replications) ==
  {[a \in Actions |->
      trajectory_costs[a] \o
        IF a \in as THEN [i \in 1 .. replications |->
                            [seed |-> first_seed + i - 1, return |-> drawn[a][i]]]
                    ELSE <<>>]
     : drawn \in [as -> [1 .. replications -> Returns]]}

-----------------------------------------------------------------------------
(***************************************************************************)
(* UniformActionSelector::SetAction                                        *)
(***************************************************************************)
RollOutAll ==
  /\ pc = "uniform"
  /\ trajectory_costs' \in Results(Actions, 0, M)
  /\ pc' = "compare"
  /\ UNCHANGED <<rootVars, prescribed_action_initial_policy, iter, competing_actions,
                 total_budget_used_per_action, NextAction>>

(* The first of the best; an answer that is not allowed is taken for the   *)
(* first of the worst.                                                     *)
FirstBest ==
  CHOOSE a \in Actions : \A b \in Actions :
    \/ AccumulatedReward(b) < AccumulatedReward(a)
    \/ AccumulatedReward(b) = AccumulatedReward(a) /\ Position(a) <= Position(b)
FirstWorst ==
  CHOOSE a \in Actions : \A b \in Actions :
    \/ AccumulatedReward(b) > AccumulatedReward(a)
    \/ AccumulatedReward(b) = AccumulatedReward(a) /\ Position(a) <= Position(b)

Compare ==
  /\ pc = "compare"
  /\ NextAction' = FirstBest
  /\ prescribed_action_initial_policy' =
       IF prescribed_action_allowed THEN prescribed_action_initial_policy
                                    ELSE Position(FirstWorst)
  /\ pc' = "fill"
  /\ UNCHANGED <<rootVars, iter, competing_actions, trajectory_costs,
                 total_budget_used_per_action>>

-----------------------------------------------------------------------------
(***************************************************************************)
(* SequentialHalving::SetAction                                            *)
(***************************************************************************)

(* Faulty variant: rounded up. *)
BudgetRoundedUp(competing) ==
  (M * Size + competing * TotalRounds - 1) \div (competing * TotalRounds)

(* The total budget is divided over the rounds, then over the actions. *)
ActionBudget(competing) == (M * Size) \div (competing * TotalRounds)

(* Faulty variant: each round starts from the first seed. *)
SameSeeds == 0

(* Seeds go on where the last round ended. *)
FirstSeed == total_budget_used_per_action

(* get_chunks throws if there is nothing to roll out. *)
RollOutRound ==
  LET budget == ActionBudget(Len(competing_actions))
  IN  /\ pc = "halving"
      /\ IF budget = 0
         THEN pc' = "threw" /\ UNCHANGED <<trajectory_costs, total_budget_used_per_action>>
         ELSE /\ trajectory_costs' \in Results(ToSet(competing_actions), FirstSeed, budget)
              /\ total_budget_used_per_action' = total_budget_used_per_action + budget
              /\ pc' = "halve"
      /\ UNCHANGED <<rootVars, prescribed_action_initial_policy, iter, competing_actions,
                     NextAction>>

(* Faulty variant: of an odd number the smaller half is kept. *)
RoundedDown(n) == n \div 2

TopM(n) == (n + 1) \div 2

(* Faulty variant: only the last result counts. *)
RankedByLast(ranking) ==
  \A i, j \in DOMAIN ranking : i < j =>
    Last(trajectory_costs[ranking[i]]).return >= Last(trajectory_costs[ranking[j]]).return

(* Sorted by the mean over all rounds so far, of which all have as many;   *)
(* std::sort leaves the order of equals open.                              *)
Ranked(ranking) ==
  \A i, j \in DOMAIN ranking :
    i < j => AccumulatedReward(ranking[i]) >= AccumulatedReward(ranking[j])

(* The best are copied to the front, and the rest is cut off.  What stands *)
(* last before the cut, which no copy reaches, takes the place of an       *)
(* answer that is not allowed: an action where an index is meant.          *)
Halve ==
  LET n == Len(competing_actions)
      last_round == iter + 1 = TotalRounds
  IN  /\ pc = "halve"
      /\ \E ranking \in SetToSeqs(ToSet(competing_actions)) :
           /\ Ranked(ranking)
           /\ competing_actions' = SubSeq(ranking, 1, TopM(n))
           /\ prescribed_action_initial_policy' =
                IF iter = 0 /\ ~prescribed_action_allowed
                THEN competing_actions[n]
                ELSE prescribed_action_initial_policy
           /\ NextAction' = IF last_round THEN ranking[1] ELSE None
      /\ iter' = iter + 1
      /\ pc' = IF last_round THEN "fill" ELSE "halving"
      /\ UNCHANGED <<rootVars, trajectory_costs, total_budget_used_per_action>>

-----------------------------------------------------------------------------
(***************************************************************************)
(* Both: the sample is filled with statistics relative to the action at    *)
(* the index prescribed_action_initial_policy.  They throw if there is no  *)
(* such index, or, once there is a budget of two, fewer than two results.  *)
(***************************************************************************)
LeastBudget == IF iter > 0 THEN ActionBudget(Size) ELSE M

StatisticsThrow ==
  \/ prescribed_action_initial_policy \notin 0 .. Size - 1
  \/ \E a \in Actions : Len(trajectory_costs[a]) < IF LeastBudget > 1 THEN 2 ELSE 1

FillSample ==
  /\ pc = "fill"
  /\ pc' = IF StatisticsThrow THEN "threw" ELSE "labelled"
  /\ UNCHANGED <<rootVars, prescribed_action_initial_policy, iter, competing_actions,
                 trajectory_costs, total_budget_used_per_action, NextAction>>

Ended == pc \in {"taken", "labelled", "threw"} /\ UNCHANGED vars

Next ==
  \/ Trivial \/ Dispatch
  \/ RollOutAll \/ Compare
  \/ RollOutRound \/ Halve
  \/ FillSample \/ Ended

Spec == Init /\ [][Next]_vars

-----------------------------------------------------------------------------
Labelled == pc \in {"fill", "labelled"}

Replications == UNION {{a} \X DOMAIN trajectory_costs[a] : a \in Actions}

(* Rounding never spends more than M replications per action allowed, and  *)
(* never dismisses an action without one.                                  *)
BudgetKept ==
  Labelled =>
    /\ Cardinality(Replications) <= M * Size
    /\ \A a \in Actions : trajectory_costs[a] # <<>>

(* The k-th results of any two actions have the same seed, and no seed is  *)
(* used twice: the paired differences are of common random numbers,        *)
(* whatever the rounds the actions were dismissed in.                      *)
PairedBySeed ==
  \A a, b \in Actions :
    \A k \in DOMAIN trajectory_costs[a], j \in DOMAIN trajectory_costs[b] :
      (k = j) <=> (trajectory_costs[a][k].seed = trajectory_costs[b][j].seed)

(* The label is at least as good as every other action on all the seeds    *)
(* that action was tried with.                                             *)
LabelBeatsTheOthers ==
  Labelled =>
    \A a \in Actions :
      Sum(SubSeq(trajectory_costs[NextAction], 1, Len(trajectory_costs[a])))
        >= AccumulatedReward(a)

(* Halving comes down to one action in exactly its number of rounds, and   *)
(* that is the label.                                                      *)
OneIsLeft ==
  (Labelled /\ iter > 0) => competing_actions = <<NextAction>>

(* The improvements are relative to the action the policy prescribes, or,  *)
(* for the uniform selector, to the worst one if that is not allowed; and  *)
(* no selection throws.  Halving mistakes an action for an index if the    *)
(* prescribed one is not allowed, so that it may throw then.               *)
RelativeToThePolicy ==
  /\ (pc = "labelled" /\ prescribed_action_allowed) =>
       root_actions[prescribed_action_initial_policy + 1] = answer
  /\ (pc = "labelled" /\ ~prescribed_action_allowed /\ iter = 0) =>
       \A a \in Actions :
         AccumulatedReward(root_actions[prescribed_action_initial_policy + 1])
           <= AccumulatedReward(a)
  /\ pc = "threw" =>
       ~prescribed_action_allowed /\ iter > 0 /\ root_actions[Size] >= Size
=============================================================================
