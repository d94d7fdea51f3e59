--------------------------- MODULE PolicyComparer ---------------------------
(***************************************************************************)
(* PolicyComparer::ComputeReturns on one thread's share of trajectories:   *)
(* evolve them all to the end of the warm-up, note their returns, evolve   *)
(* them on, and subtract.  Evolve drives the whole batch, moves those that *)
(* await an action to the front, and goes on with these.                   *)
(***************************************************************************)
EXTENDS TrajectoryDriver, Sequences

CONSTANTS
  MDPs,                    \* the MDPs considered
  NumTrajectories,         \* size of the thread's share
  warmup_periods,
  periods_per_trajectory,
  max_periods_until_error

ASSUME ComparerAssumption ==
  /\ NumTrajectories \in Nat \ {0}
  /\ warmup_periods \in Nat
  /\ periods_per_trajectory \in Nat
  /\ max_periods_until_error \in Nat

(* The categories are those of StateCategory; AllowedActions lists finitely *)
(* many; and an MDP of infinite horizon is never final, which the comparer *)
(* takes for an error of the MDP.                                          *)
ASSUME MDPAssumption ==
  \A m \in MDPs :
    LET S == DOMAIN m.category
    IN  /\ m.category \in [S -> {"AwaitEvent", "AwaitExtraEvent", "AwaitAction", "Final"}]
        /\ m.initial \subseteq S
        /\ m.infinite \in BOOLEAN /\ m.discounted \in BOOLEAN
        /\ \A s \in S :
             CASE m.category[s] = "AwaitAction" ->
                    /\ IsFiniteSet(m.allowed[s])
                    /\ \A a \in m.allowed[s] : m.action[<<s, a>>] \in S
               [] m.category[s] = "Final" -> ~ m.infinite
               [] OTHER -> m.event[s] \subseteq S

VARIABLES
  mdp,
  trajectories,
  span,            \* Evolve's span is the first span trajectories
  stage,           \* "warmup", "main" or "finite": which Evolve it is in
  pc,
  at,              \* the trajectory the loop is at
  event_seen,      \* since the call began, this trajectory met an event
  AllAwaitAction,
  returns          \* ReturnPerTrajectory, as <<what is added, what is subtracted>>

vars == <<mdp, trajectories, span, stage, pc, at, event_seen, AllAwaitAction, returns>>

Indices == 1 .. NumTrajectories
Zero    == [of |-> 0, upto |-> 0]

(* Where the current Evolve goes to. *)
MaxPeriodCount ==
  CASE stage = "warmup" -> warmup_periods
    [] stage = "main"   -> IF mdp.discounted THEN periods_per_trajectory
                           ELSE warmup_periods + periods_per_trajectory
    [] stage = "finite" -> max_periods_until_error

(* Discounted costs are taken from the initial state: no warm-up.  (Its    *)
(* first check, for period 0, passes: nothing has been evolved yet, and no *)
(* state of an infinite horizon is final.)                                 *)
Init ==
  /\ mdp \in MDPs
  /\ \E start \in [Indices -> mdp.initial] :
       trajectories = [i \in Indices |-> Initiated(mdp, i, start[i])]
  /\ span = NumTrajectories
  /\ stage = IF ~mdp.infinite THEN "finite" ELSE IF mdp.discounted THEN "main" ELSE "warmup"
  /\ pc = "until"
  /\ at = 1
  /\ event_seen = [i \in Indices |-> FALSE]
  /\ AllAwaitAction = TRUE
  /\ returns = [i \in Indices |-> <<Zero, Zero>>]

-----------------------------------------------------------------------------
(***************************************************************************)
(* IncorporateUntilNonTrivialAction(span, MaxPeriodCount)                  *)
(***************************************************************************)
Here == trajectories[at]
batchVars == <<mdp, span, stage, returns>>

IncorporateEvent ==
  /\ pc = "until"
  /\ at <= span
  /\ GoesOn(Here, MaxPeriodCount)
  /\ \E s \in mdp.event[Here.state] :
       trajectories' = [trajectories EXCEPT ![at] = AfterEvent(mdp, Here, s)]
  /\ event_seen' = [event_seen EXCEPT ![at] = TRUE]
  /\ pc' = "skip"
  /\ UNCHANGED <<batchVars, at, AllAwaitAction>>

(* After an event, as long as there is one action only, it is taken. *)
SkipTrivialAction ==
  /\ pc = "skip"
  /\ IsTrivial(mdp, Here)
  /\ trajectories' = [trajectories EXCEPT
                        ![at] = AfterAction(mdp, Here, CHOOSE a \in mdp.allowed[Here.state] : TRUE)]
  /\ UNCHANGED <<batchVars, pc, at, event_seen, AllAwaitAction>>

SkippingEnds ==
  /\ pc = "skip"
  /\ ~IsTrivial(mdp, Here)
  /\ pc' = "until"
  /\ UNCHANGED <<batchVars, trajectories, at, event_seen, AllAwaitAction>>

NextTrajectory ==
  /\ pc = "until"
  /\ at <= span
  /\ ~GoesOn(Here, MaxPeriodCount)
  /\ AllAwaitAction' = (AllAwaitAction /\ IsAwaitAction(Here))
  /\ at' = at + 1
  /\ UNCHANGED <<batchVars, trajectories, pc, event_seen>>

UntilReturns ==
  /\ pc = "until"
  /\ at = span + 1
  /\ pc' = "settled"
  /\ UNCHANGED <<batchVars, trajectories, at, event_seen, AllAwaitAction>>

-----------------------------------------------------------------------------
(***************************************************************************)
(* Evolve.                                                                 *)
(***************************************************************************)
NumAwaiting == Cardinality({i \in 1 .. span : IsAwaitAction(trajectories[i])})

(* std::partition swaps the first that does not belong to the front with   *)
(* the last that does, until there is none.                                *)
Misplaced == {i \in 1 .. NumAwaiting : ~IsAwaitAction(trajectories[i])}
Displaced == {i \in NumAwaiting + 1 .. span : IsAwaitAction(trajectories[i])}
SwappedWith(i) ==
  CASE i \in Misplaced -> CHOOSE j \in Displaced :
         Cardinality({k \in Displaced : k > j}) = Cardinality({k \in Misplaced : k < i})
    [] i \in Displaced -> CHOOSE j \in Misplaced :
         Cardinality({k \in Misplaced : k < j}) = Cardinality({k \in Displaced : k > i})
    [] OTHER -> i

(* Faulty variant: the batch is cut where it is. *)
NotPartitioned == trajectories

(* Faulty variant: those behind the partition point are overwritten, as    *)
(* std::remove_if would.                                                   *)
MovedToFront ==
  [i \in Indices |-> IF i \in Misplaced THEN trajectories[SwappedWith(i)] ELSE trajectories[i]]

Partitioned == [i \in Indices |-> trajectories[SwappedWith(i)]]

(* Faulty variant: an empty span does not end the loop. *)
AfterSettlingForever(n) == "act"

AfterSettling(n) == IF n = 0 THEN "evolved" ELSE "act"

Settle ==
  /\ pc = "settled"
  /\ IF AllAwaitAction
     THEN UNCHANGED <<trajectories, span>> /\ pc' = AfterSettling(span)
     ELSE trajectories' = Partitioned /\ span' = NumAwaiting /\ pc' = AfterSettling(NumAwaiting)
  /\ UNCHANGED <<mdp, stage, returns, at, event_seen, AllAwaitAction>>

Until(n) ==
  /\ pc' = "until"
  /\ span' = n
  /\ at' = 1
  /\ AllAwaitAction' = TRUE
  /\ event_seen' = [i \in Indices |-> FALSE]

(* IncorporateAction(span, policy) for any policy: it throws if one of the *)
(* span does not await an action.                                          *)
Choices(i) == mdp.allowed[trajectories[i].state]

Act ==
  /\ pc = "act"
  /\ IF \A i \in 1 .. span : IsAwaitAction(trajectories[i])
     THEN /\ \E NextAction \in [1 .. span -> UNION {Choices(i) : i \in 1 .. span}] :
               /\ \A i \in 1 .. span : NextAction[i] \in Choices(i)
               /\ trajectories' =
                    [i \in Indices |->
                       IF i <= span THEN AfterAction(mdp, trajectories[i], NextAction[i])
                                    ELSE trajectories[i]]
          /\ Until(span)
     ELSE /\ pc' = "threw"
          /\ UNCHANGED <<trajectories, span, at, event_seen, AllAwaitAction>>
  /\ UNCHANGED <<mdp, stage, returns>>

-----------------------------------------------------------------------------
(***************************************************************************)
(* ComputeReturns.                                                         *)
(***************************************************************************)

(* CheckTrajectoriesInfiniteHorizon and CheckTrajectoriesFiniteHorizon. *)
CheckPasses ==
  \A i \in Indices :
    IF mdp.infinite
    THEN ~IsFinal(trajectories[i]) /\ trajectories[i].PeriodCount = MaxPeriodCount
    ELSE IsFinal(trajectories[i])

(* Faulty variant: the returns of the warm-up are forgotten. *)
NothingNoted == [i \in Indices |-> <<Zero, Zero>>]

(* The returns so far are noted, by position. *)
NotedReturns == [i \in Indices |-> <<Zero, CumulativeReturn(trajectories[i])>>]

WarmupEnds ==
  /\ pc = "evolved"
  /\ stage = "warmup"
  /\ returns' = NotedReturns
  /\ IF CheckPasses
     THEN stage' = "main" /\ Until(NumTrajectories)
     ELSE /\ pc' = "threw"
          /\ UNCHANGED <<stage, span, at, AllAwaitAction, event_seen>>
  /\ UNCHANGED <<mdp, trajectories>>

(* At the end they are subtracted from the returns then, by position. *)
EvolutionEnds ==
  /\ pc = "evolved"
  /\ stage # "warmup"
  /\ pc' = IF CheckPasses THEN "done" ELSE "threw"
  /\ returns' = IF CheckPasses
                THEN [i \in Indices |-> <<CumulativeReturn(trajectories[i]), returns[i][2]>>]
                ELSE returns
  /\ UNCHANGED <<mdp, trajectories, span, stage, at, event_seen, AllAwaitAction>>

Ended == pc \in {"done", "threw"} /\ UNCHANGED vars

Next ==
  \/ IncorporateEvent \/ SkipTrivialAction \/ SkippingEnds \/ NextTrajectory \/ UntilReturns
  \/ Settle \/ Act
  \/ WarmupEnds \/ EvolutionEnds \/ Ended

(* One thread runs it; it is scheduled. *)
Spec == Init /\ [][Next]_vars /\ WF_vars(Next)

-----------------------------------------------------------------------------
(* When IncorporateUntilNonTrivialAction returns, each trajectory is final,*)
(* or has come to the period asked for, or awaits an action, which is a    *)
(* choice if an event led to it; and the result says whether all do.       *)
UntilContract ==
  pc = "settled" =>
    /\ \A i \in 1 .. span :
         \/ IsFinal(trajectories[i])
         \/ IsAwaitEvent(trajectories[i]) /\ trajectories[i].PeriodCount = MaxPeriodCount
         \/ IsAwaitAction(trajectories[i])
              /\ (event_seen[i] => ~IsTrivial(mdp, trajectories[i]))
    /\ AllAwaitAction <=> \A i \in 1 .. span : IsAwaitAction(trajectories[i])

(* No call throws: actions are only incorporated where one is awaited, and *)
(* both Evolves leave every trajectory at exactly the period the checks    *)
(* ask for, however differently they got there.  Only a finite horizon     *)
(* that is not reached in time is an error.                                *)
ChecksPass ==
  pc = "threw" =>
    /\ stage = "finite"
    /\ \E i \in Indices : trajectories[i].PeriodCount = max_periods_until_error

(* The mean is that of the trajectories: at the end the batch still holds  *)
(* each of them once, at the last period, so its return is added once; and *)
(* what it had at the end of the warm-up is subtracted, once too, if and   *)
(* only if there is a warm-up.  The places may differ.                     *)
MeanExact ==
  pc = "done" =>
    \A k \in Indices :
      /\ \E i \in Indices :
           /\ \A j \in Indices : returns[j][1].of = k <=> j = i
           /\ mdp.infinite => returns[i][1].upto = MaxPeriodCount
      /\ IF mdp.infinite /\ ~mdp.discounted
         THEN \E i \in Indices :
                /\ \A j \in Indices : returns[j][2].of = k <=> j = i
                /\ returns[i][2].upto = warmup_periods
         ELSE returns[k][2] = Zero

(* Each element of ReturnPerTrajectory is the return of one trajectory:    *)
(* what is subtracted at the end is what the same trajectory had after the *)
(* warm-up.                                                                *)
ReturnsAreOfOneTrajectory ==
  pc = "done" =>
    \A i \in Indices : returns[i][2] # Zero => returns[i][2].of = returns[i][1].of

(* Every evaluation ends, in MDPs whose decisions do.                      *)
EvaluationEnds == <>(pc \in {"done", "threw"})

(* Batches are nothing but trajectories: whatever place it is moved to,    *)
(* each trajectory is a walk of the MDP that never goes past the horizon.  *)
Place(k) == CHOOSE i \in Indices : trajectories[i].ExternalIndex = k
Walks == INSTANCE TrajectoryWalks WITH
           Walkers <- Indices,
           state   <- [k \in Indices |-> trajectories[Place(k)].state],
           period  <- [k \in Indices |-> trajectories[Place(k)].PeriodCount],
           horizon <- MaxPeriodCount
ImplementsWalks == Walks!Spec
=============================================================================
