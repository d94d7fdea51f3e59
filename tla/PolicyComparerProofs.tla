------------------------ MODULE PolicyComparerProofs ------------------------
(***************************************************************************)
(* Theorems about PolicyComparer, for any MDPs, any number of trajectories *)
(* and any length of warm-up and evaluation.                               *)
(*                                                                         *)
(* CInv is the inductive invariant: what a trajectory is at each place of  *)
(* the loop (in the span, behind it, passed over already or not yet), and  *)
(* that the batch is a permutation of the trajectories it started with.    *)
(* The first three parts are lemmas about one trajectory, about partitions *)
(* and about sums of returns; the fourth has a lemma for each action; the  *)
(* last is the refinement of TrajectoryWalks.                              *)
(***************************************************************************)
EXTENDS PolicyComparer, FiniteSetTheorems, TLAPS

-----------------------------------------------------------------------------
(***************************************************************************)
(* The inductive invariant.                                                *)
(***************************************************************************)
Categories == {"AwaitEvent", "AwaitExtraEvent", "AwaitAction", "Final"}
States     == DOMAIN mdp.category
Trajs      == [state : States, Category : Categories, PeriodCount : Nat, ExternalIndex : Indices]

Shape ==
  /\ mdp \in MDPs
  /\ trajectories \in [Indices -> Trajs]
  /\ span \in 0 .. NumTrajectories
  /\ event_seen \in [Indices -> BOOLEAN]
  /\ AllAwaitAction \in BOOLEAN
  /\ at \in Nat
  /\ pc \in {"until", "skip", "settled", "act", "evolved", "done", "threw"}
  /\ stage \in {"warmup", "main", "finite"}
  /\ stage = "finite" <=> ~ mdp.infinite
  /\ stage = "warmup" => ~ mdp.discounted

(* Every trajectory is in one place. *)
OneOfEach ==
  /\ \A i, j \in Indices :
       trajectories[i].ExternalIndex = trajectories[j].ExternalIndex => i = j
  /\ \A k \in Indices : \E i \in Indices : trajectories[i].ExternalIndex = k

InTime ==
  \A i \in Indices :
    /\ trajectories[i].Category = mdp.category[trajectories[i].state]
    /\ trajectories[i].PeriodCount <= MaxPeriodCount

(* Evolve is done with a trajectory, or has made it wait for a decision. *)
Arrived(i) ==
  \/ IsFinal(trajectories[i])
  \/ IsAwaitEvent(trajectories[i]) /\ trajectories[i].PeriodCount = MaxPeriodCount
Returned(i) ==
  \/ Arrived(i)
  \/ IsAwaitAction(trajectories[i]) /\ (event_seen[i] => ~ IsTrivial(mdp, trajectories[i]))

(* Where the loop over the span is: those before it have returned, those   *)
(* after it have met no event yet.                                         *)
InLoop ==
  /\ at \in 1 .. span + 1
  /\ pc = "skip" => at <= span
  /\ \A i \in 1 .. at - 1 : Returned(i)
  /\ AllAwaitAction <=> \A i \in 1 .. at - 1 : IsAwaitAction(trajectories[i])
  /\ \A i \in at + 1 .. span : ~ event_seen[i]
  /\ (pc = "until" /\ at <= span /\ event_seen[at]) => ~ IsTrivial(mdp, trajectories[at])

(* The warm-up's returns are noted in the second Evolve, the others at the *)
(* end.                                                                    *)
Noted == stage = "main" /\ ~ mdp.discounted
NotedAfterWarmup ==
  \A k \in Indices : \E i \in Indices :
    /\ \A j \in Indices : returns[j][2].of = k <=> j = i
    /\ returns[i][2].upto = warmup_periods
ReturnsOK ==
  /\ Noted => NotedAfterWarmup
  /\ ~ Noted => \A i \in Indices : returns[i][2] = Zero
  /\ pc = "done" => /\ stage # "warmup"
                    /\ \A i \in Indices : returns[i][1] = CumulativeReturn(trajectories[i])

Phase ==
  /\ pc \in {"until", "skip"} => InLoop
  /\ UntilContract
  /\ pc = "act" => \A i \in 1 .. span : IsAwaitAction(trajectories[i])
  /\ pc \in {"evolved", "done", "threw"} => span = 0
  /\ ChecksPass

CInv ==
  /\ Shape /\ OneOfEach /\ InTime
  /\ pc # "threw" => ReturnsOK
  /\ \A i \in span + 1 .. NumTrajectories : Arrived(i)
  /\ Phase

-----------------------------------------------------------------------------
(***************************************************************************)
(* Trajectories.                                                           *)
(***************************************************************************)
LEMMA Bounds ==
  /\ NumTrajectories \in Nat \ {0} /\ Indices = 1 .. NumTrajectories
  /\ warmup_periods \in Nat /\ periods_per_trajectory \in Nat /\ max_periods_until_error \in Nat
BY ComparerAssumption DEF Indices

LEMMA HorizonType ==
  ASSUME stage \in {"warmup", "main", "finite"}
  PROVE  MaxPeriodCount \in Nat
BY Bounds DEF MaxPeriodCount

(* What the assumption says of a state. *)
LEMMA StateFacts ==
  ASSUME mdp \in MDPs
  PROVE  /\ mdp.initial \subseteq States
         /\ mdp.infinite \in BOOLEAN /\ mdp.discounted \in BOOLEAN
         /\ \A s \in States :
              /\ mdp.category[s] \in Categories
              /\ mdp.category[s] = "AwaitAction" =>
                   /\ IsFiniteSet(mdp.allowed[s])
                   /\ \A a \in mdp.allowed[s] : mdp.action[<<s, a>>] \in States
              /\ mdp.category[s] = "Final" => ~ mdp.infinite
              /\ mdp.category[s] \in {"AwaitEvent", "AwaitExtraEvent"} =>
                   mdp.event[s] \subseteq States
<1> DEFINE m == mdp
           S == DOMAIN m.category
<1>1. /\ m.category \in [S -> Categories]
      /\ m.initial \subseteq S
      /\ m.infinite \in BOOLEAN /\ m.discounted \in BOOLEAN
      /\ \A s \in S :
           CASE m.category[s] = "AwaitAction" ->
                  /\ IsFiniteSet(m.allowed[s])
                  /\ \A a \in m.allowed[s] : m.action[<<s, a>>] \in S
             [] m.category[s] = "Final" -> ~ m.infinite
             [] OTHER -> m.event[s] \subseteq S
  BY MDPAssumption DEF Categories
<1>2. ASSUME NEW s \in S
      PROVE  /\ m.category[s] \in Categories
             /\ m.category[s] = "AwaitAction" =>
                  /\ IsFiniteSet(m.allowed[s])
                  /\ \A a \in m.allowed[s] : m.action[<<s, a>>] \in S
             /\ m.category[s] = "Final" => ~ m.infinite
             /\ m.category[s] \in {"AwaitEvent", "AwaitExtraEvent"} => m.event[s] \subseteq S
  BY <1>1 DEF Categories
<1> QED
  BY <1>1, <1>2 DEF States

LEMMA MovedFields ==
  ASSUME NEW t \in Trajs, NEW s \in States, mdp.category[s] \in Categories
  PROVE  /\ Moved(mdp, t, s) \in Trajs
         /\ Moved(mdp, t, s).state = s
         /\ Moved(mdp, t, s).Category = mdp.category[s]
         /\ Moved(mdp, t, s).PeriodCount = t.PeriodCount
         /\ Moved(mdp, t, s).ExternalIndex = t.ExternalIndex
BY DEF Moved, Trajs

LEMMA EventFields ==
  ASSUME NEW t \in Trajs, NEW s \in States, mdp.category[s] \in Categories
  PROVE  /\ AfterEvent(mdp, t, s) \in Trajs
         /\ AfterEvent(mdp, t, s).state = s
         /\ AfterEvent(mdp, t, s).Category = mdp.category[s]
         /\ AfterEvent(mdp, t, s).PeriodCount = IF t.Category = "AwaitEvent"
                                                THEN t.PeriodCount + 1 ELSE t.PeriodCount
         /\ AfterEvent(mdp, t, s).ExternalIndex = t.ExternalIndex
<1> DEFINE m == Moved(mdp, t, s)
<1>1. /\ m \in Trajs /\ m.state = s /\ m.Category = mdp.category[s]
      /\ m.PeriodCount = t.PeriodCount /\ m.ExternalIndex = t.ExternalIndex
      /\ t.PeriodCount \in Nat
  BY MovedFields DEF Trajs
<1>2. AfterEvent(mdp, t, s) =
        [m EXCEPT !.PeriodCount = IF t.Category = "AwaitEvent" THEN @ + 1 ELSE @]
  BY DEF AfterEvent
<1> HIDE DEF m
<1> QED
  BY <1>1, <1>2 DEF Trajs

(* An action that is the only one is one of the allowed. *)
LEMMA TrivialAction ==
  ASSUME Shape, InTime, NEW i \in Indices, IsTrivial(mdp, trajectories[i])
  PROVE  /\ IsAwaitAction(trajectories[i])
         /\ (CHOOSE a \in mdp.allowed[trajectories[i].state] : TRUE)
              \in mdp.allowed[trajectories[i].state]
<1> DEFINE A == mdp.allowed[trajectories[i].state]
<1>1. IsAwaitAction(trajectories[i]) /\ Cardinality(A) = 1
  BY DEF IsTrivial
<1>2. IsFiniteSet(A)
  <2>1. trajectories[i].state \in States
        /\ mdp.category[trajectories[i].state] = "AwaitAction"
    BY <1>1 DEF Shape, InTime, Trajs, IsAwaitAction
  <2> QED
    BY <2>1, StateFacts DEF Shape
<1>3. A # {}
  BY <1>1, <1>2, FS_EmptySet
<1> QED
  BY <1>1, <1>3

(* An allowed action leads to a state. *)
LEMMA ActionLeads ==
  ASSUME Shape, InTime, NEW i \in Indices, IsAwaitAction(trajectories[i]),
         NEW a \in mdp.allowed[trajectories[i].state]
  PROVE  LET t == AfterAction(mdp, trajectories[i], a)
         IN  /\ t \in Trajs /\ t.Category = mdp.category[t.state]
             /\ t.state = mdp.action[<<trajectories[i].state, a>>]
             /\ t.PeriodCount = trajectories[i].PeriodCount
             /\ t.ExternalIndex = trajectories[i].ExternalIndex
<1> DEFINE s == trajectories[i].state
           u == mdp.action[<<s, a>>]
<1>1. trajectories[i] \in Trajs /\ s \in States /\ mdp.category[s] = "AwaitAction"
  BY DEF Shape, InTime, Trajs, IsAwaitAction
<1>2. u \in States
  BY <1>1, StateFacts DEF Shape
<1>3. mdp.category[u] \in Categories
  BY <1>2, StateFacts DEF Shape
<1>4. AfterAction(mdp, trajectories[i], a) = Moved(mdp, trajectories[i], u)
  BY DEF AfterAction
<1> HIDE DEF u, s
<1>5. LET t == Moved(mdp, trajectories[i], u)
      IN  /\ t \in Trajs /\ t.Category = mdp.category[t.state]
          /\ t.state = u
          /\ t.PeriodCount = trajectories[i].PeriodCount
          /\ t.ExternalIndex = trajectories[i].ExternalIndex
  BY <1>1, <1>2, <1>3, MovedFields
<1> QED
  BY <1>4, <1>5 DEF u, s

(* And so does an event. *)
LEMMA EventLeads ==
  ASSUME Shape, InTime, NEW i \in Indices, GoesOn(trajectories[i], MaxPeriodCount),
         NEW s \in mdp.event[trajectories[i].state]
  PROVE  LET t == AfterEvent(mdp, trajectories[i], s)
         IN  /\ t \in Trajs /\ t.state = s /\ t.Category = mdp.category[s]
             /\ t.PeriodCount = IF trajectories[i].Category = "AwaitEvent"
                                THEN trajectories[i].PeriodCount + 1
                                ELSE trajectories[i].PeriodCount
             /\ t.PeriodCount <= MaxPeriodCount
             /\ t.ExternalIndex = trajectories[i].ExternalIndex
<1> DEFINE v == trajectories[i]
<1>1. /\ v \in Trajs /\ v.state \in States /\ v.PeriodCount \in Nat
      /\ mdp.category[v.state] \in {"AwaitEvent", "AwaitExtraEvent"}
      /\ v.PeriodCount < MaxPeriodCount
  BY DEF Shape, InTime, Trajs, GoesOn, IsAwaitEvent
<1>2. s \in States
  BY <1>1, StateFacts DEF Shape
<1>3. mdp.category[s] \in Categories /\ MaxPeriodCount \in Nat
  BY <1>2, StateFacts, HorizonType DEF Shape
<1> HIDE DEF v
<1>4. LET t == AfterEvent(mdp, v, s)
      IN  /\ t \in Trajs /\ t.state = s /\ t.Category = mdp.category[s]
          /\ t.PeriodCount = IF v.Category = "AwaitEvent" THEN v.PeriodCount + 1
                             ELSE v.PeriodCount
          /\ t.PeriodCount <= MaxPeriodCount
          /\ t.ExternalIndex = v.ExternalIndex
  BY <1>1, <1>2, <1>3, EventFields
<1> QED
  BY <1>4 DEF v

-----------------------------------------------------------------------------
(***************************************************************************)
(* IncorporateUntilNonTrivialAction.                                       *)
(***************************************************************************)
LEMMA HorizonStays ==
  ASSUME mdp' = mdp, stage' = stage
  PROVE  MaxPeriodCount' = MaxPeriodCount
BY DEF MaxPeriodCount

(* One trajectory moves on. *)
LEMMA OneMoves ==
  ASSUME CInv, NEW j \in Indices, NEW t \in Trajs,
         trajectories' = [trajectories EXCEPT ![j] = t],
         t.Category = mdp.category[t.state], t.PeriodCount <= MaxPeriodCount,
         t.ExternalIndex = trajectories[j].ExternalIndex,
         mdp' = mdp, stage' = stage
  PROVE  /\ trajectories' \in [Indices -> Trajs]
         /\ trajectories'[j] = t
         /\ \A i \in Indices \ {j} : trajectories'[i] = trajectories[i]
         /\ OneOfEach' /\ InTime'
<1>1. trajectories \in [Indices -> Trajs] /\ OneOfEach /\ InTime
  BY DEF CInv, Shape
<1>2. /\ trajectories' \in [Indices -> Trajs]
      /\ trajectories'[j] = t
      /\ \A i \in Indices \ {j} : trajectories'[i] = trajectories[i]
  BY <1>1
<1>3. \A i \in Indices : trajectories'[i].ExternalIndex = trajectories[i].ExternalIndex
  BY <1>2
<1>4. OneOfEach'
  BY <1>1, <1>3 DEF OneOfEach
<1>5. InTime'
  BY <1>1, <1>2, HorizonStays DEF InTime
<1> QED
  BY <1>2, <1>4, <1>5

(* Those that the loop is not at stay as they are. *)
LEMMA OthersStay ==
  ASSUME CInv, pc \in {"until", "skip"}, at <= span, pc' \in {"until", "skip"},
         UNCHANGED <<batchVars, at, AllAwaitAction>>,
         \A i \in Indices \ {at} :
           trajectories'[i] = trajectories[i] /\ event_seen'[i] = event_seen[i],
         pc' = "until" => ~ IsTrivial(mdp, trajectories[at])',
         trajectories' \in [Indices -> Trajs], event_seen' \in [Indices -> BOOLEAN],
         OneOfEach', InTime'
  PROVE  CInv'
<1>1. /\ at \in 1 .. span /\ at \in Indices
      /\ \A i \in 1 .. at - 1 : i \in Indices \ {at}
      /\ \A i \in at + 1 .. span : i \in Indices \ {at}
      /\ \A i \in span + 1 .. NumTrajectories : i \in Indices \ {at}
  BY Bounds DEF CInv, Phase, InLoop, Shape
<1>2. mdp' = mdp /\ span' = span /\ stage' = stage /\ returns' = returns /\ at' = at
      /\ AllAwaitAction' = AllAwaitAction /\ MaxPeriodCount' = MaxPeriodCount
  BY HorizonStays DEF batchVars
<1>3. Shape'
  BY <1>2 DEF CInv, Shape, Trajs, States
<1>4. ReturnsOK'
  BY <1>2 DEF CInv, ReturnsOK, Noted, NotedAfterWarmup
<1>5. \A i \in span + 1 .. NumTrajectories : Arrived(i)'
  BY <1>1, <1>2 DEF CInv, Arrived
<1>6. InLoop'
  <2>1. \A i \in 1 .. at - 1 : Returned(i)'
    BY <1>1, <1>2 DEF CInv, Phase, InLoop, Returned, Arrived
  <2>2. AllAwaitAction <=> \A i \in 1 .. at - 1 : IsAwaitAction(trajectories'[i])
    BY <1>1 DEF CInv, Phase, InLoop
  <2>3. \A i \in at + 1 .. span : ~ event_seen'[i]
    BY <1>1 DEF CInv, Phase, InLoop
  <2> QED
    BY <1>1, <1>2, <2>1, <2>2, <2>3 DEF InLoop, CInv, Phase
<1>7. UntilContract' /\ ChecksPass'
  BY DEF UntilContract, ChecksPass
<1> QED
  BY <1>2, <1>3, <1>4, <1>5, <1>6, <1>7 DEF CInv, Phase

LEMMA EventKeeps ==
  ASSUME CInv, IncorporateEvent
  PROVE  CInv'
<1>1. /\ pc = "until" /\ at <= span /\ pc' = "skip" /\ at \in Indices
      /\ GoesOn(trajectories[at], MaxPeriodCount)
      /\ Shape /\ InTime
      /\ UNCHANGED <<batchVars, at, AllAwaitAction>>
      /\ mdp' = mdp /\ stage' = stage
      /\ event_seen' = [event_seen EXCEPT ![at] = TRUE]
  BY Bounds DEF IncorporateEvent, Here, CInv, Phase, InLoop, Shape, batchVars
<1>2. PICK s \in mdp.event[trajectories[at].state] :
        trajectories' = [trajectories EXCEPT ![at] = AfterEvent(mdp, trajectories[at], s)]
  BY DEF IncorporateEvent, Here
<1> DEFINE t == AfterEvent(mdp, trajectories[at], s)
<1>3. /\ t \in Trajs /\ t.state = s /\ t.Category = mdp.category[s]
      /\ t.PeriodCount <= MaxPeriodCount
      /\ t.ExternalIndex = trajectories[at].ExternalIndex
  BY <1>1, EventLeads
<1> HIDE DEF t
<1>4. /\ trajectories' \in [Indices -> Trajs] /\ OneOfEach' /\ InTime'
      /\ \A i \in Indices \ {at} : trajectories'[i] = trajectories[i]
  BY <1>1, <1>2, <1>3, OneMoves DEF t
<1>5. /\ event_seen' \in [Indices -> BOOLEAN]
      /\ \A i \in Indices \ {at} : event_seen'[i] = event_seen[i]
  BY <1>1 DEF Shape
<1> QED
  BY <1>1, <1>4, <1>5, OthersStay

LEMMA SkipKeeps ==
  ASSUME CInv, SkipTrivialAction
  PROVE  CInv'
<1>1. /\ pc = "skip" /\ at <= span /\ pc' = pc /\ at \in Indices
      /\ IsTrivial(mdp, trajectories[at])
      /\ Shape /\ InTime
      /\ UNCHANGED <<batchVars, at, AllAwaitAction>>
      /\ mdp' = mdp /\ stage' = stage /\ event_seen' = event_seen
  BY Bounds DEF SkipTrivialAction, Here, CInv, Phase, InLoop, Shape, batchVars
<1> DEFINE a == CHOOSE x \in mdp.allowed[trajectories[at].state] : TRUE
           t == AfterAction(mdp, trajectories[at], a)
<1>2. trajectories' = [trajectories EXCEPT ![at] = t]
  BY DEF SkipTrivialAction, Here
<1>3. IsAwaitAction(trajectories[at]) /\ a \in mdp.allowed[trajectories[at].state]
  BY <1>1, TrivialAction
<1> HIDE DEF a
<1>4. /\ t \in Trajs /\ t.Category = mdp.category[t.state]
      /\ t.PeriodCount = trajectories[at].PeriodCount
      /\ t.ExternalIndex = trajectories[at].ExternalIndex
  BY <1>1, <1>3, ActionLeads
<1>5. t.PeriodCount <= MaxPeriodCount
  BY <1>1, <1>4 DEF InTime
<1> HIDE DEF t
<1>6. /\ trajectories' \in [Indices -> Trajs] /\ OneOfEach' /\ InTime'
      /\ \A i \in Indices \ {at} : trajectories'[i] = trajectories[i]
  BY <1>1, <1>2, <1>4, <1>5, OneMoves
<1> QED
  BY <1>1, <1>6, OthersStay DEF Shape

LEMMA SkippingEndsKeeps ==
  ASSUME CInv, SkippingEnds
  PROVE  CInv'
<1>1. /\ pc = "skip" /\ pc' = "until" /\ UNCHANGED <<batchVars, at, AllAwaitAction>>
      /\ trajectories' = trajectories /\ event_seen' = event_seen /\ mdp' = mdp /\ at' = at
      /\ ~ IsTrivial(mdp, trajectories[at]) /\ stage' = stage
  BY DEF SkippingEnds, Here, batchVars
<1>2. at <= span /\ Shape /\ OneOfEach /\ InTime
  BY <1>1 DEF CInv, Phase, InLoop
<1>3. ~ IsTrivial(mdp, trajectories[at])'
  BY <1>1
<1>4. OneOfEach' /\ InTime'
  BY <1>1, <1>2, HorizonStays DEF OneOfEach, InTime
<1> QED
  BY <1>1, <1>2, <1>3, <1>4, OthersStay DEF Shape

(* The trajectory has returned: it is final, out of time, or at a choice. *)
LEMMA NextTrajectoryKeeps ==
  ASSUME CInv, NextTrajectory
  PROVE  CInv'
<1>1. /\ pc = "until" /\ at <= span /\ ~ GoesOn(trajectories[at], MaxPeriodCount)
      /\ AllAwaitAction' = (AllAwaitAction /\ IsAwaitAction(trajectories[at]))
      /\ at' = at + 1 /\ pc' = pc
      /\ UNCHANGED <<mdp, span, stage, returns, trajectories, event_seen>>
  BY DEF NextTrajectory, Here, batchVars
<1>2. /\ Shape /\ OneOfEach /\ InTime /\ InLoop /\ at \in 1 .. span /\ at \in Indices
  BY <1>1, Bounds DEF CInv, Phase, InLoop, Shape
<1>3. Returned(at)
  <2>1. /\ trajectories[at] \in Trajs /\ trajectories[at].Category \in Categories
        /\ trajectories[at].PeriodCount \in Nat
        /\ trajectories[at].PeriodCount <= MaxPeriodCount /\ MaxPeriodCount \in Nat
    BY <1>2, HorizonType DEF Shape, InTime, Trajs
  <2>2. event_seen[at] => ~ IsTrivial(mdp, trajectories[at])
    BY <1>1, <1>2 DEF InLoop
  <2> QED
    BY <1>1, <2>1, <2>2 DEF GoesOn, Returned, Arrived, IsAwaitEvent, IsAwaitAction, IsFinal,
                            Categories
<1>4. /\ at + 1 \in 1 .. span + 1 /\ span \in Nat /\ at \in Nat
      /\ \A i \in 1 .. (at + 1) - 1 : i \in 1 .. at - 1 \/ i = at
      /\ \A i \in 1 .. at - 1 : i \in 1 .. (at + 1) - 1
      /\ at \in 1 .. (at + 1) - 1
      /\ \A i \in (at + 1) + 1 .. span : i \in at + 1 .. span
      /\ at + 1 <= span => at + 1 \in at + 1 .. span
  BY <1>2 DEF Shape
<1>5. InLoop'
  <2>1. \A i \in 1 .. (at + 1) - 1 : Returned(i)'
    <3>1. \A i \in 1 .. (at + 1) - 1 : Returned(i)
      BY <1>2, <1>3, <1>4 DEF InLoop
    <3> QED
      BY <1>1, <3>1, HorizonStays DEF Returned, Arrived
  <2>2. AllAwaitAction' <=> \A i \in 1 .. (at + 1) - 1 : IsAwaitAction(trajectories[i])
    BY <1>1, <1>2, <1>4 DEF InLoop
  <2>3. /\ \A i \in (at + 1) + 1 .. span : ~ event_seen[i]
        /\ at + 1 <= span => ~ event_seen[at + 1]
    BY <1>2, <1>4 DEF InLoop
  <2> QED
    BY <1>1, <1>4, <2>1, <2>2, <2>3 DEF InLoop
<1>6. Shape' /\ OneOfEach' /\ InTime'
  BY <1>1, <1>2, <1>4, HorizonStays DEF Shape, Trajs, States, OneOfEach, InTime
<1>7. ReturnsOK' /\ UntilContract' /\ ChecksPass'
  BY <1>1 DEF CInv, ReturnsOK, Noted, NotedAfterWarmup, UntilContract, ChecksPass
<1>8. \A i \in span + 1 .. NumTrajectories : Arrived(i)'
  BY <1>1, HorizonStays DEF CInv, Arrived
<1> QED
  BY <1>1, <1>5, <1>6, <1>7, <1>8 DEF CInv, Phase

LEMMA UntilReturnsKeeps ==
  ASSUME CInv, UntilReturns
  PROVE  CInv'
<1>1. /\ pc = "until" /\ at = span + 1 /\ pc' = "settled"
      /\ UNCHANGED <<mdp, span, stage, returns, trajectories, at, event_seen, AllAwaitAction>>
  BY DEF UntilReturns, batchVars
<1>2. Shape /\ OneOfEach /\ InTime /\ InLoop
  BY <1>1 DEF CInv, Phase
<1>3. span \in Nat /\ at - 1 = span
  BY <1>1, <1>2 DEF Shape
<1>4. /\ \A i \in 1 .. span : Returned(i)
      /\ AllAwaitAction <=> \A i \in 1 .. span : IsAwaitAction(trajectories[i])
  BY <1>2, <1>3 DEF InLoop
<1>5. UntilContract'
  BY <1>1, <1>4, HorizonStays DEF UntilContract, Returned, Arrived
<1>6. Shape' /\ OneOfEach' /\ InTime'
  BY <1>1, <1>2, HorizonStays DEF Shape, Trajs, States, OneOfEach, InTime
<1>7. ReturnsOK' /\ ChecksPass'
  BY <1>1 DEF CInv, ReturnsOK, Noted, NotedAfterWarmup, ChecksPass
<1>8. \A i \in span + 1 .. NumTrajectories : Arrived(i)'
  BY <1>1, HorizonStays DEF CInv, Arrived
<1> QED
  BY <1>1, <1>5, <1>6, <1>7, <1>8 DEF CInv, Phase

-----------------------------------------------------------------------------
(***************************************************************************)
(* Evolve: the partition.                                                  *)
(***************************************************************************)

(* Those of a finite set D that R puts before x. *)
Preceding(D, R, x) == {k \in D : <<k, x>> \in R}
OrderOf(D, R) ==
  /\ \A x \in D : <<x, x>> \notin R
  /\ \A x, y, z \in D : <<x, y>> \in R /\ <<y, z>> \in R => <<x, z>> \in R
  /\ \A x, y \in D : x = y \/ <<x, y>> \in R \/ <<y, x>> \in R

(* Each rank below the size of D is that of exactly one member. *)
EachRankOnce(D, R) ==
  /\ \A x \in D : Cardinality(Preceding(D, R, x)) \in 0 .. Cardinality(D) - 1
  /\ \A x, y \in D : Cardinality(Preceding(D, R, x)) = Cardinality(Preceding(D, R, y)) => x = y
  /\ \A i \in 0 .. Cardinality(D) - 1 : \E x \in D : Cardinality(Preceding(D, R, x)) = i

LEMMA OneOfEachRank ==
  ASSUME NEW D, IsFiniteSet(D), NEW R, OrderOf(D, R)
  PROVE  EachRankOnce(D, R)
<1> DEFINE n == Cardinality(D)
           f == [x \in D |-> Cardinality(Preceding(D, R, x))]
<1>1. n \in Nat
  BY FS_CardinalityType
<1>2. \A x \in D : IsFiniteSet(Preceding(D, R, x)) /\ Cardinality(Preceding(D, R, x)) \in Nat
  BY FS_Subset, FS_CardinalityType DEF Preceding
<1>3. ASSUME NEW x \in D PROVE Cardinality(Preceding(D, R, x)) \in 0 .. n - 1
  <2>1. Preceding(D, R, x) \in SUBSET D /\ x \notin Preceding(D, R, x)
    BY DEF Preceding, OrderOf
  <2>2. Cardinality(Preceding(D, R, x)) <= n /\ Cardinality(Preceding(D, R, x)) # n
    BY <2>1, FS_Subset
  <2> QED
    BY <1>1, <1>2, <2>2
<1>4. ASSUME NEW x \in D, NEW y \in D, <<x, y>> \in R
      PROVE  Cardinality(Preceding(D, R, x)) # Cardinality(Preceding(D, R, y))
  <2>1. Preceding(D, R, x) \in SUBSET Preceding(D, R, y)
    BY <1>4 DEF Preceding, OrderOf
  <2>2. x \in Preceding(D, R, y) /\ x \notin Preceding(D, R, x)
    BY <1>4 DEF Preceding, OrderOf
  <2> QED
    BY <1>2, <2>1, <2>2, FS_Subset
<1>5. \A x, y \in D : Cardinality(Preceding(D, R, x)) = Cardinality(Preceding(D, R, y)) => x = y
  BY <1>4 DEF OrderOf
<1>6. f \in Injection(D, 0 .. n - 1)
  BY <1>3, <1>5 DEF Injection, IsInjective
<1>7. IsFiniteSet(0 .. n - 1) /\ Cardinality(0 .. n - 1) = n
  <2>1. 0 \in Int /\ n - 1 \in Int
    BY <1>1
  <2>2. IsFiniteSet(0 .. n - 1)
        /\ Cardinality(0 .. n - 1) = IF 0 > n - 1 THEN 0 ELSE (n - 1) - 0 + 1
    <3> HIDE DEF n
    <3> QED
      BY <2>1, FS_Interval
  <2> QED
    BY <1>1, <2>2
<1>8. f \in Surjection(D, 0 .. n - 1)
  BY <1>6, <1>7, FS_Injection
<1>9. \A i \in 0 .. n - 1 : \E x \in D : Cardinality(Preceding(D, R, x)) = i
  BY <1>8 DEF Surjection
<1> QED
  BY <1>3, <1>5, <1>9 DEF EachRankOnce

(* Among numbers: one member has each number of larger ones, and one each *)
(* number of smaller ones.                                                 *)
Larger(D, x)  == Cardinality({k \in D : k > x})
Smaller(D, x) == Cardinality({k \in D : k < x})
EachLargerOnce(D) ==
  /\ \A x \in D : Larger(D, x) \in 0 .. Cardinality(D) - 1
  /\ \A x, y \in D : Larger(D, x) = Larger(D, y) => x = y
  /\ \A i \in 0 .. Cardinality(D) - 1 : \E x \in D : Larger(D, x) = i
EachSmallerOnce(D) ==
  /\ \A x \in D : Smaller(D, x) \in 0 .. Cardinality(D) - 1
  /\ \A x, y \in D : Smaller(D, x) = Smaller(D, y) => x = y
  /\ \A i \in 0 .. Cardinality(D) - 1 : \E x \in D : Smaller(D, x) = i

LEMMA OneOfEachPlace ==
  ASSUME NEW D, IsFiniteSet(D), D \subseteq Int
  PROVE  EachLargerOnce(D) /\ EachSmallerOnce(D)
<1> DEFINE G == {p \in D \X D : p[1] > p[2]}
           L == {p \in D \X D : p[1] < p[2]}
<1>1. \A x, y \in D : (<<x, y>> \in G <=> x > y) /\ (<<x, y>> \in L <=> x < y)
  OBVIOUS
<1>2. \A x \in D : /\ Preceding(D, G, x) = {k \in D : k > x}
                   /\ Preceding(D, L, x) = {k \in D : k < x}
  BY <1>1 DEF Preceding
<1> HIDE DEF G, L
<1>3. \A x \in D : /\ Cardinality(Preceding(D, G, x)) = Larger(D, x)
                   /\ Cardinality(Preceding(D, L, x)) = Smaller(D, x)
  BY <1>2 DEF Larger, Smaller
<1>4. OrderOf(D, G) /\ OrderOf(D, L)
  BY <1>1 DEF OrderOf
<1>5. EachRankOnce(D, G) /\ EachRankOnce(D, L)
  BY <1>4, OneOfEachRank
<1> QED
  BY <1>3, <1>5 DEF EachRankOnce, EachLargerOnce, EachSmallerOnce

LEMMA SpanSets ==
  ASSUME span \in 0 .. NumTrajectories
  PROVE  /\ NumAwaiting \in 0 .. span
         /\ IsFiniteSet(Misplaced) /\ IsFiniteSet(Displaced)
         /\ Misplaced \subseteq 1 .. NumAwaiting
         /\ Displaced \subseteq NumAwaiting + 1 .. span
         /\ Cardinality(Misplaced) = Cardinality(Displaced)
<1> DEFINE A == {i \in 1 .. span : IsAwaitAction(trajectories[i])}
           n == Cardinality(A)
           F == 1 .. n
<1>1. span \in Nat
  BY Bounds
<1>2. IsFiniteSet(1 .. span) /\ Cardinality(1 .. span) = span
  <2>1. Cardinality(1 .. span) = IF 1 > span THEN 0 ELSE span - 1 + 1
    BY <1>1, FS_Interval
  <2> QED
    BY <1>1, <2>1, FS_Interval
<1>3. IsFiniteSet(A) /\ n <= span /\ n \in Nat
  <2>1. A \in SUBSET (1 .. span)
    OBVIOUS
  <2> HIDE DEF A
  <2> QED
    BY <1>2, <2>1, FS_Subset, FS_CardinalityType
<1>4. IsFiniteSet(F) /\ Cardinality(F) = n
  <2> HIDE DEF n
  <2>1. n \in Int /\ 1 \in Int
    BY <1>3
  <2>2. IsFiniteSet(1 .. n) /\ Cardinality(1 .. n) = IF 1 > n THEN 0 ELSE n - 1 + 1
    BY <2>1, FS_Interval
  <2> QED
    BY <1>3, <2>1, <2>2
<1>5. NumAwaiting = n
  BY DEF NumAwaiting
<1>6. Misplaced = F \ A
  <2>1. \A i \in F : i \in 1 .. span
    <3> HIDE DEF A
    <3> QED
      BY <1>1, <1>3
  <2> QED
    BY <1>5, <2>1 DEF Misplaced
<1>7. Displaced = A \ F
  <2>1. \A i \in 1 .. span : i \in n + 1 .. span <=> i \notin F
    <3> HIDE DEF A
    <3> QED
      BY <1>1, <1>3
  <2>2. \A i \in n + 1 .. span : i \in 1 .. span
    <3> HIDE DEF A
    <3> QED
      BY <1>1, <1>3
  <2> QED
    BY <1>5, <2>1, <2>2 DEF Displaced
<1> HIDE DEF A, F
<1>8. /\ IsFiniteSet(F \ A) /\ Cardinality(F \ A) = n - Cardinality(F \cap A)
      /\ IsFiniteSet(A \ F) /\ Cardinality(A \ F) = n - Cardinality(A \cap F)
  BY <1>3, <1>4, FS_Difference
<1>9. F \cap A = A \cap F
  OBVIOUS
<1>10. Cardinality(Misplaced) = Cardinality(Displaced)
  BY <1>6, <1>7, <1>8, <1>9
<1>11. NumAwaiting \in 0 .. span
  BY <1>1, <1>3, <1>5
<1>12. IsFiniteSet(Misplaced) /\ IsFiniteSet(Displaced)
  BY <1>6, <1>7, <1>8
<1>13. Misplaced \subseteq 1 .. NumAwaiting /\ Displaced \subseteq NumAwaiting + 1 .. span
  BY DEF Misplaced, Displaced
<1> QED
  BY <1>10, <1>11, <1>12, <1>13

(* The partition swaps places: twice the same is nothing. *)
LEMMA PartitionSwaps ==
  ASSUME span \in 0 .. NumTrajectories
  PROVE  /\ NumAwaiting \in 0 .. span
         /\ \A i \in Indices : SwappedWith(i) \in Indices /\ SwappedWith(SwappedWith(i)) = i
         /\ \A i \in 1 .. NumAwaiting : IsAwaitAction(trajectories[SwappedWith(i)])
         /\ \A i \in NumAwaiting + 1 .. span :
              SwappedWith(i) \in 1 .. span /\ ~ IsAwaitAction(trajectories[SwappedWith(i)])
         /\ \A i \in span + 1 .. NumTrajectories : SwappedWith(i) = i
<1> DEFINE M == Misplaced
           D == Displaced
           n == NumAwaiting
<1>1. /\ span \in Nat /\ n \in 0 .. span /\ IsFiniteSet(M) /\ IsFiniteSet(D)
      /\ M \subseteq 1 .. n /\ D \subseteq n + 1 .. span
      /\ Cardinality(M) = Cardinality(D) /\ span <= NumTrajectories
  <2>1. span \in Nat /\ span <= NumTrajectories
    BY Bounds
  <2> QED
    BY <2>1, SpanSets
<1>2. /\ M \subseteq Int /\ D \subseteq Int /\ M \cap D = {} /\ M \subseteq 1 .. span
      /\ D \subseteq 1 .. span /\ M \subseteq Indices /\ D \subseteq Indices
  <2> HIDE DEF M, D, n
  <2> QED
    BY <1>1, Bounds
<1>3. EachSmallerOnce(M) /\ EachLargerOnce(D)
  <2> HIDE DEF M, D
  <2> QED
    BY <1>1, <1>2, OneOfEachPlace
<1>4. ASSUME NEW i \in M
      PROVE  SwappedWith(i) \in D /\ Larger(D, SwappedWith(i)) = Smaller(M, i)
  <2>1. SwappedWith(i) = CHOOSE j \in D : Larger(D, j) = Smaller(M, i)
    BY <1>2, Zenon DEF SwappedWith, Larger, Smaller
  <2> HIDE DEF M, D
  <2>2. \E j \in D : Larger(D, j) = Smaller(M, i)
    BY <1>1, <1>3 DEF EachSmallerOnce, EachLargerOnce
  <2> QED
    BY <2>1, <2>2
<1>5. ASSUME NEW i \in D
      PROVE  SwappedWith(i) \in M /\ Smaller(M, SwappedWith(i)) = Larger(D, i)
  <2>1. SwappedWith(i) = CHOOSE j \in M : Smaller(M, j) = Larger(D, i)
    BY <1>2 DEF SwappedWith, Larger, Smaller
  <2> HIDE DEF M, D
  <2>2. \E j \in M : Smaller(M, j) = Larger(D, i)
    BY <1>1, <1>3 DEF EachSmallerOnce, EachLargerOnce
  <2> QED
    BY <2>1, <2>2
<1>6. ASSUME NEW i, i \notin M, i \notin D
      PROVE  SwappedWith(i) = i
  BY <1>6 DEF SwappedWith
<1>7. \A i \in M : ~ IsAwaitAction(trajectories[i])
  BY DEF Misplaced
<1>8. \A i \in D : IsAwaitAction(trajectories[i])
  BY DEF Displaced
<1>9. /\ \A i \in 1 .. n : i \notin M => IsAwaitAction(trajectories[i])
      /\ \A i \in n + 1 .. span : i \notin D => ~ IsAwaitAction(trajectories[i])
  BY DEF Misplaced, Displaced
<1> HIDE DEF M, D, n
<1>10. ASSUME NEW i \in Indices
       PROVE  SwappedWith(i) \in Indices /\ SwappedWith(SwappedWith(i)) = i
  <2>1. CASE i \in M
    <3>1. PICK j \in D : j = SwappedWith(i) /\ Larger(D, j) = Smaller(M, i)
      BY <1>4, <2>1
    <3>2. SwappedWith(j) \in M /\ Smaller(M, SwappedWith(j)) = Smaller(M, i)
      BY <1>5, <3>1
    <3>3. SwappedWith(j) = i
      BY <1>3, <2>1, <3>2 DEF EachSmallerOnce
    <3> QED
      BY <1>2, <3>1, <3>3
  <2>2. CASE i \in D
    <3>1. PICK j \in M : j = SwappedWith(i) /\ Smaller(M, j) = Larger(D, i)
      BY <1>5, <2>2
    <3>2. SwappedWith(j) \in D /\ Larger(D, SwappedWith(j)) = Larger(D, i)
      BY <1>4, <3>1
    <3>3. SwappedWith(j) = i
      BY <1>3, <2>2, <3>2 DEF EachLargerOnce
    <3> QED
      BY <1>2, <3>1, <3>3
  <2>3. CASE i \notin M /\ i \notin D
    BY <1>6, <2>3
  <2> QED
    BY <2>1, <2>2, <2>3
<1>11. ASSUME NEW i \in 1 .. n
       PROVE  IsAwaitAction(trajectories[SwappedWith(i)])
  <2>1. i \notin D
    BY <1>1
  <2>2. CASE i \in M
    BY <1>4, <1>8, <2>2
  <2>3. CASE i \notin M
    <3>1. SwappedWith(i) = i
      BY <1>6, <2>1, <2>3
    <3> QED
      BY <1>9, <2>3, <3>1
  <2> QED
    BY <2>2, <2>3
<1>12. ASSUME NEW i \in n + 1 .. span
       PROVE  SwappedWith(i) \in 1 .. span /\ ~ IsAwaitAction(trajectories[SwappedWith(i)])
  <2>1. i \notin M /\ i \in 1 .. span
    BY <1>1
  <2>2. CASE i \in D
    BY <1>2, <1>5, <1>7, <2>2
  <2>3. CASE i \notin D
    <3>1. SwappedWith(i) = i
      BY <1>6, <2>1, <2>3
    <3> QED
      BY <1>9, <2>1, <2>3, <3>1
  <2> QED
    BY <2>2, <2>3
<1>13. ASSUME NEW i \in span + 1 .. NumTrajectories
       PROVE  SwappedWith(i) = i
  <2>1. i \notin M /\ i \notin D
    <3>1. i \notin 1 .. span
      BY <1>1
    <3> QED
      BY <1>2, <3>1
  <2> QED
    BY <1>6, <2>1
<1> QED
  BY <1>1, <1>10, <1>11, <1>12, <1>13 DEF n

-----------------------------------------------------------------------------
(* The partition takes every trajectory along, to one place. *)
LEMMA PartitionKeepsAll ==
  ASSUME Shape, OneOfEach, InTime, UNCHANGED <<mdp, stage>>, trajectories' = Partitioned
  PROVE  trajectories' \in [Indices -> Trajs] /\ OneOfEach' /\ InTime'
<1>1. \A i \in Indices : SwappedWith(i) \in Indices /\ SwappedWith(SwappedWith(i)) = i
  BY PartitionSwaps DEF Shape
<1>2. \A i \in Indices : trajectories'[i] = trajectories[SwappedWith(i)]
  BY DEF Partitioned
<1>3. trajectories' \in [Indices -> Trajs]
  BY <1>1 DEF Partitioned, Shape
<1>4. OneOfEach'
  <2>1. ASSUME NEW i \in Indices, NEW j \in Indices,
               trajectories'[i].ExternalIndex = trajectories'[j].ExternalIndex
        PROVE  i = j
    <3>1. SwappedWith(i) = SwappedWith(j)
      BY <1>1, <1>2, <2>1 DEF OneOfEach
    <3> QED
      BY <1>1, <3>1
  <2>2. ASSUME NEW k \in Indices
        PROVE  \E i \in Indices : trajectories'[i].ExternalIndex = k
    <3>1. PICK i \in Indices : trajectories[i].ExternalIndex = k
      BY DEF OneOfEach
    <3>2. SwappedWith(i) \in Indices
          /\ trajectories'[SwappedWith(i)] = trajectories[SwappedWith(SwappedWith(i))]
          /\ SwappedWith(SwappedWith(i)) = i
      BY <1>1, <1>2
    <3> QED
      BY <3>1, <3>2
  <2> QED
    BY <2>1, <2>2 DEF OneOfEach
<1>5. InTime'
  BY <1>1, <1>2, HorizonStays DEF InTime
<1> QED
  BY <1>3, <1>4, <1>5

(* Only those that await an action stay in the span; the others arrived. *)
LEMMA SettleKeeps ==
  ASSUME CInv, Settle
  PROVE  CInv'
<1>1. /\ pc = "settled"
      /\ UNCHANGED <<mdp, stage, returns, at, event_seen, AllAwaitAction>>
      /\ Shape /\ OneOfEach /\ InTime /\ ReturnsOK
  BY DEF Settle, CInv
<1>2. /\ \A i \in 1 .. span : Returned(i)
      /\ AllAwaitAction <=> \A i \in 1 .. span : IsAwaitAction(trajectories[i])
  BY <1>1 DEF CInv, Phase, UntilContract, Returned, Arrived
<1>3. /\ NumAwaiting \in 0 .. span /\ span \in 0 .. NumTrajectories /\ NumTrajectories \in Nat
      /\ \A i \in 1 .. span : i \in Indices
  BY <1>1, PartitionSwaps, Bounds DEF Shape
<1>4. ASSUME NEW n \in 0 .. span, span' = n, pc' = AfterSettling(n),
             trajectories' \in [Indices -> Trajs], OneOfEach', InTime',
             \A i \in 1 .. n : IsAwaitAction(trajectories'[i]),
             \A i \in n + 1 .. NumTrajectories : Arrived(i)'
      PROVE  CInv'
  <2>1. pc' \in {"evolved", "act"} /\ (pc' = "evolved" => n = 0) /\ n \in 0 .. NumTrajectories
    BY <1>3, <1>4 DEF AfterSettling
  <2>2. Shape'
    BY <1>1, <1>4, <2>1 DEF Shape, Trajs, States
  <2>3. ReturnsOK'
    BY <1>1, <2>1 DEF ReturnsOK, Noted, NotedAfterWarmup
  <2>4. Phase'
    BY <1>4, <2>1 DEF Phase, UntilContract, ChecksPass
  <2> QED
    BY <1>4, <2>1, <2>2, <2>3, <2>4 DEF CInv
<1>5. CASE AllAwaitAction
  <2>1. UNCHANGED <<trajectories, span>> /\ pc' = AfterSettling(span)
    BY <1>5 DEF Settle
  <2>2. OneOfEach' /\ InTime' /\ trajectories' \in [Indices -> Trajs]
    BY <1>1, <2>1, HorizonStays DEF OneOfEach, InTime, Shape
  <2>3. \A i \in 1 .. span : IsAwaitAction(trajectories'[i])
    BY <1>2, <1>5, <2>1
  <2>4. \A i \in span + 1 .. NumTrajectories : Arrived(i)'
    BY <1>1, <2>1, HorizonStays DEF CInv, Arrived
  <2>5. span \in 0 .. span
    BY <1>3
  <2> QED
    BY <1>4, <2>1, <2>2, <2>3, <2>4, <2>5
<1>6. CASE ~ AllAwaitAction
  <2>1. trajectories' = Partitioned /\ span' = NumAwaiting /\ pc' = AfterSettling(NumAwaiting)
    BY <1>6 DEF Settle
  <2>2. OneOfEach' /\ InTime' /\ trajectories' \in [Indices -> Trajs]
    BY <1>1, <2>1, PartitionKeepsAll
  <2>3. \A i \in Indices : trajectories'[i] = trajectories[SwappedWith(i)]
    BY <2>1 DEF Partitioned
  <2>4. \A i \in 1 .. NumAwaiting : IsAwaitAction(trajectories'[i])
    <3>1. \A i \in 1 .. NumAwaiting : i \in Indices
      BY <1>3 DEF Indices
    <3> QED
      BY <1>3, <2>3, <3>1, PartitionSwaps
  <2>5. ASSUME NEW i \in NumAwaiting + 1 .. NumTrajectories
        PROVE  Arrived(i)'
    <3>1. i \in Indices /\ (i \in NumAwaiting + 1 .. span \/ i \in span + 1 .. NumTrajectories)
      BY <1>3 DEF Indices
    <3> DEFINE j == SwappedWith(i)
    <3>2. trajectories'[i] = trajectories[j]
      BY <2>3, <3>1
    <3>3. CASE i \in NumAwaiting + 1 .. span
      <4>1. j \in 1 .. span /\ ~ IsAwaitAction(trajectories[j])
        BY <1>3, <3>3, PartitionSwaps
      <4> HIDE DEF j
      <4>2. Arrived(j)
        BY <1>2, <4>1 DEF Returned
      <4> QED
        BY <1>1, <3>2, <4>2, HorizonStays DEF Arrived
    <3>4. CASE i \in span + 1 .. NumTrajectories
      <4>1. j = i
        BY <1>3, <3>4, PartitionSwaps
      <4>2. Arrived(i)
        BY <3>4 DEF CInv
      <4> QED
        BY <1>1, <3>2, <4>1, <4>2, HorizonStays DEF Arrived
    <3> QED
      BY <3>1, <3>3, <3>4
  <2> QED
    BY <1>3, <1>4, <2>1, <2>2, <2>4, <2>5
<1> QED
  BY <1>5, <1>6

-----------------------------------------------------------------------------
(* A new round of the loop begins, over the first n trajectories. *)
LEMMA RoundBegins ==
  ASSUME NEW n \in 0 .. NumTrajectories, Until(n), mdp' = mdp, mdp \in MDPs,
         trajectories' \in [Indices -> Trajs], OneOfEach', InTime',
         stage' \in {"warmup", "main", "finite"},
         stage' = "finite" <=> ~ mdp.infinite, stage' = "warmup" => ~ mdp.discounted,
         \A i \in n + 1 .. NumTrajectories : Arrived(i)', ReturnsOK'
  PROVE  CInv'
<1>1. /\ pc' = "until" /\ span' = n /\ at' = 1 /\ AllAwaitAction' = TRUE
      /\ event_seen' = [i \in Indices |-> FALSE]
  BY DEF Until
<1>2. n \in Nat /\ 1 \in 1 .. n + 1 /\ NumTrajectories \in Nat
  BY Bounds
<1>3. Shape'
  BY <1>1, <1>2 DEF Shape, Trajs, States
<1>4. InLoop'
  <2>1. \A i \in 1 + 1 .. n : i \in Indices
    BY <1>2 DEF Indices
  <2>2. 1 <= n => 1 \in Indices
    BY <1>2 DEF Indices
  <2>3. \A i : i \notin 1 .. 1 - 1
    OBVIOUS
  <2> QED
    BY <1>1, <1>2, <2>1, <2>2, <2>3 DEF InLoop
<1>5. UntilContract' /\ ChecksPass'
  BY <1>1 DEF UntilContract, ChecksPass
<1> QED
  BY <1>1, <1>3, <1>4, <1>5 DEF CInv, Phase

(* All of the span await an action, so the call does not throw. *)
LEMMA ActKeeps ==
  ASSUME CInv, Act
  PROVE  CInv'
<1>1. /\ pc = "act" /\ Shape /\ OneOfEach /\ InTime /\ ReturnsOK
      /\ \A i \in 1 .. span : IsAwaitAction(trajectories[i])
      /\ UNCHANGED <<mdp, stage, returns>>
      /\ \A i \in 1 .. span : i \in Indices
  BY Bounds DEF Act, CInv, Phase, Shape
<1>2. PICK a : /\ \A i \in 1 .. span : a[i] \in Choices(i)
               /\ trajectories' =
                    [i \in Indices |->
                       IF i <= span THEN AfterAction(mdp, trajectories[i], a[i])
                                    ELSE trajectories[i]]
  BY <1>1 DEF Act
<1>3. Until(span)
  BY <1>1 DEF Act
<1>4. \A i \in Indices : i <= span => i \in 1 .. span
  BY <1>1, Bounds DEF Shape
<1>5. ASSUME NEW i \in Indices
      PROVE  /\ trajectories'[i] \in Trajs
             /\ trajectories'[i].Category = mdp.category[trajectories'[i].state]
             /\ trajectories'[i].PeriodCount = trajectories[i].PeriodCount
             /\ trajectories'[i].ExternalIndex = trajectories[i].ExternalIndex
  <2>1. CASE i <= span
    <3>1. trajectories'[i] = AfterAction(mdp, trajectories[i], a[i])
      BY <1>2, <2>1
    <3>2. IsAwaitAction(trajectories[i]) /\ a[i] \in mdp.allowed[trajectories[i].state]
      BY <1>1, <1>2, <1>4, <2>1 DEF Choices
    <3> QED
      BY <1>1, <3>1, <3>2, ActionLeads
  <2>2. CASE ~ (i <= span)
    BY <1>1, <1>2, <2>2 DEF Shape, InTime
  <2> QED
    BY <2>1, <2>2
<1>6. trajectories' \in [Indices -> Trajs]
  BY <1>2, <1>5
<1>7. OneOfEach'
  BY <1>1, <1>5 DEF OneOfEach
<1>8. InTime'
  BY <1>1, <1>5, HorizonStays DEF InTime
<1>9. \A i \in span + 1 .. NumTrajectories : Arrived(i)'
  <2>1. \A i \in span + 1 .. NumTrajectories : i \in Indices /\ ~ (i <= span)
    BY <1>1, Bounds DEF Shape
  <2>2. \A i \in span + 1 .. NumTrajectories : trajectories'[i] = trajectories[i]
    BY <1>2, <2>1
  <2> QED
    BY <1>1, <2>2, HorizonStays DEF CInv, Arrived
<1>10. ReturnsOK'
  BY <1>1, <1>3 DEF ReturnsOK, Noted, NotedAfterWarmup, Until
<1> QED
  BY <1>1, <1>3, <1>6, <1>7, <1>8, <1>9, <1>10, RoundBegins DEF Shape

-----------------------------------------------------------------------------
(***************************************************************************)
(* ComputeReturns.                                                         *)
(***************************************************************************)

(* When Evolve is done all trajectories have arrived; an MDP of infinite   *)
(* horizon is never final, so the checks pass.                             *)
LEMMA AllArrived ==
  ASSUME CInv, pc = "evolved"
  PROVE  /\ \A i \in Indices : Arrived(i)
         /\ stage # "finite" => CheckPasses
         /\ (stage = "finite" /\ ~ CheckPasses) =>
              \E i \in Indices : trajectories[i].PeriodCount = max_periods_until_error
<1>1. /\ span = 0 /\ Shape /\ InTime /\ \A i \in span + 1 .. NumTrajectories : Arrived(i)
  BY DEF CInv, Phase
<1>2. \A i \in Indices : Arrived(i)
  BY <1>1, Bounds
<1>3. ASSUME stage # "finite", NEW i \in Indices
      PROVE  ~ IsFinal(trajectories[i])
  <2>1. mdp.infinite /\ trajectories[i].state \in States
        /\ trajectories[i].Category = mdp.category[trajectories[i].state]
    BY <1>1, <1>3, StateFacts DEF Shape, InTime, Trajs
  <2> QED
    BY <1>1, <2>1, StateFacts DEF Shape, IsFinal
<1>4. stage # "finite" => CheckPasses
  <2>1. stage # "finite" => mdp.infinite
    BY <1>1, StateFacts DEF Shape
  <2> QED
    BY <1>2, <1>3, <2>1 DEF CheckPasses, Arrived
<1>5. ASSUME stage = "finite", ~ CheckPasses
      PROVE  \E i \in Indices : trajectories[i].PeriodCount = max_periods_until_error
  <2>1. PICK i \in Indices : ~ IsFinal(trajectories[i])
    BY <1>1, <1>5 DEF CheckPasses, Shape
  <2> QED
    BY <1>2, <1>5, <2>1 DEF Arrived, MaxPeriodCount
<1> QED
  BY <1>2, <1>4, <1>5

(* Any number is that of the trajectory in one place, and of no other. *)
LEMMA EachInOnePlace ==
  ASSUME OneOfEach, NEW k \in Indices
  PROVE  \E i \in Indices : \A j \in Indices : trajectories[j].ExternalIndex = k <=> j = i
BY DEF OneOfEach

LEMMA WarmupEndsKeeps ==
  ASSUME CInv, WarmupEnds
  PROVE  CInv'
<1>1. /\ pc = "evolved" /\ stage = "warmup" /\ Shape /\ OneOfEach /\ InTime
      /\ UNCHANGED <<mdp, trajectories>>
      /\ returns' = [i \in Indices |-> <<Zero, CumulativeReturn(trajectories[i])>>]
  BY DEF WarmupEnds, NotedReturns, CInv
<1>2. mdp.infinite /\ ~ mdp.discounted
  BY <1>1, StateFacts DEF Shape
<1>3. /\ stage' = "main" /\ Until(NumTrajectories)
      /\ \A i \in Indices : trajectories[i].PeriodCount = warmup_periods
  BY <1>1, <1>2, AllArrived DEF WarmupEnds, CheckPasses, MaxPeriodCount
<1>4. OneOfEach' /\ trajectories' \in [Indices -> Trajs]
  BY <1>1 DEF OneOfEach, Shape
<1>5. InTime'
  <2>1. MaxPeriodCount' = warmup_periods + periods_per_trajectory
    BY <1>1, <1>2, <1>3 DEF MaxPeriodCount
  <2>2. warmup_periods <= warmup_periods + periods_per_trajectory
    BY Bounds
  <2> QED
    BY <1>1, <1>3, <2>1, <2>2 DEF InTime
<1>6. ReturnsOK'
  <2>1. Noted' /\ pc' = "until"
    BY <1>1, <1>2, <1>3 DEF Noted, Until
  <2>2. \A i \in Indices :
          returns'[i][2] = [of |-> trajectories[i].ExternalIndex, upto |-> warmup_periods]
    BY <1>1, <1>3 DEF CumulativeReturn
  <2>3. ASSUME NEW k \in Indices
        PROVE  \E i \in Indices : /\ \A j \in Indices : returns'[j][2].of = k <=> j = i
                                  /\ returns'[i][2].upto = warmup_periods
    <3>1. PICK i \in Indices :
            \A j \in Indices : trajectories[j].ExternalIndex = k <=> j = i
      BY <1>1, EachInOnePlace
    <3>2. ASSUME NEW j \in Indices
          PROVE  /\ returns'[j][2].of = trajectories[j].ExternalIndex
                 /\ returns'[j][2].upto = warmup_periods
      <4>1. returns'[j][2] = [of |-> trajectories[j].ExternalIndex, upto |-> warmup_periods]
        BY <2>2
      <4> QED
        BY <4>1
    <3> QED
      BY <3>1, <3>2
  <2>4. NotedAfterWarmup'
    BY <2>3 DEF NotedAfterWarmup, Indices
  <2> QED
    BY <2>1, <2>4 DEF ReturnsOK
<1>7. NumTrajectories \in 0 .. NumTrajectories
      /\ \A i : i \notin NumTrajectories + 1 .. NumTrajectories
  BY Bounds
<1> QED
  BY <1>1, <1>2, <1>3, <1>4, <1>5, <1>6, <1>7, RoundBegins DEF Shape

LEMMA EvolutionEndsKeeps ==
  ASSUME CInv, EvolutionEnds
  PROVE  CInv'
<1>1. /\ pc = "evolved" /\ stage # "warmup" /\ Shape /\ OneOfEach /\ InTime /\ ReturnsOK
      /\ UNCHANGED <<mdp, trajectories, span, stage, at, event_seen, AllAwaitAction>>
      /\ pc' = IF CheckPasses THEN "done" ELSE "threw"
      /\ span = 0 /\ \A i \in span + 1 .. NumTrajectories : Arrived(i)
  BY DEF EvolutionEnds, CInv, Phase
<1>2. Shape' /\ OneOfEach' /\ InTime' /\ \A i \in span' + 1 .. NumTrajectories : Arrived(i)'
  BY <1>1, HorizonStays DEF Shape, Trajs, States, OneOfEach, InTime, Arrived
<1>3. UntilContract'
  BY <1>1 DEF UntilContract
<1>4. CASE CheckPasses
  <2>1. /\ pc' = "done"
        /\ returns' = [i \in Indices |-> <<CumulativeReturn(trajectories[i]), returns[i][2]>>]
    BY <1>1, <1>4 DEF EvolutionEnds
  <2>2. \A i \in Indices : returns'[i][1] = CumulativeReturn(trajectories[i])
                           /\ returns'[i][2] = returns[i][2]
    BY <2>1
  <2>3. NotedAfterWarmup => NotedAfterWarmup'
    BY <2>2 DEF NotedAfterWarmup, Indices
  <2>4. ReturnsOK'
    BY <1>1, <2>2, <2>3 DEF ReturnsOK, Noted
  <2> QED
    BY <1>1, <1>2, <1>3, <2>1, <2>4 DEF CInv, Phase, ChecksPass
<1>5. CASE ~ CheckPasses
  <2>1. pc' = "threw"
    BY <1>1, <1>5
  <2>2. ChecksPass'
    BY <1>1, <1>5, AllArrived DEF ChecksPass
  <2> QED
    BY <1>1, <1>2, <1>3, <2>1, <2>2 DEF CInv, Phase
<1> QED
  BY <1>4, <1>5

LEMMA InitCInv == Init => CInv
<1> SUFFICES ASSUME Init PROVE CInv
  OBVIOUS
<1>1. /\ mdp \in MDPs /\ span = NumTrajectories /\ pc = "until" /\ at = 1
      /\ stage = IF ~mdp.infinite THEN "finite" ELSE IF mdp.discounted THEN "main" ELSE "warmup"
      /\ event_seen = [i \in Indices |-> FALSE] /\ AllAwaitAction = TRUE
      /\ returns = [i \in Indices |-> <<Zero, Zero>>]
  BY DEF Init
<1>2. PICK start \in [Indices -> mdp.initial] :
        trajectories = [i \in Indices |-> Initiated(mdp, i, start[i])]
  BY DEF Init
<1>3. ASSUME NEW i \in Indices
      PROVE  /\ trajectories[i] \in Trajs
             /\ trajectories[i].Category = mdp.category[trajectories[i].state]
             /\ trajectories[i].PeriodCount = 0 /\ trajectories[i].ExternalIndex = i
  <2>1. start[i] \in States /\ mdp.category[start[i]] \in Categories
    BY <1>1, StateFacts
  <2>2. trajectories[i] = [state |-> start[i], Category |-> mdp.category[start[i]],
                           PeriodCount |-> 0, ExternalIndex |-> i]
    BY <1>2 DEF Initiated
  <2> QED
    BY <2>1, <2>2 DEF Trajs
<1>4. trajectories \in [Indices -> Trajs] /\ OneOfEach
  BY <1>2, <1>3 DEF OneOfEach
<1>5. /\ stage \in {"warmup", "main", "finite"}
      /\ stage = "finite" <=> ~ mdp.infinite
      /\ stage = "warmup" => ~ mdp.discounted
      /\ ~ Noted
  BY <1>1, StateFacts DEF Noted
<1>6. Shape
  BY <1>1, <1>4, <1>5, Bounds DEF Shape
<1>7. InTime
  <2>1. 0 <= MaxPeriodCount
    BY <1>5, HorizonType
  <2> QED
    BY <1>3, <2>1 DEF InTime
<1>8. ReturnsOK
  BY <1>1, <1>5 DEF ReturnsOK
<1>9. InLoop
  <2>1. /\ 1 \in 1 .. span + 1 /\ \A i : i \notin 1 .. 1 - 1
        /\ \A i \in 1 + 1 .. span : i \in Indices
        /\ 1 <= span => 1 \in Indices
    BY <1>1, Bounds
  <2> QED
    BY <1>1, <2>1 DEF InLoop
<1>10. \A i : i \notin span + 1 .. NumTrajectories
  BY <1>1, Bounds
<1> QED
  BY <1>1, <1>4, <1>6, <1>7, <1>8, <1>9, <1>10 DEF CInv, Phase, UntilContract, ChecksPass

LEMMA NextCInv == CInv /\ [Next]_vars => CInv'
<1> SUFFICES ASSUME CInv, [Next]_vars PROVE CInv'
  OBVIOUS
<1>1. CASE UNCHANGED vars
  <2>1. /\ UNCHANGED <<mdp, trajectories, span, stage, pc, at, event_seen, AllAwaitAction, returns>>
        /\ MaxPeriodCount' = MaxPeriodCount
    BY <1>1, HorizonStays DEF vars
  <2>2. Shape' /\ OneOfEach' /\ InTime' /\ (pc' # "threw" => ReturnsOK')
    BY <2>1 DEF CInv, Shape, Trajs, States, OneOfEach, InTime, ReturnsOK, Noted, NotedAfterWarmup
  <2>3. \A i \in span' + 1 .. NumTrajectories : Arrived(i)'
    BY <2>1 DEF CInv, Arrived
  <2>4. pc' \in {"until", "skip"} => InLoop'
    BY <2>1 DEF CInv, Phase, InLoop, Returned, Arrived
  <2>5. UntilContract' /\ ChecksPass'
    BY <2>1 DEF CInv, Phase, UntilContract, ChecksPass
  <2> QED
    BY <2>1, <2>2, <2>3, <2>4, <2>5 DEF CInv, Phase
<1> QED
  BY <1>1, EventKeeps, SkipKeeps, SkippingEndsKeeps, NextTrajectoryKeeps, UntilReturnsKeeps,
     SettleKeeps, ActKeeps, WarmupEndsKeeps, EvolutionEndsKeeps DEF Next, Ended

-----------------------------------------------------------------------------
(* When IncorporateUntilNonTrivialAction returns, each trajectory is final,*)
(* out of time or awaits an action, which is a choice for those that met   *)
(* an event in this call, and the result says whether all await an action: *)
(* for any MDP, however long its events and forced actions are.            *)
THEOREM UntilKeepsItsContract == Spec => []UntilContract
<1>1. CInv => UntilContract
  BY DEF CInv, Phase
<1> QED
  BY InitCInv, NextCInv, <1>1, PTL DEF Spec

(* No call throws but for a finite horizon that is not reached in time.    *)
THEOREM OnlyLateEndsThrow == Spec => []ChecksPass
<1>1. CInv => ChecksPass
  BY DEF CInv, Phase
<1> QED
  BY InitCInv, NextCInv, <1>1, PTL DEF Spec

(* Each trajectory's return is added once, at the last period, and, if and *)
(* only if there is a warm-up, what it had at the end of that is           *)
(* subtracted, once, whatever places the partitions move it to.            *)
THEOREM MeanIsExact == Spec => []MeanExact
<1>1. CInv => MeanExact
  <2> SUFFICES ASSUME CInv, pc = "done", NEW k \in Indices
               PROVE  /\ \E i \in Indices :
                           /\ \A j \in Indices : returns[j][1].of = k <=> j = i
                           /\ mdp.infinite => returns[i][1].upto = MaxPeriodCount
                      /\ IF mdp.infinite /\ ~mdp.discounted
                         THEN \E i \in Indices :
                                /\ \A j \in Indices : returns[j][2].of = k <=> j = i
                                /\ returns[i][2].upto = warmup_periods
                         ELSE returns[k][2] = Zero
    BY DEF MeanExact
  <2>1. /\ ReturnsOK /\ OneOfEach /\ Shape /\ InTime /\ span = 0
        /\ \A i \in span + 1 .. NumTrajectories : Arrived(i)
    BY DEF CInv, Phase
  <2>2. PICK i \in Indices : \A j \in Indices : trajectories[j].ExternalIndex = k <=> j = i
    BY <2>1, EachInOnePlace
  <2>3. ASSUME NEW j \in Indices
        PROVE  /\ returns[j][1].of = trajectories[j].ExternalIndex
               /\ returns[j][1].upto = trajectories[j].PeriodCount
    <3>1. returns[j][1] = [of |-> trajectories[j].ExternalIndex,
                           upto |-> trajectories[j].PeriodCount]
      BY <2>1 DEF ReturnsOK, CumulativeReturn
    <3> QED
      BY <3>1
  <2>4. ASSUME mdp.infinite PROVE trajectories[i].PeriodCount = MaxPeriodCount
    <3>1. Arrived(i)
      BY <2>1, Bounds
    <3>2. /\ trajectories[i].state \in States
          /\ trajectories[i].Category = mdp.category[trajectories[i].state]
      BY <2>1 DEF Shape, InTime, Trajs
    <3>3. ~ IsFinal(trajectories[i])
      BY <2>1, <2>4, <3>2, StateFacts DEF Shape, IsFinal
    <3> QED
      BY <3>1, <3>3 DEF Arrived
  <2>5. \E p \in Indices : /\ \A j \in Indices : returns[j][1].of = k <=> j = p
                           /\ mdp.infinite => returns[p][1].upto = MaxPeriodCount
    BY <2>2, <2>3, <2>4
  <2>6. CASE Noted
    <3>1. mdp.infinite /\ ~mdp.discounted
      BY <2>1, <2>6, StateFacts DEF Shape, Noted
    <3>2. NotedAfterWarmup
      BY <2>1, <2>6 DEF ReturnsOK
    <3> QED
      BY <2>5, <3>1, <3>2 DEF NotedAfterWarmup
  <2>7. CASE ~ Noted
    <3>1. ~(mdp.infinite /\ ~mdp.discounted)
      BY <2>1, <2>7, StateFacts DEF Shape, Noted, ReturnsOK
    <3>2. returns[k][2] = Zero
      BY <2>1, <2>7 DEF ReturnsOK
    <3> QED
      BY <2>5, <3>1, <3>2
  <2> QED
    BY <2>6, <2>7
<1> QED
  BY InitCInv, NextCInv, <1>1, PTL DEF Spec

-----------------------------------------------------------------------------
(***************************************************************************)
(* The batch implements the walks.                                         *)
(***************************************************************************)

(* A trajectory may go from t to u in one step of its walk. *)
Same(t, u) == u.state = t.state /\ u.PeriodCount = t.PeriodCount
WalksFromTo(t, u) ==
  \/ Same(t, u)
  \/ /\ t.PeriodCount < MaxPeriodCount
     /\ \/ mdp.category[t.state] = "AwaitEvent" /\ u.PeriodCount = t.PeriodCount + 1
        \/ mdp.category[t.state] = "AwaitExtraEvent" /\ u.PeriodCount = t.PeriodCount
     /\ u.state \in mdp.event[t.state]
  \/ /\ mdp.category[t.state] = "AwaitAction"
     /\ \E a \in mdp.allowed[t.state] : u.state = mdp.action[<<t.state, a>>]
     /\ u.PeriodCount = t.PeriodCount

(* A step that leaves them in their places. *)
LEMMA InPlace ==
  ASSUME CInv,
         \A i \in Indices : /\ trajectories'[i].ExternalIndex = trajectories[i].ExternalIndex
                            /\ WalksFromTo(trajectories[i], trajectories'[i]),
         NEW i \in Indices, NEW j \in Indices,
         trajectories'[j].ExternalIndex = trajectories[i].ExternalIndex
  PROVE  WalksFromTo(trajectories[i], trajectories'[j])
<1>1. i = j
  BY DEF CInv, OneOfEach
<1> QED
  BY <1>1

LEMMA EventWalks ==
  ASSUME CInv, IncorporateEvent, NEW i \in Indices
  PROVE  /\ trajectories'[i].ExternalIndex = trajectories[i].ExternalIndex
         /\ WalksFromTo(trajectories[i], trajectories'[i])
<1>1. /\ pc = "until" /\ at <= span /\ at \in Indices
      /\ GoesOn(trajectories[at], MaxPeriodCount) /\ Shape /\ InTime
  BY Bounds DEF IncorporateEvent, Here, CInv, Phase, InLoop, Shape
<1>2. PICK s \in mdp.event[trajectories[at].state] :
        trajectories' = [trajectories EXCEPT ![at] = AfterEvent(mdp, trajectories[at], s)]
  BY DEF IncorporateEvent, Here
<1> DEFINE t == AfterEvent(mdp, trajectories[at], s)
<1>3. /\ t.state = s
      /\ t.PeriodCount = IF trajectories[at].Category = "AwaitEvent"
                         THEN trajectories[at].PeriodCount + 1
                         ELSE trajectories[at].PeriodCount
      /\ t.ExternalIndex = trajectories[at].ExternalIndex
  BY <1>1, EventLeads
<1>4. trajectories' = [trajectories EXCEPT ![at] = t]
  BY <1>2
<1> HIDE DEF t
<1>5. CASE i = at
  <2>1. trajectories'[i] = t
    BY <1>1, <1>4, <1>5 DEF Shape
  <2>2. /\ trajectories[i].Category = mdp.category[trajectories[i].state]
        /\ trajectories[i].Category \in {"AwaitEvent", "AwaitExtraEvent"}
        /\ trajectories[i].PeriodCount < MaxPeriodCount
    BY <1>1, <1>5 DEF InTime, GoesOn, IsAwaitEvent
  <2> QED
    BY <1>2, <1>3, <1>5, <2>1, <2>2 DEF WalksFromTo, Same
<1>6. CASE i # at
  BY <1>1, <1>4, <1>6 DEF Shape, WalksFromTo, Same
<1> QED
  BY <1>5, <1>6

LEMMA SkipWalks ==
  ASSUME CInv, SkipTrivialAction, NEW i \in Indices
  PROVE  /\ trajectories'[i].ExternalIndex = trajectories[i].ExternalIndex
         /\ WalksFromTo(trajectories[i], trajectories'[i])
<1>1. /\ pc = "skip" /\ at <= span /\ at \in Indices
      /\ IsTrivial(mdp, trajectories[at]) /\ Shape /\ InTime
  BY Bounds DEF SkipTrivialAction, Here, CInv, Phase, InLoop, Shape
<1> DEFINE a == CHOOSE x \in mdp.allowed[trajectories[at].state] : TRUE
           t == AfterAction(mdp, trajectories[at], a)
<1>2. trajectories' = [trajectories EXCEPT ![at] = t]
  BY DEF SkipTrivialAction, Here
<1>3. IsAwaitAction(trajectories[at]) /\ a \in mdp.allowed[trajectories[at].state]
  BY <1>1, TrivialAction
<1> HIDE DEF a
<1>4. /\ t.state = mdp.action[<<trajectories[at].state, a>>]
      /\ t.PeriodCount = trajectories[at].PeriodCount
      /\ t.ExternalIndex = trajectories[at].ExternalIndex
  BY <1>1, <1>3, ActionLeads
<1> HIDE DEF t
<1>5. CASE i = at
  <2>1. trajectories'[i] = t
    BY <1>1, <1>2, <1>5 DEF Shape
  <2>2. mdp.category[trajectories[i].state] = "AwaitAction"
    BY <1>1, <1>3, <1>5 DEF InTime, IsAwaitAction
  <2> QED
    BY <1>3, <1>4, <1>5, <2>1, <2>2 DEF WalksFromTo, Same
<1>6. CASE i # at
  BY <1>1, <1>2, <1>6 DEF Shape, WalksFromTo, Same
<1> QED
  BY <1>5, <1>6

LEMMA ActWalks ==
  ASSUME CInv, Act, NEW i \in Indices
  PROVE  /\ trajectories'[i].ExternalIndex = trajectories[i].ExternalIndex
         /\ WalksFromTo(trajectories[i], trajectories'[i])
<1>1. /\ pc = "act" /\ Shape /\ InTime
      /\ \A u \in 1 .. span : IsAwaitAction(trajectories[u])
  BY DEF Act, CInv, Phase
<1>2. PICK a : /\ \A u \in 1 .. span : a[u] \in Choices(u)
               /\ trajectories' =
                    [u \in Indices |->
                       IF u <= span THEN AfterAction(mdp, trajectories[u], a[u])
                                    ELSE trajectories[u]]
  BY <1>1 DEF Act
<1>3. CASE i <= span
  <2>1. i \in 1 .. span
    BY <1>1, <1>3, Bounds DEF Shape
  <2>2. trajectories'[i] = AfterAction(mdp, trajectories[i], a[i])
    BY <1>2, <1>3
  <2>3. IsAwaitAction(trajectories[i]) /\ a[i] \in mdp.allowed[trajectories[i].state]
    BY <1>1, <1>2, <2>1 DEF Choices
  <2>4. /\ trajectories'[i].state = mdp.action[<<trajectories[i].state, a[i]>>]
        /\ trajectories'[i].PeriodCount = trajectories[i].PeriodCount
        /\ trajectories'[i].ExternalIndex = trajectories[i].ExternalIndex
    BY <1>1, <2>2, <2>3, ActionLeads
  <2>5. mdp.category[trajectories[i].state] = "AwaitAction"
    BY <1>1, <2>3 DEF InTime, IsAwaitAction
  <2> QED
    BY <2>3, <2>4, <2>5 DEF WalksFromTo, Same
<1>4. CASE ~ (i <= span)
  BY <1>2, <1>4 DEF WalksFromTo, Same
<1> QED
  BY <1>3, <1>4

(* The partition moves them about, and changes none. *)
LEMMA SettleWalks ==
  ASSUME CInv, Settle, NEW i \in Indices, NEW j \in Indices,
         trajectories'[j].ExternalIndex = trajectories[i].ExternalIndex
  PROVE  Same(trajectories[i], trajectories'[j])
<1>1. Shape /\ OneOfEach
  BY DEF CInv
<1>2. CASE AllAwaitAction
  <2>1. trajectories' = trajectories
    BY <1>2 DEF Settle
  <2> QED
    BY <1>1, <2>1 DEF OneOfEach, Same
<1>3. CASE ~ AllAwaitAction
  <2>1. SwappedWith(j) \in Indices
    BY <1>1, PartitionSwaps DEF Shape
  <2>2. trajectories'[j] = trajectories[SwappedWith(j)]
    BY <1>3 DEF Settle, Partitioned
  <2>3. SwappedWith(j) = i
    BY <1>1, <2>1, <2>2 DEF OneOfEach
  <2> QED
    BY <2>2, <2>3 DEF Same
<1> QED
  BY <1>2, <1>3

LEMMA NextWalks ==
  ASSUME CInv, Next, NEW i \in Indices, NEW j \in Indices,
         trajectories'[j].ExternalIndex = trajectories[i].ExternalIndex
  PROVE  mdp' = mdp /\ WalksFromTo(trajectories[i], trajectories'[j])
<1>1. mdp' = mdp
  BY DEF Next, IncorporateEvent, SkipTrivialAction, SkippingEnds, NextTrajectory, UntilReturns,
         Settle, Act, WarmupEnds, EvolutionEnds, Ended, batchVars, vars
<1>2. ASSUME trajectories' = trajectories
      PROVE  WalksFromTo(trajectories[i], trajectories'[j])
  BY <1>2, InPlace DEF WalksFromTo, Same
<1>3. CASE IncorporateEvent
  BY <1>1, <1>3, EventWalks, InPlace
<1>4. CASE SkipTrivialAction
  BY <1>1, <1>4, SkipWalks, InPlace
<1>5. CASE Act
  BY <1>1, <1>5, ActWalks, InPlace
<1>6. CASE Settle
  BY <1>1, <1>6, SettleWalks DEF WalksFromTo
<1>7. CASE SkippingEnds \/ NextTrajectory \/ UntilReturns \/ WarmupEnds \/ EvolutionEnds \/ Ended
  <2>1. trajectories' = trajectories
    BY <1>7 DEF SkippingEnds, NextTrajectory, UntilReturns, WarmupEnds, EvolutionEnds, Ended, vars
  <2> QED
    BY <1>1, <1>2, <2>1
<1> QED
  BY <1>3, <1>4, <1>5, <1>6, <1>7 DEF Next

(* Where a trajectory is. *)
LEMMA PlaceFound ==
  ASSUME CInv, NEW k \in Indices
  PROVE  Place(k) \in Indices /\ trajectories[Place(k)].ExternalIndex = k
<1>1. \E i \in Indices : trajectories[i].ExternalIndex = k
  BY DEF CInv, OneOfEach
<1> QED
  BY <1>1 DEF Place

LEMMA InitWalks == Init => Walks!Init
<1> SUFFICES ASSUME Init PROVE Walks!Init
  OBVIOUS
<1>1. CInv /\ mdp \in MDPs
  BY InitCInv DEF Init
<1>2. PICK start \in [Indices -> mdp.initial] :
        trajectories = [i \in Indices |-> Initiated(mdp, i, start[i])]
  BY DEF Init
<1>3. \A i \in Indices : trajectories[i].state = start[i] /\ trajectories[i].PeriodCount = 0
  BY <1>2 DEF Initiated
<1>4. \A k \in Indices : /\ trajectories[Place(k)].state \in mdp.initial
                         /\ trajectories[Place(k)].PeriodCount = 0
  BY <1>1, <1>3, PlaceFound
<1> QED
  BY <1>1, <1>4 DEF Walks!Init

LEMMA StepWalks ==
  ASSUME CInv, CInv', Next
  PROVE  Walks!Next
<1> DEFINE state  == [k \in Indices |-> trajectories[Place(k)].state]
           period == [k \in Indices |-> trajectories[Place(k)].PeriodCount]
<1>1. mdp' = mdp
  BY PlaceFound, NextWalks, Bounds DEF Next, IncorporateEvent, SkipTrivialAction, SkippingEnds,
     NextTrajectory, UntilReturns, Settle, Act, WarmupEnds, EvolutionEnds, Ended, batchVars, vars
<1>2. ASSUME NEW k \in Indices
      PROVE  Walks!Event(k) \/ Walks!Action(k) \/ Walks!Rest(k)
  <2>1. Place(k) \in Indices /\ trajectories[Place(k)].ExternalIndex = k
    BY PlaceFound
  <2>2. (CInv => Place(k) \in Indices /\ trajectories[Place(k)].ExternalIndex = k)'
    <3>1. CInv => Place(k) \in Indices /\ trajectories[Place(k)].ExternalIndex = k
      BY PlaceFound
    <3> QED
      BY PlaceFound, PTL
  <2>3. PICK i \in Indices, j \in Indices :
          /\ i = Place(k) /\ j = Place(k)'
          /\ trajectories'[j].ExternalIndex = trajectories[i].ExternalIndex
    BY <2>1, <2>2
  <2>4. WalksFromTo(trajectories[i], trajectories'[j])
    BY <2>3, NextWalks
  <2>5. /\ state[k] = trajectories[i].state /\ state'[k] = trajectories'[j].state
        /\ period[k] = trajectories[i].PeriodCount /\ period'[k] = trajectories'[j].PeriodCount
    BY <2>3
  <2> HIDE DEF state, period
  <2>6. \/ state'[k] = state[k] /\ period'[k] = period[k]
        \/ /\ period[k] < MaxPeriodCount
           /\ \/ mdp.category[state[k]] = "AwaitEvent" /\ period'[k] = period[k] + 1
              \/ mdp.category[state[k]] = "AwaitExtraEvent" /\ period'[k] = period[k]
           /\ state'[k] \in mdp.event[state[k]]
        \/ /\ mdp.category[state[k]] = "AwaitAction"
           /\ \E a \in mdp.allowed[state[k]] : state'[k] = mdp.action[<<state[k], a>>]
           /\ period'[k] = period[k]
    BY <2>4, <2>5 DEF WalksFromTo, Same
  <2> QED
    BY <2>6 DEF Walks!Event, Walks!Action, Walks!Rest, state, period
<1> QED
  BY <1>1, <1>2 DEF Walks!Next

(* Batches are nothing but trajectories: each is a walk of the MDP, which  *)
(* never goes past the horizon, whatever places it is moved to.            *)
THEOREM BatchImplementsWalks == Spec => ImplementsWalks
<1>1. CInv /\ CInv' /\ [Next]_vars =>
        [Walks!Next]_<<mdp, [k \in Indices |-> trajectories[Place(k)].state],
                       [k \in Indices |-> trajectories[Place(k)].PeriodCount]>>
  <2> SUFFICES ASSUME CInv, CInv', [Next]_vars
               PROVE  [Walks!Next]_<<mdp, [k \in Indices |-> trajectories[Place(k)].state],
                                     [k \in Indices |-> trajectories[Place(k)].PeriodCount]>>
    OBVIOUS
  <2>1. CASE Next
    BY <2>1, StepWalks
  <2>2. CASE UNCHANGED vars
    BY <2>2 DEF vars, Place
  <2> QED
    BY <2>1, <2>2
<1> QED
  BY InitCInv, NextCInv, InitWalks, <1>1, PTL DEF Spec, ImplementsWalks, Walks!Spec

-----------------------------------------------------------------------------
(***************************************************************************)
(* The way to the end of an evaluation is finite.                          *)
(***************************************************************************)

(* Decisions and extra events do not go on for ever within a period: there *)
(* is a depth that each of them lowers.                                    *)
DecisionsEnd(depth) ==
  \A m \in MDPs :
    LET S == DOMAIN m.category
    IN  /\ depth[m] \in [S -> Nat]
        /\ \A s \in S :
             /\ m.category[s] = "AwaitAction" =>
                  \A a \in m.allowed[s] : depth[m][m.action[<<s, a>>]] < depth[m][s]
             /\ m.category[s] = "AwaitExtraEvent" =>
                  \A u \in m.event[s] : depth[m][u] < depth[m][s]

(* A trajectory is taken on, by a period or within one.                    *)
TakenOn(depth, t, u) ==
  \/ t.PeriodCount < u.PeriodCount /\ u.PeriodCount <= MaxPeriodCount
  \/ u.PeriodCount = t.PeriodCount /\ depth[mdp][u.state] < depth[mdp][t.state]

(* One trajectory, at its places before and after a step. *)
IsThat(i, j) == trajectories'[j].ExternalIndex = trajectories[i].ExternalIndex

SomeTakenOn(depth) ==
  /\ \E i, j \in Indices :
       IsThat(i, j) /\ TakenOn(depth, trajectories[i], trajectories'[j])
  /\ \A i, j \in Indices :
       IsThat(i, j) => \/ Same(trajectories[i], trajectories'[j])
                       \/ TakenOn(depth, trajectories[i], trajectories'[j])

AllSame ==
  \A i, j \in Indices : IsThat(i, j) => Same(trajectories[i], trajectories'[j])

(* The loop comes to its next part, or to the next trajectory, or back     *)
(* from skipping.                                                          *)
PartsLeft(label) ==
  CASE label \in {"until", "skip"}  -> 3
    [] label = "settled"           -> 2
    [] label \in {"act", "evolved"} -> 1
    [] OTHER                       -> 0

LoopGoesOn ==
  \/ PartsLeft(pc') < PartsLeft(pc)
  \/ pc' = pc /\ span' = span /\ at < at' /\ at' <= span + 1
  \/ pc = "skip" /\ pc' = "until" /\ span' = span /\ at' = at

CloserToEnd(depth) ==
  \/ stage = "warmup" /\ stage' = "main"
  \/ stage' = stage /\ (SomeTakenOn(depth) \/ (AllSame /\ LoopGoesOn))

LEMMA InTheirPlaces ==
  ASSUME CInv, NEW i \in Indices
  PROVE  /\ mdp \in MDPs /\ trajectories[i].state \in States
         /\ trajectories[i].Category = mdp.category[trajectories[i].state]
         /\ trajectories[i].PeriodCount \in Nat /\ MaxPeriodCount \in Nat
BY HorizonType DEF CInv, Shape, Trajs, InTime

(* A walk stands still or takes its trajectory on. *)
LEMMA WalkTakesOn ==
  ASSUME CInv, NEW depth, DecisionsEnd(depth), NEW i \in Indices, NEW u,
         WalksFromTo(trajectories[i], u)
  PROVE  Same(trajectories[i], u) \/ TakenOn(depth, trajectories[i], u)
<1> DEFINE t == trajectories[i]
<1>1. /\ mdp \in MDPs /\ t.state \in DOMAIN mdp.category
      /\ t.PeriodCount \in Nat /\ MaxPeriodCount \in Nat
  BY InTheirPlaces DEF States
<1> HIDE DEF t
<1>2. CASE /\ t.PeriodCount < MaxPeriodCount
           /\ mdp.category[t.state] = "AwaitEvent" /\ u.PeriodCount = t.PeriodCount + 1
  <2>1. t.PeriodCount < u.PeriodCount /\ u.PeriodCount <= MaxPeriodCount
    BY <1>1, <1>2
  <2> QED
    BY <2>1 DEF TakenOn, t
<1>3. CASE /\ mdp.category[t.state] = "AwaitExtraEvent" /\ u.PeriodCount = t.PeriodCount
           /\ u.state \in mdp.event[t.state]
  BY <1>1, <1>3 DEF DecisionsEnd, TakenOn, t
<1>4. CASE /\ mdp.category[t.state] = "AwaitAction" /\ u.PeriodCount = t.PeriodCount
           /\ \E a \in mdp.allowed[t.state] : u.state = mdp.action[<<t.state, a>>]
  BY <1>1, <1>4 DEF DecisionsEnd, TakenOn, t
<1> QED
  BY <1>2, <1>3, <1>4 DEF WalksFromTo, t

LEMMA SomeMoves ==
  ASSUME CInv, Next, NEW depth, DecisionsEnd(depth), NEW i \in Indices, IsThat(i, i),
         TakenOn(depth, trajectories[i], trajectories'[i])
  PROVE  SomeTakenOn(depth)
<1>1. ASSUME NEW k \in Indices, NEW j \in Indices, IsThat(k, j)
      PROVE  \/ Same(trajectories[k], trajectories'[j])
             \/ TakenOn(depth, trajectories[k], trajectories'[j])
  BY <1>1, NextWalks, WalkTakesOn DEF IsThat
<1> QED
  BY <1>1 DEF SomeTakenOn

(* An event takes a trajectory on, and so does an action. *)
LEMMA ActionTakesOn ==
  ASSUME CInv, NEW depth, DecisionsEnd(depth), NEW i \in Indices,
         IsAwaitAction(trajectories[i]), NEW a \in mdp.allowed[trajectories[i].state],
         trajectories'[i] = AfterAction(mdp, trajectories[i], a)
  PROVE  IsThat(i, i) /\ TakenOn(depth, trajectories[i], trajectories'[i])
<1>1. /\ trajectories'[i].state = mdp.action[<<trajectories[i].state, a>>]
      /\ trajectories'[i].PeriodCount = trajectories[i].PeriodCount
      /\ trajectories'[i].ExternalIndex = trajectories[i].ExternalIndex
  BY ActionLeads DEF CInv
<1>2. /\ mdp \in MDPs /\ trajectories[i].state \in DOMAIN mdp.category
      /\ mdp.category[trajectories[i].state] = "AwaitAction"
  BY InTheirPlaces DEF States, IsAwaitAction
<1> QED
  BY <1>1, <1>2 DEF DecisionsEnd, TakenOn, IsThat

LEMMA EventCloser ==
  ASSUME CInv, IncorporateEvent, NEW depth, DecisionsEnd(depth)
  PROVE  CloserToEnd(depth)
<1>1. /\ at \in Indices /\ GoesOn(trajectories[at], MaxPeriodCount)
      /\ Shape /\ InTime /\ stage' = stage
  BY Bounds DEF IncorporateEvent, Here, CInv, Phase, InLoop, Shape, batchVars
<1>2. PICK s \in mdp.event[trajectories[at].state] :
        trajectories' = [trajectories EXCEPT ![at] = AfterEvent(mdp, trajectories[at], s)]
  BY DEF IncorporateEvent, Here
<1> DEFINE u == AfterEvent(mdp, trajectories[at], s)
           t == trajectories[at]
<1>3. /\ u.state = s
      /\ u.PeriodCount = IF t.Category = "AwaitEvent" THEN t.PeriodCount + 1
                         ELSE t.PeriodCount
      /\ u.PeriodCount <= MaxPeriodCount
      /\ u.ExternalIndex = t.ExternalIndex
  BY <1>1, EventLeads
<1>4. trajectories'[at] = u
  BY <1>1, <1>2 DEF Shape
<1>5. /\ mdp \in MDPs /\ t.state \in DOMAIN mdp.category
      /\ t.Category = mdp.category[t.state] /\ t.PeriodCount \in Nat
      /\ t.Category \in {"AwaitEvent", "AwaitExtraEvent"}
  BY <1>1, InTheirPlaces DEF States, GoesOn, IsAwaitEvent
<1> HIDE DEF u, t
<1>6. TakenOn(depth, t, u)
  <2>1. CASE t.Category = "AwaitEvent"
    <3>1. u.PeriodCount = t.PeriodCount + 1
      BY <1>3, <2>1
    <3>2. t.PeriodCount < u.PeriodCount
      BY <1>5, <3>1
    <3> QED
      BY <1>3, <3>2 DEF TakenOn
  <2>2. CASE t.Category = "AwaitExtraEvent"
    <3>1. u.PeriodCount = t.PeriodCount /\ u.state \in mdp.event[t.state]
      BY <1>2, <1>3, <2>2 DEF t
    <3> QED
      BY <1>5, <2>2, <3>1 DEF DecisionsEnd, TakenOn
  <2> QED
    BY <1>5, <2>1, <2>2
<1>7. IsThat(at, at) /\ TakenOn(depth, trajectories[at], trajectories'[at])
  BY <1>3, <1>4, <1>6 DEF IsThat, t
<1>8. SomeTakenOn(depth)
  BY <1>1, <1>7, SomeMoves DEF Next
<1> QED
  BY <1>1, <1>8 DEF CloserToEnd

LEMMA SkipCloser ==
  ASSUME CInv, SkipTrivialAction, NEW depth, DecisionsEnd(depth)
  PROVE  CloserToEnd(depth)
<1>1. /\ at \in Indices /\ IsTrivial(mdp, trajectories[at])
      /\ Shape /\ InTime /\ stage' = stage
  BY Bounds DEF SkipTrivialAction, Here, CInv, Phase, InLoop, Shape, batchVars
<1> DEFINE a == CHOOSE x \in mdp.allowed[trajectories[at].state] : TRUE
<1>2. IsAwaitAction(trajectories[at]) /\ a \in mdp.allowed[trajectories[at].state]
  BY <1>1, TrivialAction
<1>3. trajectories' = [trajectories EXCEPT ![at] = AfterAction(mdp, trajectories[at], a)]
  BY DEF SkipTrivialAction, Here
<1>4. trajectories'[at] = AfterAction(mdp, trajectories[at], a)
  BY <1>1, <1>3 DEF Shape
<1> HIDE DEF a
<1>5. IsThat(at, at) /\ TakenOn(depth, trajectories[at], trajectories'[at])
  BY <1>1, <1>2, <1>4, ActionTakesOn
<1>6. SomeTakenOn(depth)
  BY <1>1, <1>5, SomeMoves DEF Next
<1> QED
  BY <1>1, <1>6 DEF CloserToEnd

(* The loop does not act on an empty span. *)
EInv == CInv /\ (pc = "act" => span # 0)

LEMMA InitEInv == Init => EInv
BY InitCInv DEF Init, EInv

LEMMA NextEInv == EInv /\ [Next]_vars => EInv'
<1> SUFFICES ASSUME EInv, [Next]_vars PROVE EInv'
  OBVIOUS
<1>1. CInv'
  BY NextCInv DEF EInv
<1>2. CASE Settle
  <2>1. pc' = "act" => span' # 0
    BY <1>2 DEF Settle, AfterSettling
  <2> QED
    BY <1>1, <2>1 DEF EInv
<1>3. CASE Next /\ ~ Settle
  <2>1. pc' # "act"
    BY <1>3 DEF Next, IncorporateEvent, SkipTrivialAction, SkippingEnds, NextTrajectory,
       UntilReturns, Act, WarmupEnds, EvolutionEnds, Ended, Until, vars
  <2> QED
    BY <1>1, <2>1 DEF EInv
<1>4. CASE UNCHANGED vars
  BY <1>1, <1>4 DEF EInv, vars
<1> QED
  BY <1>2, <1>3, <1>4

LEMMA ActCloser ==
  ASSUME EInv, Act, NEW depth, DecisionsEnd(depth)
  PROVE  CloserToEnd(depth)
<1>1. /\ pc = "act" /\ Shape /\ CInv /\ stage' = stage /\ span # 0
      /\ \A u \in 1 .. span : IsAwaitAction(trajectories[u])
  BY DEF Act, EInv, CInv, Phase
<1>2. PICK a : /\ \A u \in 1 .. span : a[u] \in Choices(u)
               /\ trajectories' =
                    [u \in Indices |->
                       IF u <= span THEN AfterAction(mdp, trajectories[u], a[u])
                                    ELSE trajectories[u]]
  BY <1>1 DEF Act
<1>3. 1 \in 1 .. span /\ 1 \in Indices /\ 1 <= span
  BY <1>1, Bounds DEF Shape
<1>4. /\ IsAwaitAction(trajectories[1]) /\ a[1] \in mdp.allowed[trajectories[1].state]
      /\ trajectories'[1] = AfterAction(mdp, trajectories[1], a[1])
  BY <1>1, <1>2, <1>3 DEF Choices
<1>5. IsThat(1, 1) /\ TakenOn(depth, trajectories[1], trajectories'[1])
  BY <1>1, <1>3, <1>4, ActionTakesOn
<1>6. SomeTakenOn(depth)
  BY <1>1, <1>3, <1>5, SomeMoves DEF Next
<1> QED
  BY <1>1, <1>6 DEF CloserToEnd

(* All other steps leave the trajectories as they are. *)
LEMMA LoopCloser ==
  ASSUME CInv, NEW depth,
         SkippingEnds \/ NextTrajectory \/ UntilReturns \/ EvolutionEnds
  PROVE  CloserToEnd(depth)
<1>1. trajectories' = trajectories /\ stage' = stage
  BY DEF SkippingEnds, NextTrajectory, UntilReturns, EvolutionEnds, batchVars
<1>2. AllSame
  BY <1>1 DEF CInv, OneOfEach, AllSame, IsThat, Same
<1>3. SUFFICES LoopGoesOn
  BY <1>1, <1>2 DEF CloserToEnd
<1>4. CASE SkippingEnds
  BY <1>4 DEF SkippingEnds, LoopGoesOn, batchVars
<1>5. CASE NextTrajectory
  <2>1. at < at + 1 /\ at + 1 <= span + 1
    BY <1>5 DEF NextTrajectory, CInv, Shape
  <2> QED
    BY <1>5, <2>1 DEF NextTrajectory, LoopGoesOn, batchVars
<1>6. CASE UntilReturns
  BY <1>6 DEF UntilReturns, LoopGoesOn, PartsLeft
<1>7. CASE EvolutionEnds
  BY <1>7 DEF EvolutionEnds, LoopGoesOn, PartsLeft
<1> QED
  BY <1>4, <1>5, <1>6, <1>7

LEMMA SettleCloser ==
  ASSUME CInv, Settle, NEW depth
  PROVE  CloserToEnd(depth)
<1>1. AllSame
  BY SettleWalks DEF AllSame, IsThat
<1>2. pc = "settled" /\ pc' \in {"act", "evolved"} /\ stage' = stage
  BY DEF Settle, AfterSettling
<1>3. LoopGoesOn
  BY <1>2 DEF LoopGoesOn, PartsLeft
<1> QED
  BY <1>1, <1>2, <1>3 DEF CloserToEnd

LEMMA WarmupCloser ==
  ASSUME CInv, WarmupEnds, NEW depth
  PROVE  CloserToEnd(depth)
<1>1. CASE stage' = "main"
  BY <1>1 DEF WarmupEnds, CloserToEnd
<1>2. CASE pc' = "threw" /\ stage' = stage
  <2>1. trajectories' = trajectories /\ pc = "evolved"
    BY DEF WarmupEnds
  <2>2. AllSame
    BY <2>1 DEF CInv, OneOfEach, AllSame, IsThat, Same
  <2>3. LoopGoesOn
    BY <1>2, <2>1 DEF LoopGoesOn, PartsLeft
  <2> QED
    BY <1>2, <2>2, <2>3 DEF CloserToEnd
<1> QED
  BY <1>1, <1>2 DEF WarmupEnds

(* The way to the end is finite: in MDPs whose decisions end, every step   *)
(* of an evaluation ends the warm-up, or takes a trajectory on by a period *)
(* or within one and sets none back, wherever the partition moves it, or   *)
(* brings the loops on while it leaves all trajectories as they are.       *)
(* EvaluationEnds then rests on nothing but the scheduling of the thread.  *)
THEOREM EvaluationIsFinite ==
  ASSUME NEW CONSTANT depth, DecisionsEnd(depth)
  PROVE  Spec => [][CloserToEnd(depth)]_vars
<1>1. EInv /\ [Next]_vars => [CloserToEnd(depth)]_vars
  BY EventCloser, SkipCloser, LoopCloser, SettleCloser, ActCloser, WarmupCloser
     DEF EInv, Next, Ended
<1> QED
  BY InitEInv, NextEInv, <1>1, PTL DEF Spec
=============================================================================
