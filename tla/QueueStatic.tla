----------------------------- MODULE QueueStatic -----------------------------
(***************************************************************************)
(* The static data of a queue_mdp instance and the pure functions that its *)
(* two managers (multi_queue and ServerDynamicState) compute from a state: *)
(* heads of line, free capacity, the candidate queue with its labels, the  *)
(* next event, and the ages Koole's sampler may reveal.                    *)
(*                                                                         *)
(* Types and pools keep the code's indices 0, 1, ...: every tie-break and  *)
(* every cumulative scan of the code goes by index.  Rates are naturals: a *)
(* rate r stands for r unit slots of the interval the event sample falls   *)
(* into (the code's doubles, without their rounding).                      *)
(***************************************************************************)
EXTENDS Integers, Sequences, FiniteSets

CONSTANTS
  NJobs,          \* n_jobs
  KServers,       \* k_servers, the number of server pools
  Servers,        \* Servers[k]: capacity of pool k
  CanServe,       \* CanServe[k]: the types pool k can serve
  ArrivalRate,    \* ArrivalRate[n]
  TickRate,       \* tick_rate
  Mu,             \* Mu[k][n]: rate at which one server of pool k serves type n
  CostRate,       \* CostRate[n]
  DueTime,        \* DueTime[n], in ticks
  Depth,          \* max_queue_depth, tracked positions per type
  SortDescending, \* action_sort: TRUE for "fifo", FALSE for "reverse_fifo"
  PerEventMode,   \* action_mode: TRUE for "per_event", FALSE for "candidate_queue"
  EnableSkipAll,  \* enable_skip_all: a policy may skip the whole rest of the queue
  ForceLateService, \* force_late_service: heads past their due time must be served
  MaxAge          \* bound of the model: no tick ages a job beyond MaxAge

Jobs  == 0 .. NJobs - 1
Pools == 0 .. KServers - 1
None  == -1

ASSUME StaticAssumption ==
  /\ NJobs \in Nat \ {0}
  /\ KServers \in Nat \ {0}
  /\ Servers \in [Pools -> Nat \ {0}]
  /\ CanServe \in [Pools -> SUBSET Jobs]
  /\ ArrivalRate \in [Jobs -> Nat \ {0}]
  /\ TickRate \in Nat \ {0}
  /\ Mu \in [Pools -> [Jobs -> Nat]]
  /\ CostRate \in [Jobs -> Nat]
  /\ Depth \in Nat \ {0}
  /\ DueTime \in [Jobs -> Nat]
  /\ {SortDescending, PerEventMode, EnableSkipAll, ForceLateService} \subseteq BOOLEAN
  /\ PerEventMode => SortDescending /\ ~EnableSkipAll     \* the constructor throws
  /\ ForceLateService => PerEventMode                     \* otherwise
  /\ MaxAge \in Nat

-----------------------------------------------------------------------------
(***************************************************************************)
(* Counting.  Total(f, S) is the sum of the naturals f[x], x \in S, as the *)
(* number of unit tokens <<x, 1>>, ..., <<x, f[x]>>; Ranked(S, R) lists    *)
(* the finite set S in the strict total order R (a set of pairs).  Neither *)
(* needs recursion, so that facts about them can be proved.                *)
(***************************************************************************)
Tokens(f, S) == UNION {{x} \X (1 .. f[x]) : x \in S}
Total(f, S)  == Cardinality(Tokens(f, S))

Below(S, R, x) == {y \in S : <<y, x>> \in R}
Ranked(S, R)   == [i \in 1 .. Cardinality(S) |->
                     CHOOSE x \in S : Cardinality(Below(S, R, x)) = i - 1]

Least(S) == CHOOSE x \in S : \A y \in S : x <= y

-----------------------------------------------------------------------------
(* The waiting room.  w[n] lists the tracked ages of type n, oldest first. *)
FIL(w)        == [n \in Jobs |-> IF w[n] = <<>> THEN None ELSE Head(w[n])]
NotFull(w, n) == Len(w[n]) < Depth
OpenRate(w)   == Total(ArrivalRate, {n \in Jobs : NotFull(w, n)})

(* Deliberate faults stand before the definition they would replace; the    *)
(* mutation runs show which property notices.                              *)
AgedSaturating(w) == [n \in Jobs |-> [i \in DOMAIN w[n] |-> IF w[n][i] = 0 THEN 1 ELSE w[n][i]]]

Aged(w) == [n \in Jobs |-> [i \in DOMAIN w[n] |-> w[n][i] + 1]]

(***************************************************************************)
(* complete_job: the head leaves, the positions behind it move up, and the *)
(* sampler says who stands at the bottom: nobody behind a job that arrived *)
(* this tick, otherwise a job that has waited between one tick and as long *)
(* as the deepest tracked one, or nobody.                                  *)
(***************************************************************************)
BottomsOneTooOld(q) == LET deepest == q[Len(q)]
                       IN  IF deepest = 0 THEN {None} ELSE {None} \cup 1 .. deepest + 1

Bottoms(q) == LET deepest == q[Len(q)]
              IN  IF deepest = 0 THEN {None} ELSE {None} \cup 1 .. deepest
RevealedEvenIfNobody(q, bottom) == Append(Tail(q), bottom)
RevealedInFront(q, bottom)      == IF bottom = None THEN Tail(q) ELSE <<bottom>> \o Tail(q)

Revealed(q, bottom) == IF bottom = None THEN Tail(q) ELSE Append(Tail(q), bottom)

-----------------------------------------------------------------------------
(* The pools.  b[k][n] servers of pool k are busy with type n. *)
BusyIn(b, k)        == Total(b[k], Jobs)
Capacity(b, k)      == Servers[k] - BusyIn(b, k)
CanAssignByType(b, k, n) == n \in CanServe[k] /\ b[k][n] < Servers[k]
CanAssign(b, k, n)  == n \in CanServe[k] /\ BusyIn(b, k) < Servers[k]

AssignJob(b, k, n) ==
  IF n \in CanServe[k] /\ b[k][n] < Servers[k]
  THEN [b EXCEPT ![k][n] = @ + 1] ELSE b

CompleteEveryJob(b, k, n) == [b EXCEPT ![k][n] = 0]
CompleteJob(b, k, n) ==
  IF n \in CanServe[k] /\ b[k][n] > 0
  THEN [b EXCEPT ![k][n] = @ - 1] ELSE b

-----------------------------------------------------------------------------
(***************************************************************************)
(* The candidate queue: every (pool, type) pair that could start now, by   *)
(* age of the head (oldest first, or newest first), then pool, then type,  *)
(* each with its three hints.  A hint says that fewer than the pool's free *)
(* servers have a strictly better candidate.                               *)
(***************************************************************************)
CandidatesEmptyLine(w, b) == {c \in Pools \X Jobs : CanAssign(b, c[1], c[2])}

Candidates(w, b) ==
  {c \in Pools \X Jobs : FIL(w)[c[2]] >= 0 /\ CanAssign(b, c[1], c[2])}

PrecedesByPool(fil, c, d) == c[1] < d[1] \/ (c[1] = d[1] /\ c[2] < d[2])

Precedes(fil, c, d) ==
  \/ IF SortDescending THEN fil[c[2]] > fil[d[2]] ELSE fil[c[2]] < fil[d[2]]
  \/ fil[c[2]] = fil[d[2]] /\ c[1] < d[1]
  \/ fil[c[2]] = fil[d[2]] /\ c[1] = d[1] /\ c[2] < d[2]

PresentationOrder(fil, C) == {p \in C \X C : Precedes(fil, p[1], p[2])}

CMu(k, n) == CostRate[n] * Mu[k][n]

LabelledByPoolSize(w, b, c) ==
  LET rivals  == {m \in Jobs : <<c[1], m>> \in Candidates(w, b)}
      wins(S) == Cardinality(S) < Servers[c[1]]
      fil     == FIL(w)
  IN  [k |-> c[1], n |-> c[2],
       fifo |-> wins({m \in rivals : fil[m] > fil[c[2]]}),
       cmu  |-> wins({m \in rivals : CMu(c[1], m) > CMu(c[1], c[2])}),
       rfq  |-> wins({m \in rivals : fil[m] < fil[c[2]]})]

LabelledTiesLose(w, b, c) ==
  LET rivals  == {m \in Jobs : <<c[1], m>> \in Candidates(w, b)} \ {c[2]}
      wins(S) == Cardinality(S) < Capacity(b, c[1])
      fil     == FIL(w)
  IN  [k |-> c[1], n |-> c[2],
       fifo |-> wins({m \in rivals : fil[m] >= fil[c[2]]}),
       cmu  |-> wins({m \in rivals : CMu(c[1], m) >= CMu(c[1], c[2])}),
       rfq  |-> wins({m \in rivals : fil[m] <= fil[c[2]]})]

Labelled(w, b, c) ==
  LET rivals  == {m \in Jobs : <<c[1], m>> \in Candidates(w, b)}
      wins(S) == Cardinality(S) < Capacity(b, c[1])
      fil     == FIL(w)
  IN  [k    |-> c[1],
       n    |-> c[2],
       fifo |-> wins({m \in rivals : fil[m] > fil[c[2]]}),
       cmu  |-> wins({m \in rivals : CMu(c[1], m) > CMu(c[1], c[2])}),
       rfq  |-> wins({m \in rivals : fil[m] < fil[c[2]]})]

CandidateQueue(w, b) ==
  LET C == Candidates(w, b)
      s == Ranked(C, PresentationOrder(FIL(w), C))
  IN  [i \in 1 .. Cardinality(C) |-> Labelled(w, b, s[i])]

(***************************************************************************)
(* The per-event queue: one unlabelled entry per free server of every pool *)
(* that could serve some waiting type, pool by pool.                       *)
(***************************************************************************)
Feasible(w, k) == \E n \in CanServe[k] : FIL(w)[n] >= 0

IdleUnits(w, b) ==
  UNION {{k} \X (1 .. Capacity(b, k)) : k \in {p \in Pools : Feasible(w, p)}}

PoolMajor(U) ==
  {p \in U \X U : \/ p[1][1] < p[2][1]
                  \/ p[1][1] = p[2][1] /\ p[1][2] < p[2][2]}

UnitEntry(k) == [k |-> k, n |-> None, fifo |-> FALSE, cmu |-> FALSE, rfq |-> FALSE]

UnitQueue(w, b) ==
  LET U == IdleUnits(w, b)
      s == Ranked(U, PoolMajor(U))
  IN  [i \in 1 .. Cardinality(U) |-> UnitEntry(s[i][1])]

GenerateActions(w, b) == IF PerEventMode THEN UnitQueue(w, b) ELSE CandidateQueue(w, b)

Entry == [k : Pools, n : Jobs \cup {None}, fifo : BOOLEAN, cmu : BOOLEAN, rfq : BOOLEAN]

(***************************************************************************)
(* take_action(1): start the current candidate, drop the entries that can  *)
(* no longer start, and point the counter behind the leading entries that  *)
(* had been presented before.                                              *)
(***************************************************************************)
Kept(q, b)  == {i \in DOMAIN q : CanAssign(b, q[i].k, q[i].n)}
Prune(q, b) ==
  LET S == Kept(q, b)
      s == Ranked(S, {p \in S \X S : p[1] < p[2]})
  IN  [i \in 1 .. Cardinality(S) |-> q[s[i]]]

TakeAction(q, c, b) ==
  LET e         == q[c + 1]
      busy      == AssignJob(b, e.k, e.n)
      pruned    == Prune(q, busy)
      presented == {<<q[i].k, q[i].n>> : i \in 1 .. c + 1}
      leading   == {i \in DOMAIN pruned :
                      \A j \in 1 .. i : <<pruned[j].k, pruned[j].n>> \in presented}
  IN  [busy |-> busy, queue |-> pruned, counter |-> Cardinality(leading)]

-----------------------------------------------------------------------------
(***************************************************************************)
(* Uniformization.  The event sample is one of the Lambda unit slots; the  *)
(* slots are handed out to the open arrivals, the tick and the busy        *)
(* servers in that order, what is left over is "nothing".  arr is the      *)
(* incrementally maintained total_arrival_rate, which the scan trusts.     *)
(***************************************************************************)
FastestMu(k) == CHOOSE m \in {Mu[k][n] : n \in Jobs} : \A n \in Jobs : Mu[k][n] <= m

UniformizationRate ==
  TickRate + Total(ArrivalRate, Jobs)
           + Total([k \in Pools |-> FastestMu(k) * Servers[k]], Pools)

ServiceRate(b) == [c \in Pools \X Jobs |-> b[c[1]][c[2]] * Mu[c[1]][c[2]]]
Slot(c)        == c[1] * NJobs + c[2]

Nothing         == [type |-> "Nothing"]
Tick            == [type |-> "Tick"]
Arrival(n)      == [type |-> "Arrival", n |-> n]
Completion(k, n) == [type |-> "JobCompletion", k |-> k, n |-> n]

ArrivalHitFullToo(w, u) ==
  {n \in Jobs : u < Total(ArrivalRate, 0 .. n)}

ArrivalHit(w, u) ==
  {n \in Jobs : NotFull(w, n) /\ u < Total(ArrivalRate, {m \in 0 .. n : NotFull(w, m)})}

CompletionHit(b, u) ==
  {c \in Pools \X Jobs :
     /\ c[2] \in CanServe[c[1]]
     /\ u < Total(ServiceRate(b), {d \in Pools \X Jobs : Slot(d) <= Slot(c)
                                                       /\ d[2] \in CanServe[d[1]]})}

GetEventType(u, w, b, arr) ==
  LET served == CompletionHit(b, u - arr - TickRate)
      first  == CHOOSE c \in served : \A d \in served : Slot(c) <= Slot(d)
  IN  IF u < arr
      THEN IF ArrivalHit(w, u) = {} THEN Nothing ELSE Arrival(Least(ArrivalHit(w, u)))
      ELSE IF u < arr + TickRate THEN Tick
      ELSE IF served = {} THEN Nothing ELSE Completion(first[1], first[2])
=============================================================================
