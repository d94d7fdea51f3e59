------------------------------ MODULE QueueMDP ------------------------------
(***************************************************************************)
(* The queue_mdp simulator: jobs of several types wait for pools of        *)
(* servers, and a policy decides which of them start.  In action mode      *)
(* "candidate_queue" it is shown one (pool, type) candidate at a time, to  *)
(* serve or to skip; in mode "per_event" each idle server in turn serves a *)
(* type of the policy's choice or idles.                                   *)
(*                                                                         *)
(* The chain alternates between AwaitAction, where the policy decides      *)
(* about action_queue[action_counter], and AwaitEvent, where either the    *)
(* head of the line just served is refreshed (next_fil_job_type # None) or *)
(* one event of the uniformized process happens.                           *)
(***************************************************************************)
EXTENDS QueueStatic

VARIABLES
  waiting,            \* waiting[n]: ages of the tracked jobs of type n, oldest first
  total_arrival_rate, \* rate of the types that still accept arrivals, kept incrementally
  busy_on,            \* busy_on[k][n]: servers of pool k serving type n
  action_queue,       \* the labelled candidates of the current epoch
  action_counter,     \* candidates presented so far (the code's 0-based index)
  next_fil_job_type,  \* type whose head is to be refreshed, or None
  cat                 \* whose move it is

vars == <<waiting, total_arrival_rate, busy_on, action_queue, action_counter,
          next_fil_job_type, cat>>

TypeOK ==
  /\ waiting \in [Jobs -> Seq(Nat)]
  /\ total_arrival_rate \in Int
  /\ busy_on \in [Pools -> [Jobs -> Nat]]
  /\ action_queue \in Seq(Entry)
  /\ action_counter \in Nat
  /\ next_fil_job_type \in Jobs \cup {None}
  /\ cat \in {"AwaitAction", "AwaitEvent"}

Init ==
  /\ waiting = [n \in Jobs |-> <<>>]
  /\ total_arrival_rate = Total(ArrivalRate, Jobs)
  /\ busy_on = [k \in Pools |-> [n \in Jobs |-> 0]]
  /\ action_queue = <<>>
  /\ action_counter = 0
  /\ next_fil_job_type = None
  /\ cat = "AwaitEvent"

-----------------------------------------------------------------------------
Deciding == cat = "AwaitAction" /\ action_counter < Len(action_queue)
Current  == action_queue[action_counter + 1]

(***************************************************************************)
(* IsAllowedAction.  Candidate queue: 0 skips, 1 serves, 2 skips the rest. *)
(* Per event: 0 idles, a >= 1 serves type a - 1; but if heads this server  *)
(* can serve are late and late service is forced, only the oldest of them  *)
(* (of equals the lowest type) is allowed.                                 *)
(***************************************************************************)
LateFor(k) ==
  {n \in Jobs : /\ ForceLateService
                /\ FIL(waiting)[n] > DueTime[n]
                /\ CanAssign(busy_on, k, n)}

Forced(k) ==
  Least({n \in LateFor(k) : \A m \in LateFor(k) : FIL(waiting)[m] <= FIL(waiting)[n]})

ServesStartable(a) ==
  /\ a - 1 \in Jobs
  /\ waiting[a - 1] # <<>>
  /\ CanAssign(busy_on, Current.k, a - 1)

IsAllowedNeverForced(a) == a = 0 \/ ServesStartable(a)
IsAllowedPerEvent(a) ==
  IF LateFor(Current.k) # {}
  THEN a = Forced(Current.k) + 1
  ELSE a = 0 \/ ServesStartable(a)

IsAllowedCandidate(a) ==
  \/ a = 0
  \/ a = 1 /\ CanAssign(busy_on, Current.k, Current.n)
  \/ a = 2 /\ EnableSkipAll

IsAllowedAction(a) ==
  IF PerEventMode THEN IsAllowedPerEvent(a) ELSE IsAllowedCandidate(a)

-----------------------------------------------------------------------------
(* A new epoch: the queue is built from the state and presented from its top. *)
StartEpoch(w, b) ==
  /\ action_queue' = GenerateActions(w, b)
  /\ action_counter' = 0
  /\ cat' = IF action_queue' = <<>> THEN "AwaitEvent" ELSE "AwaitAction"

(* A tick or an empty slot re-presents whatever queue there is. *)
Represent ==
  /\ cat' = IF action_queue = <<>> THEN "AwaitEvent" ELSE "AwaitAction"
  /\ UNCHANGED <<action_queue, action_counter>>

AdvancePastTheEnd(c) ==
  IF c <= Len(action_queue)
  THEN action_counter' = c /\ cat' = "AwaitAction"
  ELSE action_counter' = 0 /\ cat' = "AwaitEvent"
AdvanceWithoutReset(c) ==
  /\ action_counter' = c
  /\ cat' = IF c < Len(action_queue) THEN "AwaitAction" ELSE "AwaitEvent"
AdvanceRoundAgain(c) ==
  /\ action_counter' = IF c < Len(action_queue) THEN c ELSE 0
  /\ cat' = "AwaitAction"

(* On to the entry with index c, or out of the epoch if there is none. *)
Advance(c) ==
  IF c < Len(action_queue)
  THEN action_counter' = c /\ cat' = "AwaitAction"
  ELSE action_counter' = 0 /\ cat' = "AwaitEvent"

-----------------------------------------------------------------------------
(* ModifyStateWithAction: serve the candidate, serve type n, or pass over  *)
(* the entry.  None of them asks whether the action is allowed: that is    *)
(* left to who decides.                                                    *)
StartCandidate ==
  LET taken == TakeAction(action_queue, action_counter, busy_on)
  IN  /\ ~PerEventMode
      /\ Deciding
      /\ next_fil_job_type' = Current.n
      /\ busy_on' = taken.busy
      /\ action_queue' = taken.queue
      /\ action_counter' = taken.counter
      /\ cat' = "AwaitEvent"
      /\ UNCHANGED <<waiting, total_arrival_rate>>

StartType(n) ==
  /\ PerEventMode
  /\ Deciding
  /\ next_fil_job_type' = n
  /\ busy_on' = AssignJob(busy_on, Current.k, n)
  /\ action_counter' = action_counter + 1
  /\ cat' = "AwaitEvent"
  /\ UNCHANGED <<waiting, total_arrival_rate, action_queue>>

PassOver ==
  /\ Deciding
  /\ Advance(action_counter + 1)
  /\ UNCHANGED <<waiting, total_arrival_rate, busy_on, action_queue, next_fil_job_type>>

(* The decisions of whoever keeps to the allowed actions. *)
Serve        == StartCandidate /\ IsAllowedAction(1)
ServeType(n) == StartType(n) /\ IsAllowedAction(n + 1)
Skip         == PassOver /\ IsAllowedAction(0)

SkipAll ==
  /\ ~PerEventMode
  /\ Deciding
  /\ IsAllowedAction(2)
  /\ action_counter' = 0
  /\ cat' = "AwaitEvent"
  /\ UNCHANGED <<waiting, total_arrival_rate, busy_on, action_queue, next_fil_job_type>>

-----------------------------------------------------------------------------
(***************************************************************************)
(* ModifyStateWithEvent: a pending refresh comes before any event.  In the *)
(* candidate queue it starts a new epoch; per event it resumes the epoch   *)
(* at the next server, with the queue as it was built.                     *)
(***************************************************************************)
RateAlwaysReopens(wasFull, n) ==
  IF NotFull(waiting', n) THEN total_arrival_rate + ArrivalRate[n] ELSE total_arrival_rate

RateAfterRefresh(wasFull, n) ==
  IF wasFull /\ NotFull(waiting', n)
  THEN total_arrival_rate + ArrivalRate[n] ELSE total_arrival_rate

FilRefresh ==
  LET n == next_fil_job_type
      q == waiting[n]
  IN  /\ cat = "AwaitEvent"
      /\ n # None
      /\ q # <<>>
      /\ \E bottom \in Bottoms(q) :
           /\ waiting' = [waiting EXCEPT ![n] = Revealed(q, bottom)]
           /\ total_arrival_rate' = RateAfterRefresh(Len(q) = Depth, n)
      /\ next_fil_job_type' = None
      /\ IF PerEventMode
         THEN Advance(action_counter) /\ UNCHANGED action_queue
         ELSE StartEpoch(waiting', busy_on)
      /\ UNCHANGED busy_on

HandleArrival(n) ==
  /\ waiting' = IF NotFull(waiting, n)
                THEN [waiting EXCEPT ![n] = Append(@, 0)] ELSE waiting
  /\ total_arrival_rate' =
       IF NotFull(waiting, n) /\ ~NotFull(waiting', n)
       THEN total_arrival_rate - ArrivalRate[n]
       ELSE total_arrival_rate
  /\ StartEpoch(waiting', busy_on)
  /\ UNCHANGED <<busy_on, next_fil_job_type>>

HandleCompletion(k, n) ==
  /\ busy_on' = CompleteJob(busy_on, k, n)
  /\ StartEpoch(waiting, busy_on')
  /\ UNCHANGED <<waiting, total_arrival_rate, next_fil_job_type>>

HandleTick ==
  /\ \A n \in Jobs : FIL(waiting)[n] < MaxAge          \* bound of the model
  /\ waiting' = Aged(waiting)
  /\ Represent
  /\ UNCHANGED <<total_arrival_rate, busy_on, next_fil_job_type>>

HandleNothing ==
  /\ Represent
  /\ UNCHANGED <<waiting, total_arrival_rate, busy_on, next_fil_job_type>>

HandleEvent(e) ==
  \/ e.type = "Arrival"       /\ HandleArrival(e.n)
  \/ e.type = "JobCompletion" /\ HandleCompletion(e.k, e.n)
  \/ e.type = "Tick"          /\ HandleTick
  \/ e.type = "Nothing"       /\ HandleNothing

EventAt(u) == GetEventType(u, waiting, busy_on, total_arrival_rate)

Happens(u) ==
  /\ cat = "AwaitEvent"
  /\ next_fil_job_type = None
  /\ HandleEvent(EventAt(u))

UniformizedEvent == \E u \in 0 .. UniformizationRate - 1 : Happens(u)

-----------------------------------------------------------------------------
Decide == Serve \/ (\E n \in Jobs : ServeType(n)) \/ Skip \/ SkipAll

Next == Decide \/ FilRefresh \/ UniformizedEvent

Spec == Init /\ [][Next]_vars

(***************************************************************************)
(* The driver never stops stepping a trajectory, and keeps drawing events. *)
(***************************************************************************)
FairSpec == Spec /\ WF_vars(Next)
-----------------------------------------------------------------------------
(***************************************************************************)
(* Safety.                                                                 *)
(***************************************************************************)

(* Rest: no refresh is pending, so queue and counters describe the state. *)
AtRest == next_fil_job_type = None

(* No pool ever has more servers busy than it has, although assign_job     *)
(* only compares the count of one type with the pool's size: the guard is  *)
(* in the candidates, which must not be stale when one of them is served.  *)
PoolCapacity == \A k \in Pools : BusyIn(busy_on, k) <= Servers[k]

(* total_arrival_rate, kept by additions and subtractions in arrival and   *)
(* complete_job, is the rate of exactly the types whose line is not full.  *)
ArrivalRateExact == total_arrival_rate = OpenRate(waiting)

(* Every event has its own rate: of the slots of the event sample, each    *)
(* open type gets its arrival rate, the tick its rate, each (pool, type)   *)
(* the rate of its busy servers, and the rest, never negative, is nothing. *)
SlotsOf(e) == Cardinality({u \in 0 .. UniformizationRate - 1 : EventAt(u) = e})

UniformizationExact ==
  AtRest =>
    /\ \A n \in Jobs :
         SlotsOf(Arrival(n)) = IF NotFull(waiting, n) THEN ArrivalRate[n] ELSE 0
    /\ SlotsOf(Tick) = TickRate
    /\ \A k \in Pools, n \in Jobs :
         SlotsOf(Completion(k, n)) = busy_on[k][n] * Mu[k][n]

(* The queue shown to a policy is the one the current state generates,     *)
(* order and labels included, although ticks and empty slots show it again *)
(* without regenerating it.                                                *)
QueueFresh == (AtRest /\ ~PerEventMode) => action_queue = GenerateActions(waiting, busy_on)

(* Whenever a policy is asked, there is an entry to ask about.  In the     *)
(* candidate queue serving it is allowed (so a policy that always serves   *)
(* is legal) and a job of its type waits.                                  *)
DecisionLegal ==
  cat = "AwaitAction" =>
    /\ AtRest
    /\ action_counter < Len(action_queue)
    /\ ~PerEventMode => IsAllowedAction(1) /\ waiting[Current.n] # <<>>

(* "The assignment is FORCED": with force_late_service the process is      *)
(* never let go on while a free server could start a job past its due      *)
(* time, although the queue of servers to ask is not rebuilt after serves, *)
(* ticks and refreshes.                                                    *)
LateNeverWaits ==
  (cat = "AwaitEvent" /\ AtRest) => \A k \in Pools : LateFor(k) = {}

(* A pending refresh finds its line non-empty (complete_job would throw)   *)
(* and is for a job some pool has just started.                            *)
RefreshSound ==
  ~AtRest =>
    /\ cat = "AwaitEvent"
    /\ waiting[next_fil_job_type] # <<>>
    /\ \E k \in Pools : busy_on[k][next_fil_job_type] > 0

(* Between epochs the counter is back at the top of the queue, so that a   *)
(* re-presentation starts with the first candidate.                        *)
CounterReset == (cat = "AwaitEvent" /\ AtRest) => action_counter = 0

(* FIL >= SIL >= TIL: the tracked ages never increase along a line, and no *)
(* line holds more positions than are tracked.                             *)
LineInOrder ==
  \A n \in Jobs :
    /\ Len(waiting[n]) <= Depth
    /\ \A i, j \in DOMAIN waiting[n] : i < j => waiting[n][i] >= waiting[n][j]

-----------------------------------------------------------------------------
(***************************************************************************)
(* Action properties.                                                      *)
(***************************************************************************)

(* Refreshing a head never lets the line's deepest age grow: whoever is    *)
(* revealed arrived no earlier than the last job that was tracked.         *)
RevealedIsYounger ==
  [][\A n \in Jobs :
       (next_fil_job_type = n /\ waiting'[n] # <<>>) =>
          waiting'[n][Len(waiting'[n])] <= waiting[n][Len(waiting[n])]]_vars

(* "A deque that stores ONLY the ages of present jobs": while a line is    *)
(* not full every waiting job of the type is tracked, so serving its head  *)
(* leaves one job less.                                                    *)
StoresOnlyPresentJobs ==
  [][\A n \in Jobs :
       (next_fil_job_type = n /\ NotFull(waiting, n)) =>
          Len(waiting'[n]) = Len(waiting[n]) - 1]_vars

-----------------------------------------------------------------------------
(* In either action mode, and whatever a policy does, the chain is a       *)
(* multi-skill service system: heads start only on free, skilled servers,  *)
(* lines only shift, and nothing else moves while a head is being revealed.*)
MSQ == INSTANCE MultiSkillQueue
         WITH line <- waiting, inService <- busy_on, revealing <- next_fil_job_type

ImplementsMultiSkillQueue == MSQ!AbstractSpec

(* Every decision epoch ends: however the policy decides, the chain keeps  *)
(* returning to states in which the next event of the process can happen.  *)
EpochsEnd == []<>(cat = "AwaitEvent" /\ AtRest)
=============================================================================
