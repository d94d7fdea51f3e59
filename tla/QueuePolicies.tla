---------------------------- MODULE QueuePolicies ----------------------------
(***************************************************************************)
(* The heuristics queue_mdp registers, each run on the simulator: the      *)
(* decision they take at the current entry, and what the decisions add up  *)
(* to over an epoch.  policy is fixed at the start of a behaviour.         *)
(***************************************************************************)
EXTENDS QueueMDP

VARIABLES
  policy,  \* the heuristic that decides
  draws    \* draws[i]: what stochastic_draws[i] says about the entry with index i:
           \* "skip" or "serve", or "unread" before it is first compared

policyVars == <<waiting, total_arrival_rate, busy_on, action_queue,
                action_counter, next_fil_job_type, cat, policy, draws>>

(* One draw per candidate there can be, settled when it is first compared  *)
(* with the threshold (only then do its two outcomes differ).              *)
Unread == [i \in 0 .. KServers * NJobs - 1 |-> "unread"]

(* The constructors of the policies that per-event mode does not support throw. *)
Policies == IF PerEventMode
            THEN {"FIFO policy", "cmu"}
            ELSE {"FIFO policy", "stochastic_FIFO", "cmu", "reverse_fifo", "enforced_fifo"}

Deterministic == policy # "stochastic_FIFO"

PolicyInit == Init /\ policy \in Policies /\ draws = Unread

-----------------------------------------------------------------------------
(***************************************************************************)
(* GetAction.  In per-event mode the choice is the type with the largest   *)
(* key among the jobs this server may start, the first one of equals, or 0.*)
(***************************************************************************)
StartableIfAnyServer == {n \in Jobs : waiting[n] # <<>> /\ n \in CanServe[Current.k]}
Startable == {n \in Jobs : waiting[n] # <<>> /\ CanAssign(busy_on, Current.k, n)}
Permitted == {n \in Jobs : IsAllowedAction(n + 1)}

FirstOfAll(S, key)   == Least(S)
FirstLargest(S, key) == Least({n \in S : \A m \in S : key[m] <= key[n]})
ServeBestAboveZero(S, key) ==
  IF {n \in S : key[n] > 0} = {} THEN 0 ELSE FirstLargest(S, key) + 1
ServeBest(S, key)    == IF S = {} THEN 0 ELSE FirstLargest(S, key) + 1

PerEventAction ==
  IF policy = "FIFO policy"
  THEN ServeBest(Startable, FIL(waiting))
  ELSE ServeBest(Permitted \cap CanServe[Current.k], [n \in Jobs |-> CMu(Current.k, n)])

If(b) == IF b THEN 1 ELSE 0

(* stochastic_FIFO skips an entry whose draw is below its threshold. *)
DrawSays == CASE draws[action_counter] = "unread" -> {0, 1}
              [] draws[action_counter] = "skip"   -> {0}
              [] draws[action_counter] = "serve"  -> {1}

CandidateActions ==
  CASE policy = "FIFO policy"     -> {1}
    [] policy = "stochastic_FIFO" -> DrawSays
    [] policy = "cmu"             -> {If(Current.cmu)}
    [] policy = "reverse_fifo"    -> {If(Current.rfq)}
    [] policy = "enforced_fifo"   -> {If(Current.fifo)}

GetActions == IF PerEventMode THEN {PerEventAction} ELSE CandidateActions

ReadDraw(outcome) ==
  draws' = IF policy = "stochastic_FIFO" THEN [draws EXCEPT ![action_counter] = outcome]
                                         ELSE draws

(* IncorporateAction: the answer is carried out, allowed or not. *)
PolicyDecides ==
  /\ Deciding
  /\ \/ 0 \in GetActions /\ PassOver /\ ReadDraw("skip")
     \/ 1 \in GetActions /\ StartCandidate /\ ReadDraw("serve")
     \/ \E n \in Jobs : n + 1 \in GetActions /\ StartType(n) /\ UNCHANGED draws

(* Refreshes, arrivals and completions bring new draws, other events do not. *)
Redraws(u) == EventAt(u).type \in {"Arrival", "JobCompletion"}

PolicyNext ==
  /\ \/ PolicyDecides
     \/ FilRefresh /\ draws' = Unread
     \/ \E u \in 0 .. UniformizationRate - 1 :
          Happens(u) /\ draws' = IF Redraws(u) THEN Unread ELSE draws
  /\ UNCHANGED policy

PolicySpec == PolicyInit /\ [][PolicyNext]_policyVars

-----------------------------------------------------------------------------
(* What a heuristic answers is always an allowed action.  The evaluation   *)
(* loops rely on it: they incorporate the answer without looking.          *)
PolicyLegal == Deciding => \A a \in GetActions : IsAllowedAction(a)

(* No heuristic leaves a server idle that could start a waiting job: each  *)
(* label marks some candidate of every pool that has one, and after every  *)
(* serve the labels are computed anew.                                     *)
WorkConserving ==
  (Deterministic /\ cat = "AwaitEvent" /\ AtRest) => Candidates(waiting, busy_on) = {}

(* With the oldest candidate presented first the enforced FIFO policy never *)
(* skips, that is, it decides as the greedy one does.                      *)
EnforcedIsGreedy ==
  (policy = "enforced_fifo" /\ SortDescending /\ Deciding) => 1 \in GetActions

(* Each heuristic honours its order at the moment of serving, whatever the *)
(* labels said when they were computed: the pool has fewer than its free   *)
(* servers' worth of strictly better types waiting.  Two cases are not     *)
(* meant to: cmu chooses among what forced late service leaves it, and the *)
(* greedy policy is "never" to be paired with ascending presentation.      *)
Better(k, n) ==
  {m \in Jobs :
     /\ waiting[m] # <<>>
     /\ CanAssign(busy_on, k, m)
     /\ CASE policy \in {"FIFO policy", "enforced_fifo"} -> FIL(waiting)[m] > FIL(waiting)[n]
          [] policy = "cmu"             -> CMu(k, m) > CMu(k, n)
          [] policy = "reverse_fifo"    -> FIL(waiting)[m] < FIL(waiting)[n]
          [] policy = "stochastic_FIFO" -> FALSE}

GreedyAscending == policy = "FIFO policy" /\ ~SortDescending
OrderOverruled  == policy = "cmu" /\ ForceLateService

ServesInOrder ==
  (AtRest /\ next_fil_job_type' # None /\ ~GreedyAscending /\ ~OrderOverruled) =>
    Cardinality(Better(Current.k, next_fil_job_type')) < Capacity(busy_on, Current.k)
HonoursItsOrder == [][ServesInOrder]_policyVars

(* First in, first out: the job the greedy policy starts is the oldest of  *)
(* all jobs that any free server could start.                              *)
ServesOldest ==
  (policy = "FIFO policy" /\ AtRest /\ next_fil_job_type' # None /\ ~PerEventMode) =>
    \A c \in Candidates(waiting, busy_on) :
      FIL(waiting)[c[2]] <= FIL(waiting)[next_fil_job_type']
FifoServesOldest == [][ServesOldest]_policyVars
=============================================================================
