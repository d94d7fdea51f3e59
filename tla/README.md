# TLA+ development for DynaPlex and `queue_mdp`

This directory holds formal models of DynaPlex: its queueing MDP, and the generic
code that runs, evaluates and learns from MDPs. They are TLA+ modules translated
from the C++ source, the TLC configurations that check them on small instances,
and theorems about them checked by TLAPS. Paths below are
relative to the repository root; `QMDP` stands for
`src/lib/models/models/queue_mdp`.

    tlc -config QueueMDP_depth2.cfg MCQueueMDP.tla     # one run
    tlapm QueueProofs.tla                              # theorems of one module

## 1. Inventory

DynaPlex is a library for Markov decision processes (MDPs): an MDP supplies
state, events and actions; generic code drives trajectories through it; solvers
and learners call that driver. The repository's own documentation and
executables centre on one MDP, `queue_mdp`.

| Component | State it keeps | Operations | Hard parts |
|---|---|---|---|
| **queue_mdp simulator** (`QMDP/mdp.h`, `mdp.cpp`) | tracked ages per job type, incremental arrival rate, busy servers, candidate queue and its counter, pending refresh, whose move it is | `ModifyStateWithEvent` (refresh, arrival, completion, tick, nothing), `ModifyStateWithAction`, `IsAllowedAction`, `GetEventType` | serving takes two steps; derived data (rate, queue, labels, counter) survives changes of what it was derived from |
| **queue_mdp policies** (`QMDP/policies.cpp`) | none; the draws of the stochastic one live in the state | `GetAction` | they trust labels, counter and draws; nothing checks their answers |
| **rewards** (`mdp.cpp`: `JobUrgency`, `ComputeTickCost`, shaping in the refresh) | none | cost of a tick or a refresh | the shaping terms must telescope |
| **analytical twin** (`mdp.cpp` transition lists, `QMDP/rvi.cpp`) | a map of integer keys | enumerate successors, value iteration | a second encoding of the same dynamics; key packing |
| **continuous simulator** (`QMDP/continuous_sim.cpp`) | exact arrival and finish times | next event, mirror state, ask policy | a third encoding; mirror assumes one server per pool |
| **trajectory driver** (`erasure/mdpadapter.h`, `actionrangeprovider.h`, `core/trajectory.cpp`) | category, period count, discount, RNG per trajectory | `IncorporateAction`, `IncorporateUntilAction`, `...NonTrivialAction`, copies | bounded periods, skipping trivial actions, batches that finish apart |
| **parallel_compute** (`core/parallel_execute.*`) | threads, promises, error flag | split, run, rethrow, report | an exception on one thread, a reporter that watches shared counters |
| **DCL sample generation** (`algorithms/dcl/dcl.cpp`, `samplegenerator.cpp`) | samples, seed offset, temporary files per rank | collect, save, barrier, gather, train | ranks and threads, barriers, files, an exception on one rank |
| **DCL selectors** (`uniformactionselector.cpp`, `sequentialhalving.cpp`) | budgets, competing actions | `SetAction` | rounding of budgets, indices against actions |
| **policy comparer** (`utilities/policycomparer.cpp`) | a batch of trajectories per thread, returns by position | `ComputeReturns`, `Evolve`, checks | the batch is reshuffled while it is driven; trajectories stop at different times |
| **containers** (`modelling/queue.h`, `eventheap.h`, `idcontainer.h`, `graph.*`) | ring buffer, heap, maps | push, pop, reserve, ... | wrap-around and growth |
| core services (`rng*`, `system`, `vargroup`, `registry`, provider) | | | configuration and input/output |
| learners and numerics (`exactsolver`, `ppo`, `nn`, statistics of comparisons, distributions) | | | floating-point arithmetic |
| other MDPs, executables, scripts, bindings | | | independent examples and experiments |

How they interact. A learner or an evaluation loop owns trajectories. The driver
looks at a trajectory's category: in *AwaitEvent* it draws an event and calls
the MDP's `ModifyStateWithEvent`, in *AwaitAction* it asks a policy for an action
and calls `ModifyStateWithAction`. Policies read the MDP's state directly. The
sample generator runs this on several threads of several MPI ranks, which meet
at barriers and exchange files. `QMDP` itself is sequential: its hazards are
sequences of legal calls and data that outlives what it was computed from.

What makes each part correct:

* simulator: no pool over capacity; the arrival rate is that of the open lines;
  every event has its own share of the uniformization rate; a decision always
  has an entry to be about; the queue shown is the queue of the state; a refresh
  never finds its line empty; lines stay ordered; decision epochs end; with
  forced late service nobody late waits while a server that could start it is
  free; all in all, it behaves as a multi-skill queue;
* policies: answers are allowed; no server idles needlessly; each honours the
  order it is named for, at the moment of serving;
* rewards: shaping adds up to the change of a potential;
* twin and continuous simulator: same transitions as the simulator;
* driver and batches: every trajectory stops at a choice, at its bound or at its
  end; it is a walk of the MDP on its own, whatever place of the batch it is
  moved to; an evaluation ends, and reports the returns of its trajectories;
* parallel_compute: every element is computed once, by one thread; an exception
  reaches the caller; nothing runs after the call; the reporter does not hang;
* sample generation: every rank passes each barrier or the run stops with an
  error, no sample number or seed is used twice, each policy is trained on
  exactly one collection;
* selectors: every action gets its budget, the label beats the others on the
  seeds they share, improvements are relative to the policy's own action;
* ring buffer: first in, first out, however it wrapped, grew or was moved.

`PROJECT.json` lists every component with its status, and every hazard with the
line where it bites and the properties that guard against it.

## 2. What is modelled

| Module | Models |
|---|---|
| `QueueStatic` | the queueing instance (CONSTANTS) and the pure functions of `multi_queue` and `ServerDynamicState`: heads of line, free capacity, candidate queue with labels, per-event queue, `take_action`, `GetEventType`, the ages Koole's sampler may reveal |
| `MultiSkillQueue` | abstract specification: lines, servers, and a head being revealed; no queue of candidates, counter, labels, rates or turns |
| `QueueMDP` | the simulator in both action modes, one action per handler, and its properties |
| `QueueIdling` | `QueueMDP` with the history of a commitment: action 2 has been answered and no event has happened since |
| `QueuePolicies` | five of the six registered policies run on `QueueMDP` as `EvaluatePolicyPerStep` runs them, which carries out what they answer, allowed or not |
| `QueueModes` | both action modes of `QueuePolicies` in one specification: a behaviour chooses its mode at the start |
| `QueueProofs` | lemmas about the operators of `QueueStatic`; theorems about `QueueMDP`: types, capacities, waiting lines, rates, decision epochs, its refinement of `MultiSkillQueue`, forced late service; lemmas about the heuristics of `QueuePolicies` |
| `QueueModesProofs` | theorems about the heuristics in both modes |
| `TrajectoryDriver` | what the type-erased MDP does to a trajectory: initiation, events, period counts, actions, for any MDP given as a record |
| `TrajectoryWalks` | abstract specification: each trajectory is a walk of the MDP on its own |
| `PolicyComparer` | a thread's share of a policy evaluation: a batch driven by `IncorporateUntilNonTrivialAction` and `Evolve`, partitioned, checked, and its returns |
| `Splits` | `get_splits`, `get_chunks`: how a range is cut into spans |
| `ForkJoin` | abstract specification of a parallel call: all elements, or failure, and quiet afterwards |
| `ParallelCompute` | one `parallel_compute`: calling thread, workers, promises, error flag, reporter |
| `ActionSelection` | the label of one state: dispatch, uniform selector, sequential halving |
| `SampleGeneration` | deep controlled learning over MPI ranks: generations, threads, sample numbers, files, barriers, training, throws, kill and resume |
| `Fifo` | abstract specification: one sequence per object |
| `RingQueue` | `DynaPlex::Queue<T>`, several objects that are copied and moved |
| `SplitsProofs` | lemmas: spans are adjacent, disjoint, and cover the range |
| `ParallelComputeProofs` | theorems about one parallel call, and its refinement of `ForkJoin` |
| `PolicyComparerProofs` | theorems about a batch of trajectories, and its refinement of `TrajectoryWalks` |
| `ActionSelectionProofs` | theorems about both action selectors |
| `SampleGenerationProofs` | theorems about barriers, sample numbers and files |
| `RingQueueProofs` | its indices stay inside, and it implements `Fifo` |
| `MC...` | instances for TLC |

`QueueMDP` extends `QueueStatic`, `QueuePolicies` extends `QueueMDP`, and
`QueueMDP` instantiates `MultiSkillQueue` with
`line <- waiting, inService <- busy_on, revealing <- next_fil_job_type`.
`QueueModes` instantiates `QueueProofs`, that is `QueuePolicies` and the theorems about
it, once for each mode.
`PolicyComparer` extends `TrajectoryDriver` and instantiates `TrajectoryWalks`;
`ParallelCompute` and `SampleGeneration` extend `Splits`; `ParallelCompute`
instantiates `ForkJoin`, `RingQueue` instantiates `Fifo`.

The last four groups form a tower in which each model relies on a promise the
one below was shown to keep, and says so by its granularity:

* `SampleGeneration` takes the threads of one collection as `ParallelCompute`
  promises them: a call returns when all its threads ended, or rethrows. It
  keeps the threads themselves, since sample numbers are counted per thread.
* The labelling of one sample is one step of `SampleGeneration`;
  `ActionSelection` opens that step. Its seeds are disjoint between samples
  because sample numbers are (`SeedsNeverReused`), and within a sample because
  rounds continue each other's seeds (`PairedBySeed`).
* A round of rollouts is one step of `ActionSelection`; `PolicyComparer` opens
  it, for the evaluation loop has the shape of the rollout loops: drive until
  all await an action, partition, act. The selectors look results up by
  `ExternalIndex`, so the order the partition leaves is not in `ActionSelection`.

### The queueing MDP

State and code:

| Variable | Code |
|---|---|
| `waiting[n]` | `multi_queue::waiting[n]`, oldest first; `<<>>` is an FIL age of -1 |
| `total_arrival_rate` | `multi_queue::total_arrival_rate` |
| `busy_on[k][n]` | `ServerDynamicState::busy_on[k][idx]`, indexed by the type instead of its position in `can_serve`, 0 for types pool k cannot serve |
| `action_queue`, `action_counter` | the same members; the counter stays 0-based |
| `next_fil_job_type` | `State::next_fil_job_type`, `None` = -1 |
| `cat` | `State::cat` |
| `policy` | which policy object `EvaluatePolicyPerStep` was given |
| `draws` | `State::stochastic_draws` |

Actions and code:

| Action | Code |
|---|---|
| `StartCandidate`, `StartType(n)`, `PassOver` | `ModifyStateWithAction`: action 1 through `take_action`; per event action n + 1; action 0 |
| `Serve`, `ServeType(n)`, `Skip` | the same, where `IsAllowedAction` allows it |
| `SkipAll` | action 2 |
| `FilRefresh` | the first branch of `ModifyStateWithEvent`, with `complete_job` and the sampler |
| `HandleArrival`, `HandleCompletion`, `HandleTick`, `HandleNothing` | the other branches |
| `UniformizedEvent` | `GetEvent` followed by `GetEventType` and its handler |

Each action is the whole handler: `SkipAll`, for example, needs a decision at hand and
`enable_skip_all`, resets the counter and hands the move to the process; `Serve`
contains the whole of `take_action`: the assignment, the removal of entries that
cannot start any more, and the recomputation of the counter.

Abstractions:

* **Rates are natural numbers.** A rate r is r unit slots of the event sample's
  range; the scan of `GetEventType` is then exact. Rounding of doubles is not
  modelled.
* **Random numbers are choices.** The event sample is any slot. The sampler's
  answer is any age its distribution gives positive weight: none, or 1 up to the
  age of the deepest tracked job, and none if that age is 0. A draw of the
  stochastic policy is kept undecided until it is first compared with the
  threshold, which is when its value begins to matter.
* **Sorting** is the strict order `Precedes`; the code's comparator ends in pool
  and type, so the sorted sequence is unique. `can_serve` lists are taken to be
  ascending, as they are in every configuration of the repository.
* **Labels** are the three hints a policy may read; `CMu` compares the products
  cost times rate, on integers.
* **Costs, features, JSON and debugging output** are left out of the simulator:
  no handler's control depends on them.
* **Policies.** `RVI_optimal`, the sixth one registered, looks its answer up in the
  result of value iteration and is left out; `FIFOPolicySorted` is not registered,
  refuses per-event mode, and answers as the FIFO policy does otherwise.
* **Answers** are steps of their own kind: `Serve`, `ServeType` and `Skip` are what any
  policy may do if only allowed actions are answered; `StartCandidate`, `StartType`
  and `PassOver` are the same handlers without that guard, since `IncorporateAction`
  does not look. `QueuePolicies` uses these.
* The early returns of `ModifyStateWithAction` for an empty queue or a counter
  out of range have no action: `DecisionLegal` shows that they are never taken.

### Trajectories and evaluation

| TLA+ | Code |
|---|---|
| `trajectories`, `span` | the vector of `ComputeReturns`, and the span `Evolve` narrows |
| `IncorporateEvent`, `SkipTrivialAction`, `SkippingEnds`, `NextTrajectory`, `UntilReturns` | one round of each loop of `IncorporateUntilSomeAction<true>`, which is what `Evolve<SkipTrivialActions = false>` calls |
| `Settle` | `std::partition` and the narrowed span, or the exit |
| `Act` | `IncorporateAction(span, policy)` for any policy, and its throw |
| `WarmupEnds`, `EvolutionEnds` | the checks, and what is stored in `ReturnPerTrajectory` |

An MDP is a record of functions (categories, allowed actions, successors), so
that the driver is modelled for MDPs in general; the instance has an infinite
one with an extra event stream and states with a single action, discounted or
not, and a finite one that need not end in time. A return is abstracted to
*whose* it is and *up to which period*: that is all that subtracting one from
another can confuse. `SwappedWith` is the pairing of swaps `std::partition` makes
on bidirectional iterators. `event_seen` is history.

### Parallel calls

`main`, `pc`, `promises`, `error_occurred`, `collected` are the calling thread, the workers
and what they share; each access to something shared is a step of its own.
Worker exceptions and threads the system refuses to start are faults; the work
is the element-wise, counted one of the sample generator. `writer` is history.

### Deep controlled learning

| TLA+ | Code |
|---|---|
| `rank[r]` | the locals of `TrainPolicy` and `GenerateStateSamples` on one rank: policy, seed offset, output vector, numbers of samples added on each thread |
| `disk` | files: absent, torn while they are being written, or whole |
| `LoadPolicy`, `AddSample`, `SamplingEnds`, `SaveTemp`, `Barrier`, `MergeFile`, `SaveSamples`, `LoadSamples`, `Fit`, `TakeBest`, `SaveWeights`, `SaveConfig`, `AfterTraining`, `NextGeneration` | the statements of one generation, in their order |
| `SaveToFile`, `CanAdd` | `SampleData::SaveToFile` and `AddFromFile` with their throws: states of the MDP cannot be stored (`SupportsGetStateFromVarGroup`), the file is absent or torn |
| `TrainingSize`, `Sufficient`, `LoadSamples` | the throws of `PolicyTrainer::TrainPolicy` before it trains: no Torch (`DP_TORCH_AVAILABLE`), or fewer samples to train on than `mini_batch_size`, which each start of the job may choose (`Configured`) |
| `SamplingThrows`, `Restart` | faults: an exception on any thread; the job is killed at any moment and started again with `resume_gen` or `retrain_lastgen_only`, from a generation whose policy is on disk |

A barrier is the anonymous `MPI_Barrier`: it lets everybody go on when everybody
is at *some* barrier, so that `BarriersAligned` has something to say. Files are
written in place, in two steps; a kill in between leaves them torn. An operator
who resumes from a generation that never existed is not modelled.

`ActionSelection` has the results of each action as a sequence of seed and
return. Returns are arbitrary members of a small set, ties included, and
`std::sort` may order equals any way. `ceil(log(n)/log(2))` is exact: the quotient
of doubles is, for the sizes action sets have. `total_budget_used_per_action` is the code's
own counter, beside the results it is meant to count; that they agree for every action
still competing is part of the inductive invariant. `Rounds(n)` says it by counting the
powers of two below `n`, which can be reasoned about; `MCActionSelection` compares it
with the exponents (`RoundsAssumption`).

### Ring buffer

`first_item`, `num_items`, `items`, `capacity` are the members of each object. Copying
and moving are actions because MDP states do both all the time, and a moved-from
object is used again. A queue is constructed from any list of items.

### Fairness and faults

* `QueueMDP`: `FairSpec` adds `WF_vars(Next)`. The driver's loop
  (`IncorporateUntilAction` and `IncorporateAction`, or the loop of
  `EvaluatePolicyPerStep`) always takes another step, and nothing is assumed of
  *which* step: no policy has to be sensible and no event has to come.
  `EpochsEnd` is the only property that needs it.
* `PolicyComparer`: `WF_vars(Next)`, one thread that is scheduled. Which event or
  action comes is free; `EvaluationEnds` holds because every event of stream 0
  counts and no cycle of the instance's MDPs avoids stream 0, which is what the
  code demands of an MDP.
* `ParallelCompute`: weak fairness of the calling thread and of each worker: the
  operating system schedules runnable threads. Nobody has to throw, and a
  reporter that polls is not made to find anything.
* `SampleGeneration`: weak fairness of each rank, of rank 0's own steps and of the
  barrier; none of the faults.
* **Altered definitions.** Some definitions are preceded by a faulty variant of
  themselves (`CanAssignByType`, `SeedAfterOwnShare`, ...). Nothing uses them. Put in
  place of the definition they precede, each makes TLC report the property that
  is meant to notice it; `PROJECT.json` pairs them.

## 3. Runs

| Run | Question | Result |
|---|---|---|
| `mdp_depth2` | two tracked positions, newest first, skip-all: does the bookkeeping stay exact, do lines stay ordered under sampling, are refreshes sound, is the queue shown the one of the state, are decisions legal, is it a multi-skill queue? | holds |
| `mdp_per_event` | per-event mode, forced late service: is no late job left waiting by a free server although the queue is not rebuilt; do epochs end? | holds |
| `policies_heuristics` | do five heuristics, late service not forced, answer legally, waste no server and honour their order, in both modes? | holds |
| `policy_comparer` | does a batch evolve as independent walks, stop where it should, pass its own checks, end, and count each trajectory once, less its warm-up, in the mean? | holds |
| `parallel_call` | is every element computed once, no exception lost, nothing left running, the reporter always released? | holds |
| `action_selection` | do both selectors keep their budget, pair by seed, and find a label that beats the others? | holds |
| `sample_generation` | three ranks, two generations, throws, one kill and resume: a mini-batch that fits or does not: are samples exact, seeds fresh, barriers aligned; who stops, and for what? | holds |
| `ring_queue` | is the ring a first-in first-out sequence? | holds |
| `phantom_jobs` | does a line store only present jobs? | violated |
| `idling_represented` | does skipping all remaining candidates commit to idling until the next event? | violated |
| `forced_policies` | with forced late service, does a heuristic only answer what is allowed? | violated |
| `reshuffled_returns` | is each return that of one trajectory? | violated |

Instances and bounds.

* `MCQueueMDP`: a specialist pool (one server, type 0) and a generalist pool (two
  servers, both types). It has a type two pools compete for, a pool two types
  compete for, a pool with several servers, types and pools a pool cannot serve,
  unequal rates, unequal due times and a free slot in the uniformization
  interval. `MaxAge` stops the tick at that age; it exceeds every due time of
  the instance, so late and timely heads, and both orders of any two heads,
  occur; beyond that only differences of ages matter to the code, which
  `QueueFresh` is one way of saying. `Depth` is a parameter of the program; 2 is
  the least value with a shift of positions, a phantom and a line that is
  neither empty nor full.
* `MCQueueIdling`: the pools and types of `MCQueueMDP` with one tracked position, enough
  for two candidates to skip at once and a free slot of the interval to follow.
* `MCQueuePolicies`: three types and two pools in a chain, the first pool with two
  servers, because labels only differ from the order of presentation when a
  pool with several servers has more candidates than servers. The mode is
  chosen at the start of a behaviour.
* `MCPolicyComparer`: four trajectories, so that a partition may make two swaps;
  a period of warm-up and a period after it; a finite horizon of two.
* `ParallelCompute`: three threads over five elements, the smallest unequal spans
  with a worker that is neither first nor last.
* `MCActionSelection`: one to five actions, numbered with and without gaps; three
  replications are more than the rounds for up to four actions and as many as
  the rounds for five, which is the boundary of the dispatch. Three and five
  actions are halved unevenly.
* `MCSampleGeneration`: three ranks share five samples unequally, on one or two
  threads; `MaxRuns` = 2 is one kill at any moment and one resumed run. Of five samples
  four are left to train on: the mini-batch is 4, which they just make, or 64, the
  default of the code, which they do not, and may change when the job is resumed.
* `RingQueue`: two objects; `MaxItems` = 3 with vectors of up to four places, so that
  a queue wraps, fills and grows while its front is in the middle.

No counter of a model is otherwise bounded. Deadlock is checked in every run.

What the violated runs show (details and quotes in `PROJECT.json`, "findings"):

1. `complete_job` asks the sampler who is next even if the line was not full and
   nobody untracked can be waiting: a job appears that never arrived.
2. Action 2 is to "commit to idling until the next event" (`mdp.cpp:332`). An empty
   slot of the uniformized process, a self-loop to the analytical twin and to the
   report, starts a new round of decisions all the same: the run shows an arrival
   that makes two candidates, action 2, an empty slot, and the first of them put to
   the policy again. Two consequences need no run of their own: the new round
   takes the stochastic policy's old draws, and in per-event mode a tick presents
   the servers of the last rebuild, busy ones included, for which only idling is
   allowed.
3. The evaluation loops ask the policy in forced states as well; the FIFO policy
   then answers actions that are not allowed, and they are carried out. Work is
   still conserved (`WorkConserving` is proved with forced late service); what is
   lost is the order that was to be forced.
4. The policy comparer subtracts warm-up returns by position, after the batch was
   reshuffled. Means are right (`MeanExact`), standard errors and the pairing of
   policies on common random numbers are not.

And a weakness a passing run names: `RelativeToThePolicy` has to except sequential
halving under a policy that prescribes an action that is not allowed. There an
action is used as an index (`sequentialhalving.cpp:192`): the sample is relative
to some other action, or labelling throws if the largest action is not below the
number of actions, as with the gaps per-event mode makes in action sets. The
action used is the last allowed one, too, and not the worst one, which is what
the uniform selector takes.

Two more facts the models state precisely. `UntilContract`: a trajectory that
*starts* in a state with a single action, or is brought to one by an action, is
handed to the caller, for single actions are only skipped after an event
(the comment at `src/lib/core/include/dynaplex/mdp.h:182` promises more).
`OnlyFaultsStopRanks`: a rank stops with an error if its sampling throws, and
otherwise only for what could be told before the job starts: its share cannot be
cut over its threads, the states of the MDP cannot be stored, or, on rank 0, there
is no Torch or what N samples leave to train on does not fill one mini-batch. It
never stops for what another rank or a killed run did or left. That training on too
few samples is an error of rank 0 alone, found after everybody has sampled, means
that the others wait at the barrier behind it for ever, as they do after a throw of
sampling. `EveryRankFinishes` therefore claims only runs in which no rank stops
with an error.

`HonoursItsOrder` leaves out two cases that are not meant to keep the order: cmu under
forced late service, which chooses among what that leaves it (`OrderOverruled`), and
the greedy FIFO policy on ascending presentation (`GreedyAscending`), a pair that
`RegisterPolicies` says never to use.

## 4. Proofs

The theorems about the queueing MDP hold for every instance that satisfies
`StaticAssumption`: any number of types and pools, positive server counts and
arrival rates, any skills, service rates, due times and depth, both orders of
presentation and both modes. Those about `RingQueue` assume that `T{}` is a `T` and
that `MaxItems` is a natural number, and hold for any queues and items; those about
`ParallelCompute` and `SampleGeneration` that sizes are natural numbers and that
there is a rank and a sample. Those about `PolicyComparer` hold for any set of MDPs,
infinite ones included, whose categories are those of `StateCategory`, whose states
allow finitely many actions, and which are never final if their horizon is infinite
(`MDPAssumption`); those about `ActionSelection` for any returns, as integers, and
any action lists in ascending order, which is how `AllowedActions` lists them
(`SelectionAssumption`).

| Theorem | Property | Module |
|---|---|---|
| `TypeCorrect` | `TypeOK` | `QueueProofs` |
| `CapacityKept` | `PoolCapacity` | `QueueProofs` |
| `QueueAlwaysFresh` | `QueueFresh` | `QueueProofs` |
| `RefreshNeverFails` | `RefreshSound` | `QueueProofs` |
| `CounterAlwaysReset` | `CounterReset` | `QueueProofs` |
| `DecisionsAreLegal` | `DecisionLegal` | `QueueProofs` |
| `Implements` | `ImplementsMultiSkillQueue` | `QueueProofs` |
| `LinesStayOrdered` | `LineInOrder` | `QueueProofs` |
| `ArrivalRateStaysExact` | `ArrivalRateExact` | `QueueProofs` |
| `NobodyOlderIsRevealed` | `RevealedIsYounger` | `QueueProofs` |
| `EventsHaveTheirRates` | `UniformizationExact` | `QueueProofs` |
| `LateJobsNeverWait` | `LateNeverWaits` | `QueueProofs` |
| `ModesAnswerLegally` | `PolicyLegal` | `QueueModesProofs` |
| `ModesConserveWork` | `WorkConserving` | `QueueModesProofs` |
| `EnforcedFifoIsGreedy` | `EnforcedIsGreedy` | `QueueModesProofs` |
| `ModesHonourTheirOrder` | `HonoursItsOrder` | `QueueModesProofs` |
| `GreedyFifoServesOldest` | `FifoServesOldest` | `QueueModesProofs` |
| `IndicesStayInside` | `RingSound` | `RingQueueProofs` |
| `RingIsFifo` | `ImplementsFifo` | `RingQueueProofs` |
| `NothingRunsAfterReturn` | `QuietAfterReturn` | `ParallelComputeProofs` |
| `EveryExceptionReported` | `NoExceptionLost` | `ParallelComputeProofs` |
| `SpansNeverOverlap` | `NoElementWrittenTwice` | `ParallelComputeProofs` |
| `ComputesAllOrThrows` | `ImplementsForkJoin` | `ParallelComputeProofs` |
| `BarriersMeet` | `BarriersAligned` | `SampleGenerationProofs` |
| `SeedsAreUnique` | `SeedsNeverReused` | `SampleGenerationProofs` |
| `SampleFileIsExact` | `SampleFileExact` | `SampleGenerationProofs` |
| `RanksStopByFaultsOnly` | `OnlyFaultsStopRanks` | `SampleGenerationProofs` |
| `UntilKeepsItsContract` | `UntilContract` | `PolicyComparerProofs` |
| `OnlyLateEndsThrow` | `ChecksPass` | `PolicyComparerProofs` |
| `MeanIsExact` | `MeanExact` | `PolicyComparerProofs` |
| `BatchImplementsWalks` | `ImplementsWalks` | `PolicyComparerProofs` |
| `BudgetIsKept` | `BudgetKept` | `ActionSelectionProofs` |
| `ResultsArePaired` | `PairedBySeed` | `ActionSelectionProofs` |
| `LabelIsTheBest` | `LabelBeatsTheOthers` | `ActionSelectionProofs` |
| `HalvingLeavesOne` | `OneIsLeft` | `ActionSelectionProofs` |
| `RelativeToPrescribed` | `RelativeToThePolicy` | `ActionSelectionProofs` |

These theorems state no property of a run; each pair says of a liveness property,
given in brackets, all that is true of it without fairness (see "Ways to the end"):

| Theorem | Module |
|---|---|
| `EpochsAreFinite`, `EpochsNeverStick` (`EpochsEnd`) | `QueueProofs` |
| `CallIsFinite`, `SomebodyRuns` (`CallEnds`) | `ParallelComputeProofs` |
| `LoopIsFinite`, `BarriersStrandNobody` (`EveryRankFinishes`) | `SampleGenerationProofs` |
| `EvaluationIsFinite` (`EvaluationEnds`) | `PolicyComparerProofs` |

**Types and capacities.** The inductive invariant is `TypeOK /\ PoolCapacity`.
Neither half is inductive alone: types need the effect of `AssignJob`, which only
assigns if the count of one type is below the pool's size, and that the
assignment is the one the candidate promised needs that all types together are
below it. The argument is one lemma per action (`ServeTyped`, `ServeTypeTyped`,
...), under which lemmas about the operators do the counting: `Total` is
defined through sets of unit tokens rather than by recursion, so that
`TotalIncrement` and `TotalMonotonic` follow from cardinality theorems, and
`Ranked` lists a finite set in a strict total order, for which `RankedMember`
shows that every rank is taken.

**Epochs.** `EpochInv` adds to it what is shown and asked. `Presented` is the part no
run checks by that name: an epoch in progress has an entry to present, which
`Advance` keeps and from which `DecisionLegal` follows. The interesting steps are

* `Serve`: the entry shown belongs to a fresh queue (`EntriesStartable`), so its
  line is not empty and its pool has a free server, which is what the refresh it
  announces relies on (`StartedSound`). The queue pruned by `take_action` need
  not be fresh: the refresh that comes next builds another one.
* `HandleTick`, `HandleNothing`: they show an old queue again.
  `QueueIgnoresAgeing` proves that this is sound: with every age one higher,
  candidates, order and labels are the same. It is where a tie-break or a label
  that depends on absolute ages would break the proof.
* per-event mode, where the queue goes stale by design; what remains true there
  (`RefreshSound`, `CounterReset`) does not need it, because `IsAllowedAction`
  tests lines and servers again (`AllowedTypeIsStartable`).

**Refinement.** Under the mapping of section 2 `Serve` and `ServeType(n)` are
`Start`, `FilRefresh` is `Reveal`, `HandleArrival` is `Arrive` (the scan never picks a
full line, `ArrivalIsOpen`), `HandleCompletion` is `Finish`, `HandleTick` is
`GrowOlder`, and skipping and empty slots are stutters. `Start` demands a free skilled server and a waiting
job, so `Implements` needs `Inv`, and would fail for a stale candidate.

**Lines and rate.** `LineInv` adds `LineInOrder` and `ArrivalRateExact`. The rate
needs the length bound: `complete_job` tests whether the line was exactly full
before it adds the rate back. `RevealedShape` describes the line after a refresh
for every answer of the sampler, `TotalAdd` is the counting step.

**Events and their rates.** `UniformizationExact` is about one pass of `GetEventType`,
which subtracts rates from the sample until none is left. Of the past it needs
`LineInv` and that no pool serves a type it has no skill for (`SkillKept`). The scan over open types
and the one over pools and types are the same lemma: members of a finite set, in
the order of distinct keys, occupy adjacent intervals of slots, as long as their
rates, whose sum is the total. `PoolCapacity` is why the intervals end inside the
uniformization rate.

**Late service.** In per-event mode the queue is a list of servers to ask, and is
not rebuilt when the state changes within a pass or between passes. `PassInv` says
why that suffices: every pool that could start a waiting job has an entry for each
free server, and during a pass, every pool that could start a late one still has an
entry *left* for each, since an entry passed over was not allowed to idle. It has
the due times as a parameter: with due times of -1, whoever waits is late, which is
what work conservation of the heuristics in per-event mode needs.

**Heuristics.** A heuristic may answer what is not allowed, and is not stopped, so its steps
need not be steps of `QueueMDP`'s `Next`. They are steps of `AnyNext`, which may start any
type that could start on the server asked (`PolicySteps`), and so are those of `Next`
(`NextIsAny`): the lemmas behind the invariants above are about `AnyNext`, and hold of
both. `PolicyInv` adds what has been passed over:
candidates that carry no mark of the policy. Work conservation follows since the
labels mark some candidate of every pool that has one, and since the queue shown is
fresh, which is where `QueueFresh` is used. The proof that orders are honoured counts:
a label is set if fewer types of the pool's candidates come before than it has free
servers. `QueueProofs` proves this for either value of `PerEventMode`; `QueueModes` takes
it with both, so that its invariant `ModeInv` is that of the mode chosen, and each
theorem of `QueueModesProofs` is the lemma of one mode or the other.

That is why `ModesConserveWork` covers forced late service: there FIFO may start a
younger job than the one it is forced to, and the pass over the servers keeps its
bookkeeping (`StartsPass`), for whatever is started takes one server and one entry
away.

Two theorems have a hypothesis, which the instances checked meet.
`ModesAnswerLegally` claims only cmu under forced late service, and must: the run
`forced_policies` shows FIFO answer what is not allowed. `GreedyFifoServesOldest` is about
queues that show the oldest candidate first (`SortDescending`): greedy FIFO takes what
it is shown. `ModesHonourTheirOrder` has the two exceptions of `HonoursItsOrder`.

**Ring.** The inductive invariant is `TypeOK /\ RingSound`: an item's place is
inside the vector only because the front is and the items fit, and a moved-from
queue, whose front points nowhere, is harmless because its vector is empty. The lemmas work on one ring's members: `IndexInside` and `IndexInjective` say of
`GetVectorIndex` that every item has a place and no two share one, from which
`RingAppends`, `RingPops`, `RingWritten` and `RingReserved` follow, each saying what
an operation on the vector does to the sequence. `PutKeepsOthers` lifts them to
many queues. Every operation is then one step of `Fifo`, and `Reserve` a stutter.
`ImplementsFifo` says so operation by operation (`LikeSequences`), for a constructor may put
any list in place, so that a wrong push would otherwise pass for a `Fill`.

**Splits.** `SplitsProofs` states what `get_splits` is relied on for: every span
starts where the one before ends (`SpansAdjacent`), the last one ends at the total
(`SpansFit`), no item is in two (`SpansApart`) and every item is in one
(`SpansCover`, with a witness by division, once in the larger spans and once in the
rest). It is used on both levels, for ranks and for threads.

**Parallel call.** `PInv` is `TypeOK /\ QuietAfterReturn` and three parts:
`CallerInv` (why the caller is going to end the way it does: which futures it has
seen kept, and which one threw), `WorkerInv` (a promise is kept once, at the end of
the work or in the handler) and `WrittenInv` (of its span a worker has written what
it counted and at most one element more). `QuietAfterReturn` is needed for the
refinement as well: it is why no `Compute` can happen after `Return` or `Throw`.
`AllComputed` combines `CallerInv`, `WrittenInv` and `SpansCover`.

**Barriers and numbers.** `GInv` counts barriers: `Aligned` says that while no rank
is over, all have passed as many, counted by `Epoch` as three for each generation
and one for each part of it. A rank that is over never comes back, so nothing needs to be said
of the others: no barrier opens again before the next run. Only `Barrier` advances
an epoch, `NextGeneration` merely renames it. `DrawnOK` says that a number is
determined by generation, rank and slot; two equal numbers then differ by a
multiple of `N` and by less than `N`, and the spans of the ranks are disjoint.

**Files.** `FInv` adds to `GInv` what is on the disk while a rank stands where it
does: its policy, from loading on; its share of the samples, from saving to
merging; what rank 0 has merged, the first `m` shares in order. That nobody else
writes these files meanwhile is `SameStage`: past the first barrier of a generation
and before its last, all ranks under way are in the same part of it. A kill leaves
any of the files torn, and `FInv` says nothing of what a new run has not yet written.

**Batches.** `CInv` says what a trajectory is at each place: in the span before the
loop's position it has returned, behind the position it has met no event yet,
behind the span it has arrived, and that each trajectory is in one place. Every step
is then a step of one walk, whatever MDP it is of; a partition is a stutter, since it
swaps (`SwappedWith`) and walks have no places. `UntilContract` speaks of choices only for
trajectories that met an event in the call, by the history `event_seen`. `MeanExact` says
where every trajectory stands in the end, by its index: once among what is added, at
the last period, and once among what is subtracted, at the end of the warm-up, if
there is one, and not at all if not. For it, `CInv` has the first notes hold each
trajectory once, which is the case when they are made, since a partition swaps, and
the batch hold each once, at the period the checks ask for, at the end.

**Action selection.** `SelectionInv` has three hard parts. `Schedule`: the rounds to go
are those that the number of actions left needs, which `Halve` keeps since halving
rounded up takes one power of two off (`RoundsOfHalf`). `Beaten`: who is dismissed lost,
on the results both have, to each that is left; more results do not change it, for
they come after those (`Extended`). `Spent`: a round spends at most its share, so that
all rounds together spend the budget. That the counter is the number of results of every
action still competing (`Counted`) is what makes seeds go on where they left off. Sums of results are folds; that such a sum is
a number has to be proved by induction, which the provers can only do in the form
of a least counterexample (`FirstFailure`).

**Ways to the end.** That something ends has a part that is safety, and this part is
proved: a measure that every step lowers, and that something can be done as long as
there is something left. Neither needs fairness.

* Epochs. Until the next event can happen, each step starts a job, which takes a free
  server away, or else finishes a refresh, or else passes over an entry:
  `EpochsAreFinite` orders the three numbers in this way, for a refresh shows a new,
  longer queue. `EpochsNeverStick` says that some action is always allowed, for
  where forced late service forbids idling it names a type that may be served, and
  that a refresh finds its job (`RefreshSound`).
* Parallel call. `CallIsFinite` counts what is left of the caller and of each thread.
  The reporter's polls are no progress, so `SomebodyRuns` matters: while the caller
  waits, some worker runs. It needs `SignalInv`: once all workers ended, everything
  is counted or the flag is up.
* Ranks. `BarriersStrandNobody` says that a rank never waits for one that has left the
  loop. `EInv` adds to `FInv` the reason: who is under way when another is done has
  passed all barriers too (`EndTogether`), and rank 0 alone merges and trains while
  the others alone save their shares (`OwnPlace`). A rank that stops with an error, in sampling,
  storing or training, strands the others, which the code does not prevent. `LoopIsFinite` has each step but a fault bring a rank closer: by a
  generation, a place in the loop, a sample, a file merged or opened.
* Evaluation. A batch has no measure for every MDP: an MDP that acts for ever within a
  period is driven for ever. `EvaluationIsFinite` therefore assumes a depth that each
  action and each event outside stream 0 lowers (`DecisionsEnd`); the MDPs of
  `MCPolicyComparer` have one. Then every step takes a trajectory on, whatever place
  the partition gives it, or moves one of the nested loops on.

What is only model-checked: the liveness properties `EpochsEnd`, `CallEnds`,
`EveryRankFinishes` and `EvaluationEnds` themselves. From the theorems above to them it
takes fairness, `ENABLED` and induction over the measures, which are out of the
provers' reach. `RoundsAssumption`, which compares two definitions, is
evaluated up to 20: the provers have no theory of exponents.

## 5. What is not modelled

`PROJECT.json` gives each component's status and reason. In groups:

* Vendored code (`boost_math`, `nlohmann/json`, nine tenths of the repository's
  lines) is no part of the system's own logic.
* Floating-point numerics and learning (distributions, exact solver, PPO, network
  training, statistics of comparisons) are out of reach of these tools: every
  interesting question there is one of rounding or convergence.
* Registration, configuration, paths and output have no protocol of their own.
* The other MDPs are independent examples of the framework.
* The analytical twin and the continuous simulator of `QMDP` are second and third
  encodings of dynamics that are modelled here; they are in the plan.
* Of the trajectory driver, copying (`DeepCopy`, `DeepCopyAndReinitiate`) and the
  single-event `IncorporateEvent` are left out; `queue_mdp` has no hidden variables
  for the former to get wrong.

## 6. Plan

Done: everything in the table of section 2. Next, in this order:

1. Every safety property and refinement that a passing run checks is a theorem, and
   the safety part of every liveness property; what is left are theorems about
   models still to come.
2. `QueueTransitions`: the analytical twin's successor lists against
   `QueueMDP`'s steps, and its state key against the state.
3. `QueueShaping`: tick costs and shaping terms as natural-valued functions;
   their sum telescopes.
4. The continuous simulator's mirror state, `EventHeap`.
