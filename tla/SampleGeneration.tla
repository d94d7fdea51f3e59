-------------------------- MODULE SampleGeneration --------------------------
(***************************************************************************)
(* Deep controlled learning over several MPI ranks: DCL::TrainPolicy and   *)
(* SampleGenerator::GenerateStateSamples.  In every generation each rank   *)
(* loads the policy, collects its share of the samples on its threads and, *)
(* rank 0 excepted, saves it to a temporary file; rank 0 merges the files  *)
(* into the sample file and trains the next policy from it.  The ranks     *)
(* only meet at barriers and share a disk.                                 *)
(*                                                                         *)
(* Faults: sampling throws on some thread; the whole job is killed, and    *)
(* the operator starts it again with resume_gen or retrain_lastgen_only,   *)
(* and with a mini-batch of any size.  Training throws in a build without  *)
(* Torch and when a mini-batch is larger than what there is to train on.   *)
(* The losses of the network are taken to be numbers: the first evaluation *)
(* improves on the largest float.                                          *)
(***************************************************************************)
EXTENDS Splits, FiniteSets

CONSTANTS
  WorldSize,        \* MPI ranks
  HardwareThreads,  \* rank -> threads of its machine, as the library reports them
  N,                \* samples per generation
  num_gens,
  delete_samples_after_training,
  keep_samples_lastgen_only,
  MiniBatchSizes,   \* the values mini_batch_size has in the job's configurations
  DP_TORCH_AVAILABLE,            \* of the build
  SupportsGetStateFromVarGroup,  \* of the MDP: its states can be saved and read back
  MaxRuns           \* bound of the model: how often the job is started

Ranks == 0 .. WorldSize - 1

ASSUME WorldAssumption ==
  /\ WorldSize \in Nat \ {0}
  /\ HardwareThreads \in [Ranks -> Nat]
  /\ N \in Nat \ {0}
  /\ num_gens \in Nat
  /\ MaxRuns \in Nat
ASSUME OptionsAssumption ==
  /\ delete_samples_after_training \in BOOLEAN
  /\ keep_samples_lastgen_only \in BOOLEAN
  /\ MiniBatchSizes \subseteq Nat \ {0}
  /\ DP_TORCH_AVAILABLE \in BOOLEAN
  /\ SupportsGetStateFromVarGroup \in BOOLEAN

VARIABLES
  rank,   \* the state of each rank, see JobStart
  disk,   \* the files they share
  job,    \* the run: its number and its configuration
  drawn   \* history of the run: <<number, generation, rank, slot>> of each sample

vars == <<rank, disk, job, drawn>>

-----------------------------------------------------------------------------
(* How the N samples are cut over the ranks, and a rank's over its threads. *)
NodeStart(r)  == SpanStart(N, WorldSize, r)
ToCollect(r)  == SpanSize(N, WorldSize, r)
NumThreads(r) == IF HardwareThreads[r] > ToCollect(r) THEN ToCollect(r) ELSE HardwareThreads[r]
Threads(r)    == 0 .. NumThreads(r) - 1
Slots(r)      == 0 .. ToCollect(r) - 1
ThreadStart(r, t) == SpanStart(ToCollect(r), NumThreads(r), t)
ThreadSize(r, t)  == SpanSize(ToCollect(r), NumThreads(r), t)

(* get_splits refuses to cut: fewer samples than ranks, or no threads. *)
CannotSplit(r) == SplitsThrow(N, WorldSize) \/ SplitsThrow(ToCollect(r), NumThreads(r))

None         == <<>>
NoSamples(r) == [s \in Slots(r) |-> None]
NoneAdded(r) == [t \in Threads(r) |-> 0]

(* The files: a file is absent, torn while it is written, or has content.  *)
Temp(r)    == <<"samples_node", r>>
Samples(g) == <<"samples_gen", g>>
Weights(g) == <<"dcl_policy_gen.pth", g>>
Config(g)  == <<"dcl_policy_gen.json", g>>
Checkpoint == <<"model_weights.pth", 0>>
Files == {Temp(r) : r \in Ranks} \cup {Samples(g) : g \in 0 .. num_gens}
           \cup {Weights(g) : g \in 0 .. num_gens} \cup {Config(g) : g \in 0 .. num_gens}
           \cup {Checkpoint}
Content(c)  == <<"whole", c>>
Absent      == <<"absent">>
Torn        == <<"torn">>
Readable(f) == disk[f][1] = "whole"
Read(f)     == disk[f][2]

(* The constructor's policy_0, or a trained one, which takes Torch and     *)
(* both files.                                                             *)
Loadable(g)  == \/ g = 0
                \/ DP_TORCH_AVAILABLE /\ Readable(Weights(g)) /\ Readable(Config(g))
PolicyOf(g)  == IF g = 0 THEN <<0, 0>> ELSE Read(Weights(g))

-----------------------------------------------------------------------------
(* The job starts on every rank.  retrain_lastgen_only leaves the others   *)
(* nothing to do; otherwise the loop begins at resume_gen.                 *)
JobStart(j) ==
  [r \in Ranks |->
    [pc          |-> IF ~j.retrain_lastgen_only THEN "load" ELSE IF r = 0 THEN "train" ELSE "done",
     generation  |-> IF j.retrain_lastgen_only THEN num_gens - 1 ELSE j.resume_gen,
     policy      |-> None,          \* as <<generation, run that trained it>>
     seed_offset |-> 0,
     sample_vec  |-> NoSamples(r),  \* the output vector: slot -> sample or None
     added       |-> NoneAdded(r),  \* num_samples_added on each thread
     thrown      |-> {},            \* the threads whose sampling threw
     sample_data |-> {},            \* the samples gathered
     merged      |-> {}]]           \* the ranks whose files rank 0 has merged

Configured(run, from, retrain) ==
  {[run |-> run, resume_gen |-> from, retrain_lastgen_only |-> retrain, mini_batch_size |-> m]
     : m \in MiniBatchSizes}

Init ==
  /\ job \in Configured(0, 0, FALSE)
  /\ rank = JobStart(job)
  /\ disk = [f \in Files |-> Absent]
  /\ drawn = {}

(* From a generation whose policy is there, or only to train the last one  *)
(* from samples that are there.                                            *)
NextRuns ==
  (UNION {Configured(job.run + 1, g, FALSE) : g \in {g \in 0 .. num_gens : Loadable(g)}})
  \cup
  (UNION {Configured(job.run + 1, 0, TRUE)
            : g \in {g \in {num_gens - 1} : g >= 0 /\ Readable(Samples(g))}})

(* Killed at any moment and started again. *)
Restart ==
  /\ job.run + 1 < MaxRuns
  /\ job' \in NextRuns
  /\ rank' = JobStart(job')
  /\ drawn' = {}
  /\ UNCHANGED disk

-----------------------------------------------------------------------------
(***************************************************************************)
(* Every rank: the loop of TrainPolicy up to the end of sampling.          *)
(***************************************************************************)
At(r, label)   == rank[r].pc = label
GoTo(r, label) == rank' = [rank EXCEPT ![r].pc = label]

LoopEnds(r) ==
  /\ At(r, "load")
  /\ rank[r].generation = num_gens
  /\ GoTo(r, "done")
  /\ UNCHANGED <<disk, job, drawn>>

(* GetPolicy throws if it cannot load the policy, get_splits if there is   *)
(* nothing to cut.                                                         *)
LoadPolicy(r) ==
  LET g == rank[r].generation
  IN  /\ At(r, "load")
      /\ g < num_gens
      /\ IF ~Loadable(g) \/ CannotSplit(r)
         THEN GoTo(r, "failed")
         ELSE rank' = [rank EXCEPT ![r].pc = "collect", ![r].policy = PolicyOf(g)]
      /\ UNCHANGED <<disk, job, drawn>>

(* Faulty variant: the offset of the rank is forgotten. *)
NumberOnNode(r, t) == ThreadStart(r, t) + rank[r].added[t] + 1 + rank[r].seed_offset

(* offset + num_samples_added: also the seed of the rollouts for the sample. *)
SampleNumber(r, t) ==
  NodeStart(r) + ThreadStart(r, t) + rank[r].added[t] + 1 + rank[r].seed_offset

(* Faulty variant: one sample past the end of the thread's span. *)
HasRoomOrFull(r, t) == rank[r].added[t] <= ThreadSize(r, t)

(* num_samples_added < somesamples.size() *)
HasRoom(r, t) == rank[r].added[t] < ThreadSize(r, t)

Sampling(r, t) == At(r, "collect") /\ t \notin rank[r].thrown

AddSample(r, t) ==
  LET slot   == ThreadStart(r, t) + rank[r].added[t]
      number == SampleNumber(r, t)
  IN  /\ Sampling(r, t)
      /\ HasRoom(r, t)
      /\ rank' = [rank EXCEPT
                    ![r].sample_vec[slot] = [number |-> number, policy |-> rank[r].policy],
                    ![r].added[t] = @ + 1]
      /\ drawn' = drawn \cup {<<number, rank[r].generation, r, slot>>}
      /\ UNCHANGED <<disk, job>>

SamplingThrows(r, t) ==
  /\ Sampling(r, t)
  /\ HasRoom(r, t)
  /\ rank' = [rank EXCEPT ![r].thrown = @ \cup {t}]
  /\ UNCHANGED <<disk, job, drawn>>

(* "check that each sample number is bigger than the previous" *)
StrictlyIncreasing(vec) ==
  LET filled == {s \in DOMAIN vec : vec[s] # None}
  IN  \A i, j \in filled : i < j => vec[i].number < vec[j].number

(* Faulty variant: the offset advances by the rank's own share. *)
SeedAfterOwnShare(r) == rank[r].seed_offset + ToCollect(r)

SeedAfter(r) == rank[r].seed_offset + N

(* parallel_compute returns when all threads ended, or rethrows.  Slots    *)
(* without a state are dropped silently.                                   *)
SamplingEnds(r) ==
  LET vec == rank[r].sample_vec
  IN  /\ At(r, "collect")
      /\ \A t \in Threads(r) \ rank[r].thrown : ~HasRoom(r, t)
      /\ IF rank[r].thrown # {} \/ ~StrictlyIncreasing(vec)
         THEN GoTo(r, "failed")
         ELSE rank' = [rank EXCEPT
                         ![r].pc = IF r > 0 THEN "save" ELSE "barrier_saved",
                         ![r].seed_offset = SeedAfter(r),
                         ![r].sample_data = {vec[s] : s \in Slots(r)} \ {None},
                         ![r].sample_vec = NoSamples(r),
                         ![r].added = NoneAdded(r)]
      /\ UNCHANGED <<disk, job, drawn>>

-----------------------------------------------------------------------------
(***************************************************************************)
(* Files are written in place: opened, which empties them, then filled.    *)
(***************************************************************************)
Write(r, from, to, f, content) ==
  /\ At(r, from)
  /\ IF disk[f] # Torn
     THEN disk' = [disk EXCEPT ![f] = Torn] /\ UNCHANGED rank
     ELSE disk' = [disk EXCEPT ![f] = Content(content)] /\ GoTo(r, to)
  /\ UNCHANGED <<job, drawn>>

(* SampleData::SaveToFile: throws before it opens the file if the states   *)
(* of the MDP cannot be saved.                                             *)
SaveToFile(r, from, to, f) ==
  IF SupportsGetStateFromVarGroup
  THEN Write(r, from, to, f, rank[r].sample_data)
  ELSE At(r, from) /\ GoTo(r, "failed") /\ UNCHANGED <<disk, job, drawn>>

SaveTemp(r) == r > 0 /\ SaveToFile(r, "save", "barrier_saved", Temp(r))

(***************************************************************************)
(* AddBarrier is an anonymous MPI_Barrier: it lets everybody go on when    *)
(* everybody is at some barrier, whichever it is.                          *)
(***************************************************************************)
Barriers  == {"barrier_saved", "barrier_merged", "barrier_trained"}
Waiting(r) == rank[r].pc \in Barriers

(* Faulty variant: only rank 0 meets the others after training. *)
AfterWithoutThird(r) ==
  CASE At(r, "barrier_saved")   -> IF r = 0 THEN "merge" ELSE "barrier_merged"
    [] At(r, "barrier_merged")  -> IF r = 0 THEN "train" ELSE "next"
    [] At(r, "barrier_trained") -> "next"

After(r) ==
  CASE At(r, "barrier_saved")   -> IF r = 0 THEN "merge" ELSE "barrier_merged"
    [] At(r, "barrier_merged")  -> IF r = 0 THEN "train" ELSE "barrier_trained"
    [] At(r, "barrier_trained") -> "next"

(* Faulty variant: nobody waits. *)
PassBarrier ==
  /\ \E r \in Ranks : Waiting(r) /\ GoTo(r, After(r))
  /\ UNCHANGED <<disk, job, drawn>>

Barrier ==
  /\ \A r \in Ranks : Waiting(r)
  /\ rank' = [r \in Ranks |-> [rank[r] EXCEPT !.pc = After(r)]]
  /\ UNCHANGED <<disk, job, drawn>>

NextGeneration(r) ==
  /\ At(r, "next")
  /\ rank' = [rank EXCEPT ![r].pc = "load",
                          ![r].generation = @ + 1,
                          ![r].policy = None,
                          ![r].sample_data = {},
                          ![r].merged = {}]
  /\ UNCHANGED <<disk, job, drawn>>

-----------------------------------------------------------------------------
(***************************************************************************)
(* Rank 0 alone: merging and training.                                     *)
(***************************************************************************)
Gen == rank[0].generation

(* SampleData::AddFromFile: the file is there and whole, and its states    *)
(* can be read back.  All files are of the same MDP.                       *)
CanAdd(f) == SupportsGetStateFromVarGroup /\ Readable(f)

(* Reads the file of the next rank and removes it. *)
MergeFile(r) ==
  /\ At(0, "merge")
  /\ rank[0].merged = 1 .. r - 1
  /\ IF CanAdd(Temp(r))
     THEN /\ rank' = [rank EXCEPT ![0].sample_data = @ \cup Read(Temp(r)),
                                  ![0].merged = @ \cup {r}]
          /\ disk' = [disk EXCEPT ![Temp(r)] = Absent]
     ELSE GoTo(0, "failed") /\ UNCHANGED disk
  /\ UNCHANGED <<job, drawn>>

SaveSamples ==
  /\ rank[0].merged = 1 .. WorldSize - 1
  /\ SaveToFile(0, "merge", "barrier_merged", Samples(Gen))

(* A twentieth of the samples, one at least, is kept for validation. *)
TrainingSize(size) == size - (IF size \div 20 > 1 THEN size \div 20 ELSE 1)

(* "Ensure we have at least one mini-batch of training data" *)
Sufficient(size) == TrainingSize(size) >= job.mini_batch_size

(* PolicyTrainer::TrainPolicy adds the samples, then throws if the build   *)
(* has no Torch or the samples are too few.                                *)
LoadSamples ==
  /\ At(0, "train")
  /\ GoTo(0, IF /\ CanAdd(Samples(Gen))
                /\ DP_TORCH_AVAILABLE
                /\ Sufficient(Cardinality(Read(Samples(Gen))))
             THEN "fit" ELSE "failed")
  /\ UNCHANGED <<disk, job, drawn>>

(* The weights are kept in a file each time the validation loss improves,  *)
(* the first evaluation included; the last ones are the trained policy.    *)
Fit == Write(0, "fit", "fitted", Checkpoint, <<Gen + 1, job.run>>)

TakeBest ==
  /\ At(0, "fitted")
  /\ rank' = [rank EXCEPT ![0].pc = "save_weights", ![0].policy = Read(Checkpoint)]
  /\ disk' = [disk EXCEPT ![Checkpoint] = Absent]
  /\ UNCHANGED <<job, drawn>>

SaveWeights == Write(0, "save_weights", "save_config", Weights(Gen + 1), rank[0].policy)
SaveConfig  == Write(0, "save_config", "trained", Config(Gen + 1), Gen + 1)

(* remove_file throws if there is no such file. *)
RemovesSamples ==
  /\ ~job.retrain_lastgen_only
  /\ \/ delete_samples_after_training
     \/ keep_samples_lastgen_only /\ Gen < num_gens - 1

AfterTraining ==
  /\ At(0, "trained")
  /\ GoTo(0, IF RemovesSamples /\ disk[Samples(Gen)] = Absent THEN "failed"
             ELSE IF job.retrain_lastgen_only THEN "done"
             ELSE "barrier_trained")
  /\ disk' = IF RemovesSamples THEN [disk EXCEPT ![Samples(Gen)] = Absent] ELSE disk
  /\ UNCHANGED <<job, drawn>>

-----------------------------------------------------------------------------
RankStep(r) ==
  \/ LoopEnds(r) \/ LoadPolicy(r)
  \/ \E t \in Threads(r) : AddSample(r, t)
  \/ SamplingEnds(r) \/ SaveTemp(r) \/ NextGeneration(r)

LeaderStep ==
  \/ \E r \in Ranks \ {0} : MergeFile(r)
  \/ SaveSamples \/ LoadSamples \/ Fit \/ TakeBest \/ SaveWeights \/ SaveConfig
  \/ AfterTraining

Fault == Restart \/ \E r \in Ranks : \E t \in Threads(r) : SamplingThrows(r, t)

(* Everybody has ended, or waits at a barrier that somebody never reaches. *)
Ended(r) == rank[r].pc \in {"done", "failed"}
Stopped ==
  /\ \A r \in Ranks : Ended(r) \/ Waiting(r)
  /\ \E r \in Ranks : Ended(r)
  /\ UNCHANGED vars

Next == (\E r \in Ranks : RankStep(r)) \/ LeaderStep \/ Barrier \/ Fault \/ Stopped

(* Every rank that can run does.  Nothing is assumed of faults. *)
Fairness == (\A r \in Ranks : WF_vars(RankStep(r))) /\ WF_vars(LeaderStep) /\ WF_vars(Barrier)

Spec == Init /\ [][Next]_vars /\ Fairness

-----------------------------------------------------------------------------
TypeOK ==
  /\ \A r \in Ranks :
       /\ rank[r].pc \in {"load", "collect", "save", "merge", "train", "fit", "fitted",
                         "save_weights", "save_config", "trained", "next", "done", "failed"}
                         \cup Barriers
       /\ rank[r].generation \in 0 .. num_gens
       /\ rank[r].seed_offset \in Nat
       /\ DOMAIN rank[r].sample_vec = Slots(r)
       /\ \A t \in Threads(r) : rank[r].added[t] \in 0 .. ThreadSize(r, t)
       /\ rank[r].thrown \subseteq Threads(r)
       /\ rank[r].merged \subseteq Ranks
  /\ DOMAIN disk = Files
  /\ job.run \in Nat

(* What policy g + 1 is trained on is exactly one collection: N samples    *)
(* with the next N numbers, all taken in this run with policy g, however   *)
(* the collection was cut and whatever files an earlier run left.          *)
SampleFileExact ==
  (At(0, "train") /\ ~job.retrain_lastgen_only) =>
    Read(Samples(Gen)) =
      {[number |-> n, policy |-> PolicyOf(Gen)]
         : n \in rank[0].seed_offset - N + 1 .. rank[0].seed_offset}

(* "setting it true will secure different seeding between generations": in *)
(* one run of the job no sample number, and so no seed, is used for two    *)
(* samples, be they of two generations, ranks, threads or slots.           *)
SeedsNeverReused == \A x, y \in drawn : x[1] = y[1] => x = y

(* The barriers have no names: when they let the ranks go, all of them are *)
(* at the same one, in the same generation.                                *)
BarriersAligned ==
  [][Barrier => \A r \in Ranks : /\ rank[r].pc = rank[0].pc
                                 /\ rank[r].generation = Gen]_vars

(* A rank stops only for a reason that is its own and could be told before *)
(* the job starts, or because its sampling throws: never for what another  *)
(* rank or a killed run did or left.  The files it reads or removes are    *)
(* there and whole, they hold the N samples its mini-batch was chosen for, *)
(* and the numbers come out in order.                                      *)
CannotStore == ~SupportsGetStateFromVarGroup
CannotTrain == ~DP_TORCH_AVAILABLE \/ ~Sufficient(N)
Faulty(r) ==
  \/ rank[r].thrown # {}
  \/ CannotSplit(r)
  \/ CannotStore
  \/ r = 0 /\ CannotTrain
OnlyFaultsStopRanks == \A r \in Ranks : At(r, "failed") => Faulty(r)

(* In the last run of the job every rank gets to its end, unless some rank *)
(* stops with an error: then the others may wait for ever at a barrier it  *)
(* never reaches.  OnlyFaultsStopRanks says which errors that can be.      *)
EveryRankFinishes ==
  <>[]((\A r \in Ranks : At(r, "done")) \/ (\E r \in Ranks : At(r, "failed")))
=============================================================================
