----------------------- MODULE SampleGenerationProofs ------------------------
(***************************************************************************)
(* Theorems about SampleGeneration, for any number of ranks, threads,      *)
(* samples and generations, with sampling that throws and jobs that are    *)
(* killed and resumed: the anonymous barriers let go of ranks at the same  *)
(* barrier only, no sample number is used twice in a run of the job, every *)
(* policy is trained on exactly one collection, and no rank fails but for  *)
(* sampling that throws and what its configuration rules out.              *)
(***************************************************************************)
EXTENDS SampleGeneration, SplitsProofs, FiniteSetTheorems

(* Where a rank can stand. *)
Before  == {"load", "collect"}
Alone   == {"train", "fit", "fitted", "save_weights", "save_config", "trained"}
Sampled == {"save", "merge", "next"} \cup Alone \cup Barriers
Over    == {"done", "failed"}

(* Which part of its generation a rank is in: a barrier ends each of the   *)
(* first three.                                                            *)
Stage(label) ==
  IF label \in {"load", "collect", "save", "barrier_saved"} THEN 0
  ELSE IF label \in {"merge", "barrier_merged"} THEN 1
  ELSE IF label \in Alone \cup {"barrier_trained"} THEN 2
  ELSE 3

(* The number of barriers a rank has passed, had it begun at generation 0. *)
Epoch(state) == 3 * state.generation + Stage(state.pc)

-----------------------------------------------------------------------------
(***************************************************************************)
(* The inductive invariant.                                                *)
(***************************************************************************)

(* The numbers used before generation g of this run. *)
UsedBefore(g) == N * (g - job.resume_gen)

(* A rank's state has the members of JobStart. *)
Members == {"pc", "generation", "policy", "seed_offset", "sample_vec", "added", "thrown",
            "sample_data", "merged"}
Shaped(state) == DOMAIN state = Members

RankOK(r, state) ==
  /\ Shaped(state)
  /\ state.pc \in Before \cup Sampled \cup Over
  /\ state.generation \in Nat
  /\ state.seed_offset \in Int
  /\ state.added \in [Threads(r) -> Nat]
  /\ job.retrain_lastgen_only => state.pc \in Alone \cup Over
  /\ state.pc = "collect" => ~ CannotSplit(r)
  /\ state.pc \in Before => state.seed_offset = UsedBefore(state.generation)
  /\ (state.pc \in Sampled /\ ~ job.retrain_lastgen_only)
       => state.seed_offset = UsedBefore(state.generation) + N

(* The ranks that are under way have passed as many barriers. *)
Aligned ==
  \A r, q \in Ranks :
    rank[r].pc \notin Over /\ rank[q].pc \notin Over => Epoch(rank[r]) = Epoch(rank[q])

(* A sample number tells generation, rank and slot. *)
NumberOf(g, r, slot) == UsedBefore(g) + NodeStart(r) + slot + 1
DrawnOK ==
  \A x \in drawn :
    \E g \in Nat, r \in Ranks, slot \in Nat :
      /\ ~ SplitsThrow(N, WorldSize)
      /\ slot < ToCollect(r)
      /\ x = <<NumberOf(g, r, slot), g, r, slot>>

GInv ==
  /\ job.resume_gen \in Nat
  /\ rank = [r \in Ranks |-> rank[r]]
  /\ \A r \in Ranks : RankOK(r, rank[r])
  /\ Aligned
  /\ DrawnOK

-----------------------------------------------------------------------------
LEMMA Root == 0 \in Ranks /\ WorldSize \in Nat \ {0} /\ N \in Nat \ {0} /\ num_gens \in Nat
BY WorldAssumption DEF Ranks

(* A generation uses the N numbers after those of the one before. *)
LEMMA UsedInt ==
  ASSUME GInv, NEW g \in Nat
  PROVE  /\ UsedBefore(g) \in Int
         /\ UsedBefore(g + 1) = UsedBefore(g) + N
<1>1. N \in Nat /\ job.resume_gen \in Nat
  BY Root DEF GInv
<1>2. N * ((g + 1) - job.resume_gen) = N * (g - job.resume_gen) + N
  <2>1. PICK d \in Int : d = g - job.resume_gen
    BY <1>1
  <2>2. (g + 1) - job.resume_gen = d + 1
    BY <1>1, <2>1
  <2>3. N * (d + 1) = N * d + N
    BY <1>1
  <2> QED
    BY <2>1, <2>2, <2>3
<1> QED
  BY <1>1, <1>2 DEF UsedBefore

(* A run of the job starts every rank at the same place, or leaves work to *)
(* rank 0 only.                                                            *)
LEMMA Started ==
  ASSUME rank = JobStart(job), job.resume_gen \in Nat, drawn = {},
         job.retrain_lastgen_only => num_gens - 1 \in Nat
  PROVE  GInv
<1>1. N \in Nat
  BY Root
<1>2. UsedBefore(job.resume_gen) = 0
  BY <1>1 DEF UsedBefore
<1>3. ASSUME NEW r \in Ranks
      PROVE  RankOK(r, rank[r])
  <2>1. rank[r] = [pc |-> IF ~job.retrain_lastgen_only THEN "load"
                          ELSE IF r = 0 THEN "train" ELSE "done",
                   generation |-> IF job.retrain_lastgen_only THEN num_gens - 1
                                  ELSE job.resume_gen,
                   policy |-> None, seed_offset |-> 0, sample_vec |-> NoSamples(r),
                   added |-> NoneAdded(r), thrown |-> {}, sample_data |-> {}, merged |-> {}]
    BY DEF JobStart
  <2>2. Shaped(rank[r])
    BY <2>1 DEF Shaped, Members
  <2>3. rank[r].added \in [Threads(r) -> Nat]
    BY <2>1 DEF NoneAdded
  <2>4. CASE job.retrain_lastgen_only
    <3>1. rank[r].pc \in {"train", "done"} /\ rank[r].generation = num_gens - 1
          /\ rank[r].seed_offset = 0
      BY <2>1, <2>4
    <3> QED
      BY <2>2, <2>3, <2>4, <3>1 DEF RankOK, Alone, Over, Sampled, Before
  <2>5. CASE ~ job.retrain_lastgen_only
    <3>1. rank[r].pc = "load" /\ rank[r].generation = job.resume_gen
          /\ rank[r].seed_offset = 0
      BY <2>1, <2>5
    <3> QED
      BY <1>2, <2>2, <2>3, <2>5, <3>1 DEF RankOK, Alone, Over, Sampled, Before, Barriers
  <2> QED
    BY <2>4, <2>5
<1>4. rank = [r \in Ranks |-> rank[r]]
  BY DEF JobStart
<1>5. Aligned
  <2>1. SUFFICES ASSUME NEW r \in Ranks, NEW q \in Ranks,
                        rank[r].pc \notin Over, rank[q].pc \notin Over
                 PROVE  Epoch(rank[r]) = Epoch(rank[q])
    BY DEF Aligned
  <2>2. CASE job.retrain_lastgen_only
    <3>1. \A u \in Ranks : u # 0 => rank[u].pc = "done"
      BY <2>2 DEF JobStart
    <3>2. r = 0 /\ q = 0
      BY <2>1, <3>1 DEF Over
    <3> QED
      BY <3>2
  <2>3. CASE ~ job.retrain_lastgen_only
    BY <2>3 DEF JobStart, Epoch
  <2> QED
    BY <2>2, <2>3
<1>6. DrawnOK
  BY DEF DrawnOK
<1> QED
  BY <1>3, <1>4, <1>5, <1>6 DEF GInv

LEMMA InitGInv == Init => GInv
<1> SUFFICES ASSUME Init PROVE GInv
  OBVIOUS
<1>1. job.resume_gen = 0 /\ ~ job.retrain_lastgen_only
  BY DEF Init, Configured
<1> QED
  BY <1>1, Started DEF Init

LEMMA RestartKeeps ==
  ASSUME GInv, Restart
  PROVE  GInv'
<1>1. job'.resume_gen \in Nat /\ (job'.retrain_lastgen_only => num_gens - 1 \in Nat)
  BY Root DEF Restart, NextRuns, Configured
<1>2. rank' = JobStart(job') /\ drawn' = {}
  BY DEF Restart
<1>3. (rank = JobStart(job) /\ job.resume_gen \in Nat /\ drawn = {}
        /\ (job.retrain_lastgen_only => num_gens - 1 \in Nat) => GInv)'
  BY Started, PTL
<1> QED
  BY <1>1, <1>2, <1>3

-----------------------------------------------------------------------------
(***************************************************************************)
(* Steps of one rank that stay in its part of the generation.              *)
(***************************************************************************)
LEMMA MoveKeeps ==
  ASSUME GInv, NEW r \in Ranks, NEW state,
         rank' = [rank EXCEPT ![r] = state], job' = job, DrawnOK',
         RankOK(r, state),
         \/ state.pc \in Over
         \/ rank[r].pc \notin Over /\ Epoch(state) = Epoch(rank[r])
  PROVE  GInv'
<1>1. rank'[r] = state /\ \A q \in Ranks \ {r} : rank'[q] = rank[q]
  BY DEF GInv
<1>2. ASSUME NEW q \in Ranks
      PROVE  RankOK(q, rank[q])'
  <2>1. CASE q = r
    BY <1>1, <2>1 DEF RankOK, Shaped, UsedBefore
  <2>2. CASE q # r
    BY <1>1, <2>2 DEF GInv, RankOK, Shaped, UsedBefore
  <2> QED
    BY <2>1, <2>2
<1>3. Aligned'
  <2>1. SUFFICES ASSUME NEW q \in Ranks, NEW p \in Ranks,
                        rank'[q].pc \notin Over, rank'[p].pc \notin Over
                 PROVE  Epoch(rank'[q]) = Epoch(rank'[p])
    BY DEF Aligned, Epoch
  <2>2. ASSUME NEW u \in Ranks, rank'[u].pc \notin Over
        PROVE  rank[u].pc \notin Over /\ Epoch(rank'[u]) = Epoch(rank[u])
    BY <1>1, <2>2
  <2> QED
    BY <2>1, <2>2 DEF GInv, Aligned
<1>4. rank' = [q \in Ranks |-> rank'[q]] /\ job'.resume_gen \in Nat
  BY DEF GInv
<1> QED
  BY <1>2, <1>3, <1>4 DEF GInv

LEMMA DrawnKept ==
  ASSUME GInv, UNCHANGED <<job, drawn>>
  PROVE  DrawnOK'
BY DEF GInv, DrawnOK, NumberOf, UsedBefore

(* What GoTo does to a rank. *)
Labelled(state, label) == [state EXCEPT !.pc = label]

LEMMA LabelledShape ==
  ASSUME NEW state, Shaped(state), NEW label
  PROVE  /\ Shaped(Labelled(state, label))
         /\ Labelled(state, label).pc = label
         /\ Labelled(state, label).generation = state.generation
         /\ Labelled(state, label).seed_offset = state.seed_offset
         /\ Labelled(state, label).added = state.added
BY DEF Labelled, Shaped, Members

(* The labels a rank may go to without meeting a barrier. *)
SamePart(from, to) ==
  \/ to \in Over
  \/ from \in Sampled /\ to \in Sampled /\ Stage(from) = Stage(to)

LEMMA GoToKeeps ==
  ASSUME GInv, NEW r \in Ranks, NEW to, GoTo(r, to), UNCHANGED <<job, drawn>>,
         SamePart(rank[r].pc, to),
         job.retrain_lastgen_only => to \in Alone \cup Over
  PROVE  GInv'
<1> DEFINE moved == Labelled(rank[r], to)
<1>1. RankOK(r, rank[r])
  BY DEF GInv
<1>2. /\ Shaped(moved) /\ moved.pc = to /\ moved.generation = rank[r].generation
      /\ moved.seed_offset = rank[r].seed_offset /\ moved.added = rank[r].added
  BY <1>1, LabelledShape DEF RankOK
<1>3. rank' = [rank EXCEPT ![r] = moved]
  BY DEF GoTo, Labelled
<1> HIDE DEF moved
<1>4. RankOK(r, moved)
  BY <1>1, <1>2 DEF RankOK, SamePart, Over, Sampled, Before, Alone, Barriers
<1>5. \/ moved.pc \in Over
      \/ rank[r].pc \notin Over /\ Epoch(moved) = Epoch(rank[r])
  BY <1>2 DEF SamePart, Epoch, Over, Sampled, Alone, Barriers
<1> QED
  BY <1>3, <1>4, <1>5, MoveKeeps, DrawnKept

(* Writing a file goes nowhere or to the label it names. *)
LEMMA WriteKeeps ==
  ASSUME GInv, NEW r \in Ranks, NEW from, NEW to, NEW f, NEW content,
         Write(r, from, to, f, content), SamePart(from, to),
         from \in Alone => to \in Alone \cup Over
  PROVE  GInv'
<1>1. rank[r].pc = from /\ UNCHANGED <<job, drawn>>
  BY DEF Write, At
<1>2. CASE UNCHANGED rank
  BY <1>1, <1>2, DrawnKept DEF GInv, RankOK, Shaped, UsedBefore, Aligned, Epoch
<1>3. CASE GoTo(r, to)
  <2>1. job.retrain_lastgen_only => to \in Alone \cup Over
    BY <1>1 DEF GInv, RankOK, SamePart, Sampled, Alone, Over, Barriers
  <2> QED
    BY <1>1, <1>3, <2>1, GoToKeeps
<1> QED
  BY <1>2, <1>3 DEF Write

-----------------------------------------------------------------------------
(***************************************************************************)
(* The loop of every rank.                                                 *)
(***************************************************************************)
LEMMA LoopEndsKeeps ==
  ASSUME GInv, NEW r \in Ranks, LoopEnds(r)
  PROVE  GInv'
BY GoToKeeps DEF LoopEnds, SamePart, Over

LEMMA LoadPolicyKeeps ==
  ASSUME GInv, NEW r \in Ranks, LoadPolicy(r)
  PROVE  GInv'
<1> DEFINE g == rank[r].generation
<1>1. rank[r].pc = "load" /\ UNCHANGED <<job, drawn>>
  BY DEF LoadPolicy, At
<1>2. CASE GoTo(r, "failed")
  BY <1>1, <1>2, GoToKeeps DEF SamePart, Over
<1>3. CASE /\ ~ CannotSplit(r)
           /\ rank' = [rank EXCEPT ![r].pc = "collect", ![r].policy = PolicyOf(g)]
  <2> DEFINE moved == [rank[r] EXCEPT !.pc = "collect", !.policy = PolicyOf(g)]
  <2>1. RankOK(r, rank[r])
    BY DEF GInv
  <2>2. /\ Shaped(moved) /\ moved.pc = "collect"
        /\ moved.generation = rank[r].generation
        /\ moved.seed_offset = rank[r].seed_offset /\ moved.added = rank[r].added
    BY <2>1 DEF RankOK, Shaped, Members
  <2>3. rank' = [rank EXCEPT ![r] = moved]
    BY <1>3
  <2> HIDE DEF moved
  <2>4. RankOK(r, moved)
    BY <1>1, <1>3, <2>1, <2>2 DEF RankOK, Before, Sampled, Alone, Over, Barriers
  <2>5. rank[r].pc \notin Over /\ Epoch(moved) = Epoch(rank[r])
    BY <1>1, <2>2 DEF Epoch, Stage, Over
  <2> QED
    BY <1>1, <2>3, <2>4, <2>5, MoveKeeps, DrawnKept
<1> QED
  BY <1>2, <1>3 DEF LoadPolicy

(* What the threads of a rank that could be split still have to collect.   *)
LEMMA SlotInside ==
  ASSUME GInv, NEW r \in Ranks, NEW t \in Threads(r), rank[r].pc = "collect", HasRoom(r, t)
  PROVE  /\ ~ SplitsThrow(N, WorldSize)
         /\ rank[r].added[t] \in Nat
         /\ ThreadStart(r, t) \in Nat
         /\ NodeStart(r) \in Nat
         /\ ThreadStart(r, t) + rank[r].added[t] < ToCollect(r)
<1>1. ~ SplitsThrow(N, WorldSize) /\ ~ SplitsThrow(ToCollect(r), NumThreads(r))
  BY DEF GInv, RankOK, CannotSplit
<1>2. ToCollect(r) \in Nat /\ NodeStart(r) \in Nat
  BY <1>1, Root, SpansAdjacent DEF SplitsThrow, ToCollect, NodeStart, Ranks
<1>3. NumThreads(r) \in Nat \ {0} /\ NumThreads(r) <= ToCollect(r)
  BY <1>1, <1>2, WorldAssumption DEF SplitsThrow, NumThreads
<1>4. t \in 0 .. NumThreads(r) - 1
  BY DEF Threads
<1>5. /\ ThreadStart(r, t) \in Nat /\ ThreadSize(r, t) \in Nat
      /\ ThreadStart(r, t) + ThreadSize(r, t) <= ToCollect(r)
  BY <1>2, <1>3, <1>4, SpansAdjacent, SpanInside DEF ThreadStart, ThreadSize
<1>6. rank[r].added[t] \in Nat
  BY DEF GInv, RankOK
<1> QED
  BY <1>1, <1>2, <1>5, <1>6 DEF HasRoom

LEMMA AddSampleKeeps ==
  ASSUME GInv, NEW r \in Ranks, NEW t \in Threads(r), AddSample(r, t)
  PROVE  GInv'
<1> DEFINE g == rank[r].generation
           slot == ThreadStart(r, t) + rank[r].added[t]
           number == SampleNumber(r, t)
           vec == [rank[r].sample_vec EXCEPT
                     ![slot] = [number |-> number, policy |-> rank[r].policy]]
           more == [rank[r].added EXCEPT ![t] = @ + 1]
           moved == [rank[r] EXCEPT !.sample_vec = vec, !.added = more]
<1>1. rank[r].pc = "collect" /\ HasRoom(r, t) /\ job' = job
  BY DEF AddSample, Sampling, At
<1>2. RankOK(r, rank[r])
  BY DEF GInv
<1>3. rank' = [rank EXCEPT ![r] = moved]
  BY <1>2 DEF AddSample, RankOK, Shaped, Members
<1>4. more \in [Threads(r) -> Nat]
  BY <1>2 DEF RankOK
<1>a. /\ Shaped(moved) /\ moved.pc = rank[r].pc /\ moved.generation = rank[r].generation
      /\ moved.seed_offset = rank[r].seed_offset /\ moved.added = more
  <2> HIDE DEF vec, more
  <2> QED
    BY <1>2 DEF RankOK, Shaped, Members
<1> HIDE DEF moved, more
<1>5. RankOK(r, moved)
  BY <1>1, <1>2, <1>4, <1>a DEF RankOK, Before, Sampled, Alone, Over, Barriers
<1>6. rank[r].pc \notin Over /\ Epoch(moved) = Epoch(rank[r])
  BY <1>1, <1>a DEF Epoch, Over
<1>7. DrawnOK'
  <2>1. /\ ~ SplitsThrow(N, WorldSize) /\ slot \in Nat /\ slot < ToCollect(r)
        /\ rank[r].added[t] \in Nat /\ ThreadStart(r, t) \in Nat
    BY <1>1, SlotInside
  <2>2. g \in Nat /\ rank[r].seed_offset = UsedBefore(g)
    BY <1>1, <1>2 DEF RankOK, Before
  <2>3. NodeStart(r) \in Int /\ UsedBefore(g) \in Int
    BY <1>1, <2>2, SlotInside, UsedInt
  <2>4. number = NumberOf(g, r, slot)
    BY <2>1, <2>2, <2>3 DEF SampleNumber, NumberOf
  <2>5. drawn' = drawn \cup {<<NumberOf(g, r, slot), g, r, slot>>}
    BY <2>4 DEF AddSample
  <2> HIDE DEF g, slot, number
  <2>6. SUFFICES ASSUME NEW x \in drawn'
                 PROVE  \E h \in Nat, q \in Ranks, place \in Nat :
                          /\ ~ SplitsThrow(N, WorldSize)
                          /\ place < ToCollect(q)
                          /\ x = <<NumberOf(h, q, place), h, q, place>>
    BY <1>1 DEF DrawnOK, NumberOf, UsedBefore
  <2>7. CASE x \in drawn
    BY <2>7 DEF GInv, DrawnOK
  <2>8. CASE x = <<NumberOf(g, r, slot), g, r, slot>>
    BY <2>1, <2>2, <2>8
  <2> QED
    BY <2>5, <2>7, <2>8
<1> QED
  BY <1>1, <1>3, <1>5, <1>6, <1>7, MoveKeeps

LEMMA SamplingThrowsKeeps ==
  ASSUME GInv, NEW r \in Ranks, NEW t \in Threads(r), SamplingThrows(r, t)
  PROVE  GInv'
<1> DEFINE moved == [rank[r] EXCEPT !.thrown = @ \cup {t}]
<1>1. rank[r].pc = "collect" /\ UNCHANGED <<job, drawn>>
  BY DEF SamplingThrows, Sampling, At
<1>2. RankOK(r, rank[r])
  BY DEF GInv
<1>3. rank' = [rank EXCEPT ![r] = moved]
  BY DEF SamplingThrows
<1>4. /\ Shaped(moved) /\ moved.pc = rank[r].pc /\ moved.generation = rank[r].generation
      /\ moved.seed_offset = rank[r].seed_offset /\ moved.added = rank[r].added
  BY <1>2 DEF RankOK, Shaped, Members
<1> HIDE DEF moved
<1>5. RankOK(r, moved)
  BY <1>1, <1>2, <1>4 DEF RankOK, Before, Sampled, Alone, Over, Barriers
<1>6. rank[r].pc \notin Over /\ Epoch(moved) = Epoch(rank[r])
  BY <1>1, <1>4 DEF Epoch, Over
<1> QED
  BY <1>1, <1>3, <1>5, <1>6, MoveKeeps, DrawnKept

LEMMA SamplingEndsKeeps ==
  ASSUME GInv, NEW r \in Ranks, SamplingEnds(r)
  PROVE  GInv'
<1> DEFINE label == IF r > 0 THEN "save" ELSE "barrier_saved"
           gathered == {rank[r].sample_vec[s] : s \in Slots(r)} \ {None}
           moved == [rank[r] EXCEPT !.pc = label, !.seed_offset = SeedAfter(r),
                       !.sample_data = gathered, !.sample_vec = NoSamples(r),
                       !.added = NoneAdded(r)]
<1>1. rank[r].pc = "collect" /\ UNCHANGED <<job, drawn>>
  BY DEF SamplingEnds, At
<1>2. CASE GoTo(r, "failed")
  BY <1>1, <1>2, GoToKeeps DEF SamePart, Over
<1>3. CASE ~ GoTo(r, "failed")
  <2>1. RankOK(r, rank[r])
    BY DEF GInv
  <2>2. rank' = [rank EXCEPT ![r] = moved]
    BY <1>3 DEF SamplingEnds
  <2>3. NoneAdded(r) \in [Threads(r) -> Nat] /\ label \in {"save", "barrier_saved"}
    BY DEF NoneAdded
  <2>4. ~ job.retrain_lastgen_only
    BY <1>1, <2>1 DEF RankOK, Alone, Over
  <2>5. /\ SeedAfter(r) = UsedBefore(rank[r].generation) + N
        /\ SeedAfter(r) \in Int
    BY <1>1, <2>1, Root DEF RankOK, SeedAfter, Before
  <2>6. /\ Shaped(moved) /\ moved.pc = label /\ moved.generation = rank[r].generation
        /\ moved.seed_offset = SeedAfter(r) /\ moved.added = NoneAdded(r)
    <3> HIDE DEF label, gathered
    <3> QED
      BY <2>1 DEF RankOK, Shaped, Members
  <2> HIDE DEF moved, label
  <2>7. RankOK(r, moved)
    BY <2>1, <2>3, <2>4, <2>5, <2>6 DEF RankOK, Before, Sampled, Alone, Over, Barriers
  <2>8. rank[r].pc \notin Over /\ Epoch(moved) = Epoch(rank[r])
    BY <1>1, <2>3, <2>6 DEF Epoch, Stage, Over
  <2> QED
    BY <1>1, <2>2, <2>7, <2>8, MoveKeeps, DrawnKept
<1> QED
  BY <1>2, <1>3

LEMMA NextGenerationKeeps ==
  ASSUME GInv, NEW r \in Ranks, NextGeneration(r)
  PROVE  GInv'
<1> DEFINE moved == [rank[r] EXCEPT !.pc = "load", !.generation = rank[r].generation + 1,
                       !.policy = None, !.sample_data = {}, !.merged = {}]
<1>1. rank[r].pc = "next" /\ UNCHANGED <<job, drawn>>
  BY DEF NextGeneration, At
<1>2. RankOK(r, rank[r])
  BY DEF GInv
<1>3. rank' = [rank EXCEPT ![r] = moved]
  BY DEF NextGeneration
<1>a. /\ Shaped(moved) /\ moved.pc = "load" /\ moved.generation = rank[r].generation + 1
      /\ moved.seed_offset = rank[r].seed_offset /\ moved.added = rank[r].added
  BY <1>2 DEF RankOK, Shaped, Members
<1> HIDE DEF moved
<1>4. ~ job.retrain_lastgen_only
  BY <1>1, <1>2 DEF RankOK, Alone, Over
<1>5. /\ rank[r].generation + 1 \in Nat
      /\ rank[r].seed_offset = UsedBefore(rank[r].generation + 1)
  BY <1>1, <1>2, <1>4, UsedInt DEF RankOK, Sampled
<1>6. RankOK(r, moved)
  BY <1>2, <1>4, <1>5, <1>a DEF RankOK, Before, Sampled, Alone, Over, Barriers
<1>7. rank[r].pc \notin Over /\ Epoch(moved) = Epoch(rank[r])
  BY <1>1, <1>2, <1>a DEF Epoch, Stage, Over, RankOK, Alone
<1> QED
  BY <1>1, <1>3, <1>6, <1>7, MoveKeeps, DrawnKept

-----------------------------------------------------------------------------
(***************************************************************************)
(* Rank 0 alone, and the files.                                            *)
(***************************************************************************)
LEMMA MergeFileKeeps ==
  ASSUME GInv, NEW r \in Ranks, MergeFile(r)
  PROVE  GInv'
<1>1. rank[0].pc = "merge" /\ UNCHANGED <<job, drawn>>
  BY DEF MergeFile, At
<1>2. CASE GoTo(0, "failed")
  BY <1>1, <1>2, Root, GoToKeeps DEF SamePart, Over
<1>3. CASE rank' = [rank EXCEPT ![0].sample_data = @ \cup Read(Temp(r)),
                                ![0].merged = @ \cup {r}]
  <2> DEFINE moved == [rank[0] EXCEPT !.sample_data = @ \cup Read(Temp(r)),
                                      !.merged = @ \cup {r}]
  <2>1. RankOK(0, rank[0])
    BY Root DEF GInv
  <2>2. rank' = [rank EXCEPT ![0] = moved]
    BY <1>3, <2>1, Root DEF RankOK, Shaped, Members
  <2>3. /\ Shaped(moved) /\ moved.pc = rank[0].pc /\ moved.generation = rank[0].generation
        /\ moved.seed_offset = rank[0].seed_offset /\ moved.added = rank[0].added
    BY <2>1 DEF RankOK, Shaped, Members
  <2> HIDE DEF moved
  <2>4. RankOK(0, moved)
    BY <1>1, <2>1, <2>3 DEF RankOK, Before, Sampled, Alone, Over, Barriers
  <2>5. rank[0].pc \notin Over /\ Epoch(moved) = Epoch(rank[0])
    BY <1>1, <2>3 DEF Epoch, Over
  <2> QED
    BY <1>1, <2>2, <2>4, <2>5, Root, MoveKeeps, DrawnKept
<1> QED
  BY <1>2, <1>3 DEF MergeFile

LEMMA LoadSamplesKeeps ==
  ASSUME GInv, LoadSamples
  PROVE  GInv'
<1>1. rank[0].pc = "train" /\ UNCHANGED <<job, drawn>>
  BY DEF LoadSamples, At
<1>2. PICK to \in {"fit", "failed"} : GoTo(0, to)
  BY DEF LoadSamples
<1>3. SamePart("train", to) /\ to \in Alone \cup Over
  BY DEF SamePart, Sampled, Alone, Over, Stage
<1> QED
  BY <1>1, <1>2, <1>3, Root, GoToKeeps

LEMMA TakeBestKeeps ==
  ASSUME GInv, TakeBest
  PROVE  GInv'
<1> DEFINE moved == [rank[0] EXCEPT !.pc = "save_weights", !.policy = Read(Checkpoint)]
<1>1. rank[0].pc = "fitted" /\ UNCHANGED <<job, drawn>>
  BY DEF TakeBest, At
<1>2. RankOK(0, rank[0])
  BY Root DEF GInv
<1>3. rank' = [rank EXCEPT ![0] = moved]
  BY DEF TakeBest
<1>4. /\ Shaped(moved) /\ moved.pc = "save_weights" /\ moved.generation = rank[0].generation
      /\ moved.seed_offset = rank[0].seed_offset /\ moved.added = rank[0].added
  BY <1>2 DEF RankOK, Shaped, Members
<1> HIDE DEF moved
<1>5. RankOK(0, moved)
  BY <1>1, <1>2, <1>4 DEF RankOK, Before, Sampled, Alone, Over, Barriers
<1>6. rank[0].pc \notin Over /\ Epoch(moved) = Epoch(rank[0])
  BY <1>1, <1>4 DEF Epoch, Stage, Alone, Over
<1> QED
  BY <1>1, <1>3, <1>5, <1>6, Root, MoveKeeps, DrawnKept

LEMMA AfterTrainingKeeps ==
  ASSUME GInv, AfterTraining
  PROVE  GInv'
<1>1. rank[0].pc = "trained" /\ UNCHANGED <<job, drawn>>
  BY DEF AfterTraining, At
<1>2. PICK to \in {"failed", "done", "barrier_trained"} :
        /\ GoTo(0, to)
        /\ job.retrain_lastgen_only => to # "barrier_trained"
  BY DEF AfterTraining
<1>3. SamePart("trained", to) /\ (to # "barrier_trained" => to \in Over)
  BY DEF SamePart, Sampled, Alone, Over, Barriers, Stage
<1> QED
  BY <1>1, <1>2, <1>3, Root, GoToKeeps

LEMMA FilesKeep ==
  ASSUME GInv,
         \/ \E r \in Ranks : SaveTemp(r)
         \/ SaveSamples \/ Fit \/ SaveWeights \/ SaveConfig
  PROVE  GInv'
<1>1. /\ SamePart("save", "barrier_saved") /\ "save" \notin Alone
      /\ SamePart("merge", "barrier_merged") /\ "merge" \notin Alone
      /\ SamePart("fit", "fitted") /\ "fitted" \in Alone
      /\ SamePart("save_weights", "save_config") /\ "save_config" \in Alone
      /\ SamePart("save_config", "trained") /\ "trained" \in Alone
  BY DEF SamePart, Sampled, Alone, Over, Barriers, Stage
<1>a. ASSUME NEW r \in Ranks, NEW from, NEW to, NEW f, SaveToFile(r, from, to, f),
             SamePart(from, to), from \notin Alone
      PROVE  GInv'
  <2>1. CASE SupportsGetStateFromVarGroup
    BY <1>a, <2>1, WriteKeeps DEF SaveToFile
  <2>2. CASE ~ SupportsGetStateFromVarGroup
    BY <1>a, <2>2, GoToKeeps DEF SaveToFile, SamePart, Over
  <2> QED
    BY <2>1, <2>2
<1>2. ASSUME NEW r \in Ranks, SaveTemp(r)
      PROVE  GInv'
  BY <1>1, <1>a, <1>2 DEF SaveTemp
<1>3. CASE SaveSamples
  BY <1>1, <1>a, <1>3, Root DEF SaveSamples
<1>4. CASE Fit
  BY <1>1, <1>4, Root, WriteKeeps DEF Fit
<1>5. CASE SaveWeights
  BY <1>1, <1>5, Root, WriteKeeps DEF SaveWeights
<1>6. CASE SaveConfig
  BY <1>1, <1>6, Root, WriteKeeps DEF SaveConfig
<1> QED
  BY <1>2, <1>3, <1>4, <1>5, <1>6

-----------------------------------------------------------------------------
(***************************************************************************)
(* The barriers.                                                           *)
(***************************************************************************)

(* Nobody is over, so all have passed as many barriers, so all stand at    *)
(* the same one.                                                           *)
LEMMA BarrierAligned ==
  ASSUME GInv, Barrier, NEW r \in Ranks
  PROVE  rank[r].pc = rank[0].pc /\ rank[r].generation = rank[0].generation
<1>1. rank[r].pc \in Barriers /\ rank[0].pc \in Barriers
  BY Root DEF Barrier, Waiting
<1>2. rank[r].generation \in Nat /\ rank[0].generation \in Nat
  BY Root DEF GInv, RankOK
<1>3. Epoch(rank[r]) = Epoch(rank[0])
  <2>1. rank[r].pc \notin Over /\ rank[0].pc \notin Over
    BY <1>1 DEF Barriers, Over
  <2> QED
    BY <2>1, Root DEF GInv, Aligned
<1>4. /\ Stage(rank[r].pc) \in 0 .. 2 /\ Stage(rank[0].pc) \in 0 .. 2
      /\ Stage(rank[r].pc) = Stage(rank[0].pc) => rank[r].pc = rank[0].pc
  BY <1>1 DEF Barriers, Stage, Alone
<1>5. /\ Stage(rank[r].pc) = Stage(rank[0].pc)
      /\ rank[r].generation = rank[0].generation
  <2>1. PICK g \in Nat, h \in Nat, i \in 0 .. 2, j \in 0 .. 2 :
          /\ g = rank[r].generation /\ h = rank[0].generation
          /\ i = Stage(rank[r].pc) /\ j = Stage(rank[0].pc)
    BY <1>2, <1>4
  <2>2. 3 * g + i = 3 * h + j
    BY <1>3, <2>1 DEF Epoch
  <2>3. g = h /\ i = j
    BY <2>2
  <2> QED
    BY <2>1, <2>3
<1> QED
  BY <1>4, <1>5

LEMMA BarrierKeeps ==
  ASSUME GInv, Barrier
  PROVE  GInv'
<1>1. job' = job /\ drawn' = drawn /\ rank' = [r \in Ranks |-> Labelled(rank[r], After(r))]
  BY DEF Barrier, Labelled
<1>2. ASSUME NEW r \in Ranks
      PROVE  /\ RankOK(r, rank[r])'
             /\ rank'[r].pc = After(r) /\ rank'[r].generation = rank[r].generation
             /\ Stage(After(r)) = Stage(rank[r].pc) + 1
             /\ After(r) \notin Over
  <2>1. rank[r].pc \in Barriers /\ RankOK(r, rank[r])
    BY DEF Barrier, Waiting, GInv
  <2>2. rank'[r] = Labelled(rank[r], After(r))
    BY <1>1
  <2>3. /\ Shaped(rank'[r]) /\ rank'[r].pc = After(r)
        /\ rank'[r].generation = rank[r].generation
        /\ rank'[r].seed_offset = rank[r].seed_offset /\ rank'[r].added = rank[r].added
    BY <2>1, <2>2, LabelledShape DEF RankOK
  <2>4. After(r) \in Sampled /\ After(r) \notin Over \cup Before
        /\ Stage(After(r)) = Stage(rank[r].pc) + 1
    BY <2>1 DEF After, At, Barriers, Sampled, Alone, Over, Before, Stage
  <2>5. ~ job.retrain_lastgen_only /\ rank[r].pc \in Sampled
    BY <2>1 DEF RankOK, Barriers, Alone, Over, Sampled
  <2>6. RankOK(r, rank'[r])
    BY <2>1, <2>3, <2>4, <2>5 DEF RankOK, Before
  <2> QED
    BY <1>1, <2>3, <2>4, <2>6 DEF RankOK, Shaped, UsedBefore
<1>3. Aligned'
  <2>1. ASSUME NEW r \in Ranks
        PROVE  Epoch(rank'[r]) = Epoch(rank'[0])
    <3>1. rank[r].pc = rank[0].pc /\ rank[r].generation = rank[0].generation
      BY BarrierAligned
    <3> QED
      BY <1>2, <3>1, Root DEF Epoch
  <2> QED
    BY <2>1 DEF Aligned, Epoch
<1>4. DrawnOK'
  BY <1>1, DrawnKept
<1> QED
  BY <1>1, <1>2, <1>3, <1>4 DEF GInv

LEMMA NextGInv == GInv /\ [Next]_vars => GInv'
<1> SUFFICES ASSUME GInv, [Next]_vars PROVE GInv'
  OBVIOUS
<1>1. ASSUME NEW r \in Ranks, RankStep(r)
      PROVE  GInv'
  BY <1>1, LoopEndsKeeps, LoadPolicyKeeps, AddSampleKeeps, SamplingEndsKeeps,
     NextGenerationKeeps, FilesKeep DEF RankStep
<1>2. CASE LeaderStep
  BY <1>2, MergeFileKeeps, LoadSamplesKeeps, TakeBestKeeps, AfterTrainingKeeps, FilesKeep
     DEF LeaderStep
<1>3. CASE Fault
  BY <1>3, RestartKeeps, SamplingThrowsKeeps DEF Fault
<1>4. CASE UNCHANGED vars
  BY <1>4, DrawnKept DEF vars, GInv, RankOK, Shaped, UsedBefore, Aligned, Epoch
<1> QED
  BY <1>1, <1>2, <1>3, <1>4, BarrierKeeps DEF Next, Stopped

-----------------------------------------------------------------------------
(* The barriers have no names: when they let the ranks go, all of them are *)
(* at the same one, in the same generation, however many ranks there are,  *)
(* whatever sampling throws and however often the job is resumed.          *)
THEOREM BarriersMeet == Spec => BarriersAligned
<1>1. GInv /\ [Next]_vars =>
        [Barrier => \A r \in Ranks : /\ rank[r].pc = rank[0].pc
                                     /\ rank[r].generation = Gen]_vars
  BY BarrierAligned DEF Gen
<1> QED
  BY InitGInv, NextGInv, <1>1, PTL DEF Spec, BarriersAligned

(* Every sample of a run has a number, and so a seed, of its own.          *)
THEOREM SeedsAreUnique == Spec => []SeedsNeverReused
<1>1. GInv => SeedsNeverReused
  <2> SUFFICES ASSUME GInv, NEW x \in drawn, NEW y \in drawn, x[1] = y[1]
               PROVE  x = y
    BY DEF SeedsNeverReused
  <2>1. PICK g \in Nat, r \in Ranks, i \in Nat :
          /\ ~ SplitsThrow(N, WorldSize) /\ i < ToCollect(r)
          /\ x = <<NumberOf(g, r, i), g, r, i>>
    BY DEF GInv, DrawnOK
  <2>2. PICK h \in Nat, q \in Ranks, j \in Nat :
          /\ j < ToCollect(q)
          /\ y = <<NumberOf(h, q, j), h, q, j>>
    BY DEF GInv, DrawnOK
  <2>3. WorldSize \in Nat \ {0} /\ WorldSize <= N /\ N \in Nat \ {0}
        /\ Ranks = 0 .. WorldSize - 1
    BY <2>1, Root DEF SplitsThrow, Ranks
  <2>4. ASSUME NEW u \in Ranks
        PROVE  /\ NodeStart(u) \in Nat /\ ToCollect(u) \in Nat
               /\ NodeStart(u) + ToCollect(u) <= N
    BY <2>3, SpansAdjacent, SpanInside DEF NodeStart, ToCollect
  <2> DEFINE a == NodeStart(r) + i
             b == NodeStart(q) + j
  <2>5. a \in 0 .. N - 1 /\ b \in 0 .. N - 1
    <3>1. /\ NodeStart(r) \in Nat /\ ToCollect(r) \in Nat /\ NodeStart(r) + ToCollect(r) <= N
          /\ NodeStart(q) \in Nat /\ ToCollect(q) \in Nat /\ NodeStart(q) + ToCollect(q) <= N
      BY <2>4
    <3>2. i < ToCollect(r) /\ j < ToCollect(q) /\ N \in Nat
      BY <2>1, <2>2, <2>3
    <3> QED
      BY <3>1, <3>2
  <2>6. UsedBefore(g) + a = UsedBefore(h) + b
    <3>1. NumberOf(g, r, i) = NumberOf(h, q, j)
      BY <2>1, <2>2
    <3> QED
      BY <3>1, <2>4, UsedInt DEF NumberOf
  <2>7. N * (g - h) = b - a
    <3>1. job.resume_gen \in Nat
      BY DEF GInv
    <3>2. N * (g - job.resume_gen) = N * (g - h) + N * (h - job.resume_gen)
      BY <2>3, <3>1
    <3> HIDE DEF a, b
    <3> QED
      BY <2>3, <2>5, <2>6, <3>1, <3>2 DEF UsedBefore
  <2> HIDE DEF a, b
  <2>8. g = h
    <3>1. g > h => N * (g - h) >= N
      BY <2>3
    <3>2. g < h => N * (g - h) <= -N
      BY <2>3
    <3> QED
      BY <2>3, <2>5, <2>7, <3>1, <3>2
  <2>9. a = b
    BY <2>3, <2>5, <2>7, <2>8
  <2>10. r = q /\ i = j
    <3>1. i \in 0 .. SpanSize(N, WorldSize, r) - 1 /\ j \in 0 .. SpanSize(N, WorldSize, q) - 1
      BY <2>1, <2>2, <2>4 DEF ToCollect
    <3>2. SpanStart(N, WorldSize, r) + i = SpanStart(N, WorldSize, q) + j
      BY <2>9 DEF a, b, NodeStart
    <3> QED
      BY <2>3, <3>1, <3>2, SpansApart
  <2> QED
    BY <2>1, <2>2, <2>8, <2>10
<1> QED
  BY InitGInv, NextGInv, <1>1, PTL DEF Spec

-----------------------------------------------------------------------------
(***************************************************************************)
(* The files.  A generation's samples are numbered on from those before    *)
(* it and all taken with its policy, which is on the disk before anybody   *)
(* enters the generation.                                                  *)
(***************************************************************************)
OwnPolicy(r)     == PolicyOf(rank[r].generation)
FirstNumber(r)   == UsedBefore(rank[r].generation)
HasPolicy(r)     == Loadable(rank[r].generation)
HasNextPolicy(r) == Loadable(rank[r].generation + 1)

(* A rank's share of the samples taken with a policy and numbered from     *)
(* base on, the shares of the first ranks, and all samples.                *)
SampleOf(policy, number)   == [number |-> number, policy |-> policy]
SlotSample(policy, base, r, slot) == SampleOf(policy, base + NodeStart(r) + slot + 1)
Share(policy, base, r)      == {SlotSample(policy, base, r, slot) : slot \in Slots(r)}
SharesUpTo(policy, base, m) == UNION {Share(policy, base, r) : r \in 0 .. m}
Collection(policy, base)    == {SampleOf(policy, base + i) : i \in 1 .. N}

(* Each thread has filled its span of the vector from the left.            *)
VecFilled(r, vec, added, policy, base) ==
  /\ DOMAIN vec = Slots(r)
  /\ \A t \in Threads(r) :
       /\ added[t] <= ThreadSize(r, t)
       /\ \A i \in 0 .. ThreadSize(r, t) - 1 :
            vec[ThreadStart(r, t) + i] =
              IF i < added[t] THEN SlotSample(policy, base, r, ThreadStart(r, t) + i) ELSE None

(* What a rank has, in memory and on the disk, where it stands.            *)
RankFiles(r) ==
  /\ rank[r].pc = "failed" => Faulty(r)
  /\ rank[r].pc \notin {"collect", "failed"} => rank[r].thrown = {}
  /\ rank[r].pc \notin Over => /\ rank[r].generation <= num_gens
                               /\ ~ job.retrain_lastgen_only => HasPolicy(r)
  /\ rank[r].pc \in {"collect"} \cup Sampled =>
       rank[r].generation < num_gens /\ (~ job.retrain_lastgen_only => ~ CannotSplit(r))
  /\ rank[r].pc \in {"load"} \cup Sampled =>
       rank[r].sample_vec = NoSamples(r) /\ rank[r].added = NoneAdded(r)
  /\ rank[r].pc = "collect" =>
       /\ rank[r].policy = OwnPolicy(r)
       /\ VecFilled(r, rank[r].sample_vec, rank[r].added, OwnPolicy(r), FirstNumber(r))
  /\ rank[r].pc = "save" \/ (r = 0 /\ rank[r].pc = "barrier_saved") =>
       rank[r].sample_data = Share(OwnPolicy(r), FirstNumber(r), r)
  /\ r # 0 /\ rank[r].pc = "barrier_saved" =>
       disk[Temp(r)] = Content(Share(OwnPolicy(r), FirstNumber(r), r))
  /\ rank[r].pc = "next" => HasNextPolicy(r)

(* Rank 0 has merged the first m files, and the others are there; while it *)
(* trains, the samples are there; then the next policy is.                 *)
Merged(m) ==
  /\ rank[0].merged = 1 .. m
  /\ rank[0].sample_data = SharesUpTo(OwnPolicy(0), FirstNumber(0), m)
  /\ \A r \in m + 1 .. WorldSize - 1 :
       disk[Temp(r)] = Content(Share(OwnPolicy(0), FirstNumber(0), r))

SamplesThere ==
  /\ Readable(Samples(Gen))
  /\ ~ job.retrain_lastgen_only =>
       Read(Samples(Gen)) = Collection(OwnPolicy(0), FirstNumber(0))

LeaderFiles ==
  /\ rank[0].pc \in Before \cup {"barrier_saved"} => rank[0].merged = {}
  /\ rank[0].pc = "merge" => \E m \in 0 .. WorldSize - 1 : Merged(m)
  /\ rank[0].pc \in {"barrier_merged"} \cup Alone => SamplesThere
  /\ rank[0].pc \in Alone \ {"train"} => DP_TORCH_AVAILABLE
  /\ rank[0].pc = "save_config" => Readable(Weights(Gen + 1))
  /\ rank[0].pc \in {"trained", "barrier_trained"} => HasNextPolicy(0)

FInv ==
  /\ GInv
  /\ disk = [f \in Files |-> disk[f]]
  /\ \A r \in Ranks : RankFiles(r)
  /\ LeaderFiles

-----------------------------------------------------------------------------
(* No two files share a name. *)
LEMMA FilesDiffer ==
  /\ \A r, q : r # q => Temp(r) # Temp(q)
  /\ \A r, g : Temp(r) # Samples(g) /\ Temp(r) # Weights(g) /\ Temp(r) # Config(g)
  /\ \A g, h : Samples(g) # Weights(h) /\ Samples(g) # Config(h) /\ Weights(g) # Config(h)
  /\ \A g, h : g # h => Weights(g) # Weights(h) /\ Config(g) # Config(h)
  /\ \A r : Checkpoint # Temp(r) /\ Checkpoint # Samples(r)
            /\ Checkpoint # Weights(r) /\ Checkpoint # Config(r)
BY DEF Temp, Samples, Weights, Config, Checkpoint

LEMMA AreFiles ==
  /\ \A r \in Ranks : Temp(r) \in Files
  /\ \A g \in 0 .. num_gens : Samples(g) \in Files /\ Weights(g) \in Files /\ Config(g) \in Files
  /\ Checkpoint \in Files
BY DEF Files

(* A file is not readable before its content is there, and then holds it.  *)
LEMMA Contents ==
  \A c : Content(c)[1] = "whole" /\ Content(c)[2] = c /\ Content(c) # Torn /\ Content(c) # Absent
BY DEF Content, Torn, Absent

(* While a rank is past the first barrier of its generation, and not past  *)
(* the last, everybody under way is at the same part of that generation.   *)
LEMMA SameStage ==
  ASSUME GInv, NEW r \in Ranks, NEW q \in Ranks, rank[r].pc \notin Over, rank[q].pc \notin Over,
         Stage(rank[r].pc) \in {1, 2}
  PROVE  /\ rank[q].generation = rank[r].generation
         /\ Stage(rank[q].pc) = Stage(rank[r].pc)
<1>1. PICK g \in Nat, h \in Nat, i \in 1 .. 2, j \in 0 .. 3 :
        /\ g = rank[r].generation /\ h = rank[q].generation
        /\ i = Stage(rank[r].pc) /\ j = Stage(rank[q].pc)
  BY DEF GInv, RankOK, Stage
<1>2. 3 * g + i = 3 * h + j
  BY <1>1 DEF GInv, Aligned, Epoch
<1>3. g = h /\ i = j
  BY <1>2
<1> QED
  BY <1>1, <1>3

(* What a rank's facts depend on. *)
SamePolicy(r) ==
  /\ disk'[Weights(rank[r].generation)] = disk[Weights(rank[r].generation)]
  /\ disk'[Config(rank[r].generation)] = disk[Config(rank[r].generation)]
SameNextPolicy(r) ==
  /\ disk'[Weights(rank[r].generation + 1)] = disk[Weights(rank[r].generation + 1)]
  /\ disk'[Config(rank[r].generation + 1)] = disk[Config(rank[r].generation + 1)]

(* A step that leaves a rank where it is leaves it its policy and numbers. *)
LEMMA PolicyStays ==
  ASSUME NEW r \in Ranks, rank'[r].generation = rank[r].generation, job' = job
  PROVE  /\ FirstNumber(r)' = FirstNumber(r)
         /\ SamePolicy(r) => OwnPolicy(r)' = OwnPolicy(r) /\ (HasPolicy(r)' <=> HasPolicy(r))
         /\ SameNextPolicy(r) => (HasNextPolicy(r)' <=> HasNextPolicy(r))
<1>1. FirstNumber(r)' = FirstNumber(r)
  BY DEF FirstNumber, UsedBefore
<1>2. SamePolicy(r) => OwnPolicy(r)' = OwnPolicy(r)
  BY DEF SamePolicy, OwnPolicy, PolicyOf, Read
<1>3. SamePolicy(r) => (HasPolicy(r)' <=> HasPolicy(r))
  BY DEF SamePolicy, HasPolicy, Loadable, Readable
<1>4. SameNextPolicy(r) => (HasNextPolicy(r)' <=> HasNextPolicy(r))
  BY DEF SameNextPolicy, HasNextPolicy, Loadable, Readable
<1> QED
  BY <1>1, <1>2, <1>3, <1>4

(* A rank that does not move keeps its facts if its files stay. *)
LEMMA RankStays ==
  ASSUME NEW r \in Ranks, RankFiles(r), rank'[r] = rank[r], job' = job,
         rank[r].pc \notin Over => SamePolicy(r),
         rank[r].pc = "next" => SameNextPolicy(r),
         r # 0 /\ rank[r].pc = "barrier_saved" => disk'[Temp(r)] = disk[Temp(r)]
  PROVE  RankFiles(r)'
<1>1. FirstNumber(r)' = FirstNumber(r)
  BY PolicyStays
<1>2. rank[r].pc \notin Over =>
        OwnPolicy(r)' = OwnPolicy(r) /\ (HasPolicy(r)' <=> HasPolicy(r))
  BY PolicyStays
<1>3. rank[r].pc = "next" => (HasNextPolicy(r)' <=> HasNextPolicy(r))
  BY PolicyStays
<1>4. Faulty(r)' <=> Faulty(r)
  BY DEF Faulty, CannotTrain, Sufficient
<1> QED
  BY <1>1, <1>2, <1>3, <1>4 DEF RankFiles, Over

(* And so does rank 0. *)
LEMMA LeaderStays ==
  ASSUME GInv, LeaderFiles, rank'[0] = rank[0], job' = job,
         rank[0].pc \notin Over => SamePolicy(0),
         rank[0].pc = "merge" => \A r \in Ranks \ {0} : disk'[Temp(r)] = disk[Temp(r)],
         rank[0].pc \in {"barrier_merged"} \cup Alone => disk'[Samples(Gen)] = disk[Samples(Gen)],
         rank[0].pc \in {"save_config", "trained", "barrier_trained"} => SameNextPolicy(0)
  PROVE  LeaderFiles'
<1>1. FirstNumber(0)' = FirstNumber(0) /\ Gen' = Gen
  BY PolicyStays, Root DEF Gen
<1>2. rank[0].pc \notin Over => OwnPolicy(0)' = OwnPolicy(0)
  BY PolicyStays, Root
<1>3. rank[0].pc \in {"trained", "barrier_trained"} => (HasNextPolicy(0)' <=> HasNextPolicy(0))
  BY PolicyStays, Root
<1>4. ASSUME rank[0].pc = "merge", NEW m \in 0 .. WorldSize - 1, Merged(m)
      PROVE  Merged(m)'
  <2>1. \A r \in m + 1 .. WorldSize - 1 : r \in Ranks \ {0}
    BY Root DEF Ranks
  <2> QED
    BY <1>1, <1>2, <1>4, <2>1 DEF Merged, Over
<1>5. ASSUME rank[0].pc \in {"barrier_merged"} \cup Alone, SamplesThere
      PROVE  SamplesThere'
  <2>1. rank[0].pc \notin Over
    BY <1>5 DEF Alone, Over
  <2> QED
    BY <1>1, <1>2, <1>5, <2>1 DEF SamplesThere, Readable, Read
<1>6. rank[0].pc = "save_config" => (Readable(Weights(Gen + 1))' <=> Readable(Weights(Gen + 1)))
  BY <1>1 DEF SameNextPolicy, Readable, Gen
<1> QED
  BY <1>3, <1>4, <1>5, <1>6 DEF LeaderFiles

(* A step of rank r that writes at most one file. *)
OnlyWrites(f) == disk' = [disk EXCEPT ![f] = disk'[f]]

LEMMA StepFiles ==
  ASSUME FInv, GInv', NEW r \in Ranks, job' = job,
         \A q \in Ranks \ {r} : rank'[q] = rank[q],
         NEW f, OnlyWrites(f),
         \A q \in Ranks \ {r} :
           /\ rank[q].pc \notin Over => f # Weights(rank[q].generation)
                                        /\ f # Config(rank[q].generation)
           /\ rank[q].pc = "next" => f # Weights(rank[q].generation + 1)
                                     /\ f # Config(rank[q].generation + 1)
           /\ rank[q].pc = "barrier_saved" => f # Temp(q),
         RankFiles(r)', LeaderFiles'
  PROVE  FInv'
<1>1. \A h \in Files : h # f => disk'[h] = disk[h]
  BY DEF FInv, OnlyWrites
<1>2. ASSUME NEW q \in Ranks, q # r
      PROVE  RankFiles(q)'
  <2>1. RankFiles(q) /\ rank'[q] = rank[q]
    BY <1>2 DEF FInv
  <2>2. /\ rank[q].pc \notin Over => SamePolicy(q)
        /\ rank[q].pc = "next" => SameNextPolicy(q)
        /\ rank[q].pc = "barrier_saved" => disk'[Temp(q)] = disk[Temp(q)]
    <3>1. /\ rank[q].pc \notin Over => rank[q].generation \in 0 .. num_gens
          /\ rank[q].pc = "next" => rank[q].generation + 1 \in 0 .. num_gens
      BY <2>1, Root DEF FInv, GInv, RankOK, RankFiles, Sampled
    <3> QED
      BY <1>1, <1>2, <3>1, AreFiles DEF SamePolicy, SameNextPolicy
  <2> QED
    BY <2>1, <2>2, RankStays
<1>3. disk' = [h \in Files |-> disk'[h]]
  BY DEF FInv, OnlyWrites
<1> QED
  BY <1>2, <1>3 DEF FInv

(* A step of rank r that writes none. *)
LEMMA StepInMemory ==
  ASSUME FInv, GInv', NEW r \in Ranks, job' = job, disk' = disk,
         \A q \in Ranks \ {r} : rank'[q] = rank[q],
         RankFiles(r)', r = 0 => LeaderFiles'
  PROVE  FInv'
<1>1. ASSUME NEW q \in Ranks, q # r
      PROVE  RankFiles(q)'
  <2>1. RankFiles(q) /\ rank'[q] = rank[q]
    BY <1>1 DEF FInv
  <2> QED
    BY <2>1, RankStays DEF SamePolicy, SameNextPolicy
<1>2. LeaderFiles'
  <2>1. CASE r # 0
    <3>1. GInv /\ LeaderFiles /\ rank'[0] = rank[0]
      BY <2>1, Root DEF FInv
    <3> QED
      BY <3>1, LeaderStays DEF SamePolicy, SameNextPolicy
  <2> QED
    BY <2>1
<1>3. disk' = [h \in Files |-> disk'[h]]
  BY DEF FInv
<1> QED
  BY <1>1, <1>2, <1>3 DEF FInv

(* The fields of a rank that has been moved by EXCEPT. *)
LEMMA Fields ==
  ASSUME FInv, NEW r \in Ranks
  PROVE  /\ Shaped(rank[r]) /\ RankOK(r, rank[r]) /\ RankFiles(r) /\ GInv
         /\ \A state : rank' = [rank EXCEPT ![r] = state] =>
              rank'[r] = state /\ \A q \in Ranks \ {r} : rank'[q] = rank[q]
BY DEF FInv, GInv, RankOK

LEMMA GoToFields ==
  ASSUME FInv, NEW r \in Ranks, NEW to, GoTo(r, to)
  PROVE  /\ rank'[r].pc = to /\ rank'[r].generation = rank[r].generation
         /\ rank'[r].policy = rank[r].policy /\ rank'[r].seed_offset = rank[r].seed_offset
         /\ rank'[r].sample_vec = rank[r].sample_vec /\ rank'[r].added = rank[r].added
         /\ rank'[r].thrown = rank[r].thrown /\ rank'[r].sample_data = rank[r].sample_data
         /\ rank'[r].merged = rank[r].merged
         /\ \A q \in Ranks \ {r} : rank'[q] = rank[q]
<1> DEFINE moved == Labelled(rank[r], to)
<1>1. rank' = [rank EXCEPT ![r] = moved]
  BY DEF GoTo, Labelled
<1>2. Shaped(rank[r]) /\ rank'[r] = moved /\ \A q \in Ranks \ {r} : rank'[q] = rank[q]
  BY <1>1, Fields
<1>3. /\ moved.pc = to /\ moved.generation = rank[r].generation
      /\ moved.policy = rank[r].policy /\ moved.seed_offset = rank[r].seed_offset
      /\ moved.sample_vec = rank[r].sample_vec /\ moved.added = rank[r].added
      /\ moved.thrown = rank[r].thrown /\ moved.sample_data = rank[r].sample_data
      /\ moved.merged = rank[r].merged
  BY <1>2 DEF Labelled, Shaped, Members
<1> QED
  BY <1>2, <1>3

(* A rank that throws or comes to its end needs nothing from the disk. *)
LEMMA StopsFiles ==
  ASSUME FInv, GInv', NEW r \in Ranks, NEW to \in Over, GoTo(r, to), UNCHANGED <<disk, job>>,
         to = "failed" => Faulty(r),
         to = "done" => rank[r].thrown = {}
  PROVE  FInv'
<1>1. rank'[r].pc = to /\ rank'[r].thrown = rank[r].thrown
      /\ \A q \in Ranks \ {r} : rank'[q] = rank[q]
  BY GoToFields
<1>2. RankFiles(r)'
  BY <1>1 DEF RankFiles, Over, Sampled, Alone, Barriers, Faulty, CannotTrain, Sufficient
<1>3. r = 0 => LeaderFiles'
  BY <1>1 DEF LeaderFiles, Before, Over, Alone
<1> QED
  BY <1>1, <1>2, <1>3, StepInMemory

-----------------------------------------------------------------------------
LEMMA LoopEndsFiles ==
  ASSUME FInv, NEW r \in Ranks, LoopEnds(r)
  PROVE  FInv'
<1>1. GInv'
  BY LoopEndsKeeps DEF FInv
<1>2. rank[r].thrown = {} /\ "done" \in Over
  BY Fields DEF RankFiles, LoopEnds, At, Over
<1> QED
  BY <1>1, <1>2, StopsFiles DEF LoopEnds

-----------------------------------------------------------------------------
(* The slots of a rank that can be cut over its threads. *)
LEMMA SlotsOfThreads ==
  ASSUME NEW r \in Ranks, ~ CannotSplit(r)
  PROVE  /\ NodeStart(r) \in Nat /\ ToCollect(r) \in Nat
         /\ \A t \in Threads(r) : ThreadStart(r, t) \in Nat /\ ThreadSize(r, t) \in Nat
         /\ \A t \in Threads(r) : \A i \in 0 .. ThreadSize(r, t) - 1 :
              ThreadStart(r, t) + i \in Slots(r)
         /\ \A t, u \in Threads(r) :
              \A i \in 0 .. ThreadSize(r, t) - 1, j \in 0 .. ThreadSize(r, u) - 1 :
                ThreadStart(r, t) + i = ThreadStart(r, u) + j => t = u /\ i = j
         /\ \A s \in Slots(r) : \E t \in Threads(r) : \E i \in 0 .. ThreadSize(r, t) - 1 :
              s = ThreadStart(r, t) + i
<1> DEFINE C == ToCollect(r)
           T == NumThreads(r)
<1>1. ~ SplitsThrow(N, WorldSize) /\ ~ SplitsThrow(C, T)
  BY DEF CannotSplit
<1>2. C \in Nat /\ NodeStart(r) \in Nat
  BY <1>1, Root, SpansAdjacent DEF SplitsThrow, ToCollect, NodeStart, Ranks
<1>3. T \in Nat \ {0} /\ T <= C
  BY <1>1, <1>2, WorldAssumption DEF SplitsThrow, NumThreads
<1>4. Threads(r) = 0 .. T - 1 /\ Slots(r) = 0 .. C - 1
  BY DEF Threads, Slots
<1>5. ASSUME NEW t \in Threads(r)
      PROVE  /\ ThreadStart(r, t) \in Nat /\ ThreadSize(r, t) \in Nat
             /\ ThreadStart(r, t) + ThreadSize(r, t) <= C
  BY <1>2, <1>3, <1>4, SpansAdjacent, SpanInside DEF ThreadStart, ThreadSize
<1> HIDE DEF C, T
<1>6. ASSUME NEW t \in Threads(r), NEW i \in 0 .. ThreadSize(r, t) - 1
      PROVE  ThreadStart(r, t) + i \in Slots(r)
  <2>1. PICK a \in Nat, z \in Nat : a = ThreadStart(r, t) /\ z = ThreadSize(r, t) /\ a + z <= C
    BY <1>5
  <2> QED
    BY <1>2, <1>4, <2>1
<1>7. ASSUME NEW t \in Threads(r), NEW u \in Threads(r),
             NEW i \in 0 .. ThreadSize(r, t) - 1, NEW j \in 0 .. ThreadSize(r, u) - 1,
             ThreadStart(r, t) + i = ThreadStart(r, u) + j
      PROVE  t = u /\ i = j
  <2>1. SpanStart(C, T, t) + i = SpanStart(C, T, u) + j
        /\ i \in 0 .. SpanSize(C, T, t) - 1 /\ j \in 0 .. SpanSize(C, T, u) - 1
    BY <1>7 DEF ThreadStart, ThreadSize, C, T
  <2> QED
    BY <1>2, <1>3, <1>4, <2>1, SpansApart
<1>8. ASSUME NEW s \in Slots(r)
      PROVE  \E t \in Threads(r) : \E i \in 0 .. ThreadSize(r, t) - 1 : s = ThreadStart(r, t) + i
  <2>0. s \in 0 .. C - 1
    BY <1>4
  <2> HIDE DEF C, T
  <2>1. PICK t \in 0 .. T - 1, i \in Nat :
          i < SpanSize(C, T, t) /\ s = SpanStart(C, T, t) + i
    BY <1>2, <1>3, <2>0, SpansCover
  <2>2. ThreadSize(r, t) = SpanSize(C, T, t) /\ ThreadStart(r, t) = SpanStart(C, T, t)
    BY DEF ThreadStart, ThreadSize, C, T
  <2>3. t \in Threads(r) /\ ThreadSize(r, t) \in Nat /\ i < ThreadSize(r, t)
    BY <1>4, <1>5, <2>1, <2>2
  <2>4. PICK z \in Nat : z = ThreadSize(r, t)
    BY <2>3
  <2>5. i \in 0 .. z - 1
    BY <2>3, <2>4
  <2> QED
    BY <2>1, <2>2, <2>3, <2>4, <2>5
<1> QED
  BY <1>2, <1>5, <1>6, <1>7, <1>8 DEF C

(* Nothing is filled at the start. *)
LEMMA VecBegins ==
  ASSUME NEW r \in Ranks, ~ CannotSplit(r), NEW policy, NEW base
  PROVE  VecFilled(r, NoSamples(r), NoneAdded(r), policy, base)
<1>1. DOMAIN NoSamples(r) = Slots(r) /\ \A s \in Slots(r) : NoSamples(r)[s] = None
  BY DEF NoSamples
<1>2. \A t \in Threads(r) : NoneAdded(r)[t] = 0
  BY DEF NoneAdded
<1>3. \A t \in Threads(r) : NoneAdded(r)[t] <= ThreadSize(r, t)
  BY <1>2, SlotsOfThreads
<1>4. ASSUME NEW t \in Threads(r), NEW i \in 0 .. ThreadSize(r, t) - 1
      PROVE  NoSamples(r)[ThreadStart(r, t) + i] = None /\ ~ (i < NoneAdded(r)[t])
  BY <1>1, <1>2, SlotsOfThreads
<1> QED
  BY <1>1, <1>3, <1>4 DEF VecFilled

(* One more sample on one thread. *)
LEMMA VecGrows ==
  ASSUME NEW r \in Ranks, ~ CannotSplit(r), NEW policy, NEW base, NEW vec,
         NEW added \in [Threads(r) -> Nat], VecFilled(r, vec, added, policy, base),
         NEW t \in Threads(r), added[t] < ThreadSize(r, t), NEW slot, NEW sample,
         slot = ThreadStart(r, t) + added[t], sample = SlotSample(policy, base, r, slot)
  PROVE  VecFilled(r, [vec EXCEPT ![slot] = sample], [added EXCEPT ![t] = added[t] + 1],
                   policy, base)
<1> DEFINE v == [vec EXCEPT ![slot] = sample]
           a == [added EXCEPT ![t] = added[t] + 1]
<1>1. DOMAIN vec = Slots(r) /\ added[t] \in 0 .. ThreadSize(r, t) - 1 /\ slot \in Slots(r)
  <2>1. DOMAIN vec = Slots(r) /\ added[t] \in Nat /\ ThreadSize(r, t) \in Nat
    BY SlotsOfThreads DEF VecFilled
  <2>2. added[t] \in 0 .. ThreadSize(r, t) - 1
    BY <2>1
  <2> QED
    BY <2>1, <2>2, SlotsOfThreads
<1>2. DOMAIN v = Slots(r) /\ v[slot] = sample /\ \A s \in Slots(r) \ {slot} : v[s] = vec[s]
  BY <1>1
<1>3. a[t] = added[t] + 1 /\ \A u \in Threads(r) \ {t} : a[u] = added[u]
  OBVIOUS
<1> HIDE DEF v, a
<1>4. ASSUME NEW u \in Threads(r)
      PROVE  /\ a[u] <= ThreadSize(r, u)
             /\ \A i \in 0 .. ThreadSize(r, u) - 1 :
                  v[ThreadStart(r, u) + i] =
                    IF i < a[u] THEN SlotSample(policy, base, r, ThreadStart(r, u) + i) ELSE None
  <2>1. /\ added[u] <= ThreadSize(r, u)
        /\ \A i \in 0 .. ThreadSize(r, u) - 1 :
             vec[ThreadStart(r, u) + i] =
               IF i < added[u] THEN SlotSample(policy, base, r, ThreadStart(r, u) + i) ELSE None
    BY DEF VecFilled
  <2>2. added[u] \in Nat /\ ThreadSize(r, u) \in Nat
    BY SlotsOfThreads
  <2>3. CASE u # t
    <3>1. ASSUME NEW i \in 0 .. ThreadSize(r, u) - 1
          PROVE  v[ThreadStart(r, u) + i] = vec[ThreadStart(r, u) + i]
      <4>1. ThreadStart(r, u) + i \in Slots(r) /\ ThreadStart(r, u) + i # slot
        BY <1>1, <2>3, SlotsOfThreads
      <4> QED
        BY <1>2, <4>1
    <3>2. a[u] = added[u]
      BY <1>3, <2>3
    <3> QED
      BY <2>1, <3>1, <3>2
  <2>4. CASE u = t
    <3>1. ASSUME NEW i \in 0 .. ThreadSize(r, t) - 1, i # added[t]
          PROVE  /\ v[ThreadStart(r, t) + i] = vec[ThreadStart(r, t) + i]
                 /\ (i < a[t] <=> i < added[t])
      <4>1. ThreadStart(r, t) + i \in Slots(r) /\ ThreadStart(r, t) + i # slot
        BY <1>1, <3>1, SlotsOfThreads
      <4>2. i < a[t] <=> i < added[t]
        BY <1>3, <2>2, <2>4, <3>1
      <4> QED
        BY <1>2, <4>1, <4>2
    <3>2. added[t] < a[t] /\ a[t] <= ThreadSize(r, t)
      BY <1>3, <2>2, <2>4
    <3>3. v[ThreadStart(r, t) + added[t]]
            = SlotSample(policy, base, r, ThreadStart(r, t) + added[t])
      BY <1>2
    <3>4. ASSUME NEW i \in 0 .. ThreadSize(r, t) - 1
          PROVE  v[ThreadStart(r, t) + i] =
                   IF i < a[t] THEN SlotSample(policy, base, r, ThreadStart(r, t) + i) ELSE None
      <4>1. CASE i = added[t]
        BY <3>2, <3>3, <4>1
      <4>2. CASE i # added[t]
        BY <2>1, <2>4, <3>1, <4>2
      <4> QED
        BY <4>1, <4>2
    <3> QED
      BY <2>4, <3>2, <3>4
  <2> QED
    BY <2>3, <2>4
<1> QED
  BY <1>2, <1>4 DEF VecFilled, v, a

(* Threads that have all finished leave no slot empty. *)
LEMMA VecFull ==
  ASSUME NEW r \in Ranks, ~ CannotSplit(r), NEW policy, NEW base \in Int, NEW vec, NEW added,
         VecFilled(r, vec, added, policy, base),
         \A t \in Threads(r) : ~ (added[t] < ThreadSize(r, t)),
         added \in [Threads(r) -> Nat]
  PROVE  /\ StrictlyIncreasing(vec)
         /\ {vec[s] : s \in Slots(r)} \ {None} = Share(policy, base, r)
<1>1. ASSUME NEW s \in Slots(r)
      PROVE  vec[s] = SlotSample(policy, base, r, s)
  <2>1. PICK t \in Threads(r) : \E i \in 0 .. ThreadSize(r, t) - 1 : s = ThreadStart(r, t) + i
    BY SlotsOfThreads
  <2>2. PICK i \in 0 .. ThreadSize(r, t) - 1 : s = ThreadStart(r, t) + i
    BY <2>1
  <2>3. added[t] \in Nat /\ ThreadSize(r, t) \in Nat
    BY SlotsOfThreads
  <2>4. i < added[t]
    BY <2>2, <2>3
  <2> QED
    BY <2>2, <2>4 DEF VecFilled
<1>2. \A s \in Slots(r) : SlotSample(policy, base, r, s) # None
  BY DEF SlotSample, SampleOf, None
<1>3. StrictlyIncreasing(vec)
  <2>1. DOMAIN vec = Slots(r) /\ Slots(r) \subseteq Int /\ NodeStart(r) \in Int
    BY SlotsOfThreads DEF VecFilled, Slots
  <2>2. \A s \in Slots(r) : SlotSample(policy, base, r, s).number = base + NodeStart(r) + s + 1
    BY DEF SlotSample, SampleOf
  <2>3. \A i, j \in Slots(r) : i < j => vec[i].number < vec[j].number
    BY <1>1, <2>1, <2>2
  <2> QED
    BY <2>1, <2>3 DEF StrictlyIncreasing
<1>4. {vec[s] : s \in Slots(r)} = Share(policy, base, r)
  BY <1>1 DEF Share
<1>5. None \notin Share(policy, base, r)
  BY <1>2 DEF Share
<1> QED
  BY <1>3, <1>4, <1>5

-----------------------------------------------------------------------------
LEMMA LoadPolicyFiles ==
  ASSUME FInv, NEW r \in Ranks, LoadPolicy(r)
  PROVE  FInv'
<1> DEFINE g == rank[r].generation
<1>1. GInv' /\ UNCHANGED <<disk, job>> /\ rank[r].pc = "load" /\ g < num_gens
  BY LoadPolicyKeeps DEF FInv, LoadPolicy, At
<1>2. RankOK(r, rank[r]) /\ RankFiles(r) /\ Shaped(rank[r])
  BY Fields
<1>3. ~ job.retrain_lastgen_only /\ Loadable(g) /\ rank[r].thrown = {}
      /\ rank[r].sample_vec = NoSamples(r) /\ rank[r].added = NoneAdded(r)
  BY <1>1, <1>2 DEF RankOK, RankFiles, HasPolicy, Alone, Over
<1>4. CASE CannotSplit(r)
  <2>1. GoTo(r, "failed") /\ Faulty(r) /\ "failed" \in Over
    BY <1>4 DEF LoadPolicy, Faulty, Over
  <2> QED
    BY <1>1, <2>1, StopsFiles
<1>5. CASE ~ CannotSplit(r)
  <2> DEFINE moved == [rank[r] EXCEPT !.pc = "collect", !.policy = PolicyOf(g)]
  <2>1. rank' = [rank EXCEPT ![r] = moved]
    BY <1>3, <1>5 DEF LoadPolicy
  <2>2. rank'[r] = moved /\ \A q \in Ranks \ {r} : rank'[q] = rank[q]
    BY <2>1, Fields
  <2>3. /\ moved.pc = "collect" /\ moved.policy = PolicyOf(g) /\ moved.generation = g
        /\ moved.sample_vec = rank[r].sample_vec /\ moved.added = rank[r].added
        /\ moved.thrown = rank[r].thrown /\ moved.merged = rank[r].merged
    BY <1>2 DEF Shaped, Members
  <2> HIDE DEF moved
  <2>4. /\ OwnPolicy(r)' = OwnPolicy(r) /\ (HasPolicy(r)' <=> HasPolicy(r))
        /\ OwnPolicy(r) = PolicyOf(g)
    BY <1>1, <2>2, <2>3, PolicyStays DEF SamePolicy, OwnPolicy
  <2>5. VecFilled(r, NoSamples(r), NoneAdded(r), OwnPolicy(r)', FirstNumber(r)')
    BY <1>5, VecBegins
  <2>6. RankFiles(r)'
    <3>1. rank'[r].policy = OwnPolicy(r)'
          /\ rank'[r].sample_vec = NoSamples(r) /\ rank'[r].added = NoneAdded(r)
      BY <1>3, <2>2, <2>3, <2>4
    <3>2. g < num_gens /\ g <= num_gens /\ HasPolicy(r)'
      BY <1>1, <1>2, <1>3, <2>4 DEF HasPolicy, RankFiles, Over
    <3> QED
      BY <1>1, <1>3, <1>5, <2>2, <2>3, <2>5, <3>1, <3>2
         DEF RankFiles, Over, Sampled, Alone, Barriers
  <2>7. r = 0 => LeaderFiles'
    <3> SUFFICES ASSUME r = 0 PROVE LeaderFiles'
      OBVIOUS
    <3>1. rank[0].merged = {}
      BY <1>1 DEF FInv, LeaderFiles, Before
    <3> QED
      BY <2>2, <2>3, <3>1 DEF LeaderFiles, Alone, Before
  <2> QED
    BY <1>1, <2>2, <2>6, <2>7, StepInMemory
<1> QED
  BY <1>4, <1>5

LEMMA AddSampleFiles ==
  ASSUME FInv, NEW r \in Ranks, NEW t \in Threads(r), AddSample(r, t)
  PROVE  FInv'
<1> DEFINE slot == ThreadStart(r, t) + rank[r].added[t]
           number == SampleNumber(r, t)
           sample == [number |-> number, policy |-> rank[r].policy]
           vec == [rank[r].sample_vec EXCEPT ![slot] = sample]
           more == [rank[r].added EXCEPT ![t] = rank[r].added[t] + 1]
           moved == [rank[r] EXCEPT !.sample_vec = vec, !.added = more]
<1>1. GInv' /\ UNCHANGED <<disk, job>> /\ rank[r].pc = "collect" /\ HasRoom(r, t)
  BY AddSampleKeeps DEF FInv, AddSample, Sampling, At
<1>2. RankOK(r, rank[r]) /\ RankFiles(r) /\ Shaped(rank[r]) /\ ~ CannotSplit(r)
  BY <1>1, Fields DEF RankOK
<1>3. rank' = [rank EXCEPT ![r] = moved]
  BY <1>2 DEF AddSample, Shaped, Members
<1>4. rank'[r] = moved /\ \A q \in Ranks \ {r} : rank'[q] = rank[q]
  BY <1>3, Fields
<1>5. /\ moved.pc = "collect" /\ moved.policy = rank[r].policy
      /\ moved.generation = rank[r].generation /\ moved.sample_vec = vec /\ moved.added = more
      /\ moved.thrown = rank[r].thrown /\ moved.merged = rank[r].merged
  <2> HIDE DEF vec, more
  <2> QED
    BY <1>1, <1>2 DEF Shaped, Members
<1> HIDE DEF moved
<1>6. OwnPolicy(r)' = OwnPolicy(r) /\ (HasPolicy(r)' <=> HasPolicy(r))
      /\ FirstNumber(r)' = FirstNumber(r)
  BY <1>1, <1>4, <1>5, PolicyStays DEF SamePolicy
<1>7. /\ rank[r].policy = OwnPolicy(r)
      /\ VecFilled(r, rank[r].sample_vec, rank[r].added, OwnPolicy(r), FirstNumber(r))
  BY <1>1, <1>2 DEF RankFiles
<1>8. sample = SlotSample(OwnPolicy(r), FirstNumber(r), r, slot)
  <2>1. /\ rank[r].added[t] \in Nat /\ ThreadStart(r, t) \in Nat /\ NodeStart(r) \in Nat
    BY <1>1, SlotInside DEF FInv
  <2>2. rank[r].seed_offset = FirstNumber(r) /\ rank[r].seed_offset \in Int
    BY <1>1, <1>2 DEF RankOK, Before, FirstNumber
  <2>3. number = FirstNumber(r) + NodeStart(r) + slot + 1
    BY <2>1, <2>2 DEF SampleNumber
  <2> HIDE DEF number, slot
  <2> QED
    BY <1>7, <2>3 DEF SlotSample, SampleOf
<1>9. VecFilled(r, vec, more, OwnPolicy(r), FirstNumber(r))
  <2>1. rank[r].added \in [Threads(r) -> Nat] /\ rank[r].added[t] < ThreadSize(r, t)
    BY <1>1, <1>2 DEF RankOK, HasRoom
  <2> HIDE DEF sample
  <2> QED
    BY <1>2, <1>7, <1>8, <2>1, VecGrows
<1> HIDE DEF vec, more
<1>10. RankFiles(r)'
  BY <1>1, <1>2, <1>4, <1>5, <1>6, <1>7, <1>9 DEF RankFiles, Over, Sampled, Alone, Barriers
<1>11. r = 0 => LeaderFiles'
  <2> SUFFICES ASSUME r = 0 PROVE LeaderFiles'
    OBVIOUS
  <2>1. rank[0].merged = {}
    BY <1>1 DEF FInv, LeaderFiles, Before
  <2> QED
    BY <1>4, <1>5, <2>1 DEF LeaderFiles, Alone, Before
<1> QED
  BY <1>1, <1>4, <1>10, <1>11, StepInMemory

LEMMA SamplingThrowsFiles ==
  ASSUME FInv, NEW r \in Ranks, NEW t \in Threads(r), SamplingThrows(r, t)
  PROVE  FInv'
<1> DEFINE moved == [rank[r] EXCEPT !.thrown = @ \cup {t}]
<1>1. GInv' /\ UNCHANGED <<disk, job>> /\ rank[r].pc = "collect"
  BY SamplingThrowsKeeps DEF FInv, SamplingThrows, Sampling, At
<1>2. RankFiles(r) /\ Shaped(rank[r])
  BY Fields
<1>3. rank'[r] = moved /\ \A q \in Ranks \ {r} : rank'[q] = rank[q]
  BY Fields DEF SamplingThrows
<1>4. /\ moved.pc = "collect" /\ moved.policy = rank[r].policy
      /\ moved.generation = rank[r].generation /\ moved.sample_vec = rank[r].sample_vec
      /\ moved.added = rank[r].added /\ moved.merged = rank[r].merged
  BY <1>1, <1>2 DEF Shaped, Members
<1> HIDE DEF moved
<1>5. OwnPolicy(r)' = OwnPolicy(r) /\ (HasPolicy(r)' <=> HasPolicy(r))
      /\ FirstNumber(r)' = FirstNumber(r)
  BY <1>1, <1>3, <1>4, PolicyStays DEF SamePolicy
<1>6. RankFiles(r)'
  BY <1>1, <1>2, <1>3, <1>4, <1>5 DEF RankFiles, Over, Sampled, Alone, Barriers
<1>7. r = 0 => LeaderFiles'
  <2> SUFFICES ASSUME r = 0 PROVE LeaderFiles'
    OBVIOUS
  <2>1. rank[0].merged = {}
    BY <1>1 DEF FInv, LeaderFiles, Before
  <2> QED
    BY <1>3, <1>4, <2>1 DEF LeaderFiles, Alone, Before
<1> QED
  BY <1>1, <1>3, <1>6, <1>7, StepInMemory

(* The numbers increase along a vector that is full, and no slot is empty. *)
LEMMA SamplingEndsFiles ==
  ASSUME FInv, NEW r \in Ranks, SamplingEnds(r)
  PROVE  FInv'
<1> DEFINE label == IF r > 0 THEN "save" ELSE "barrier_saved"
           gathered == {rank[r].sample_vec[s] : s \in Slots(r)} \ {None}
           moved == [rank[r] EXCEPT !.pc = label, !.seed_offset = SeedAfter(r),
                       !.sample_data = gathered, !.sample_vec = NoSamples(r),
                       !.added = NoneAdded(r)]
<1>1. GInv' /\ UNCHANGED <<disk, job>> /\ rank[r].pc = "collect"
  BY SamplingEndsKeeps DEF FInv, SamplingEnds, At
<1>2. RankOK(r, rank[r]) /\ RankFiles(r) /\ Shaped(rank[r]) /\ ~ CannotSplit(r)
  BY <1>1, Fields DEF RankOK
<1>3. CASE rank[r].thrown # {}
  <2>1. GoTo(r, "failed") /\ Faulty(r) /\ "failed" \in Over
    BY <1>3 DEF SamplingEnds, Faulty, Over
  <2> QED
    BY <1>1, <2>1, StopsFiles
<1>4. CASE rank[r].thrown = {}
  <2>1. /\ rank[r].added \in [Threads(r) -> Nat]
        /\ \A t \in Threads(r) : ~ (rank[r].added[t] < ThreadSize(r, t))
    BY <1>2, <1>4 DEF RankOK, SamplingEnds, HasRoom
  <2>2. VecFilled(r, rank[r].sample_vec, rank[r].added, OwnPolicy(r), FirstNumber(r))
    BY <1>1, <1>2 DEF RankFiles
  <2>3. FirstNumber(r) \in Int
    BY <1>1, <1>2 DEF RankOK, Before, FirstNumber
  <2>4. StrictlyIncreasing(rank[r].sample_vec)
        /\ gathered = Share(OwnPolicy(r), FirstNumber(r), r)
    BY <1>2, <2>1, <2>2, <2>3, VecFull
  <2>5. rank' = [rank EXCEPT ![r] = moved]
    BY <1>4, <2>4 DEF SamplingEnds
  <2>6. rank'[r] = moved /\ \A q \in Ranks \ {r} : rank'[q] = rank[q]
    BY <2>5, Fields
  <2>7. /\ moved.pc = label /\ moved.generation = rank[r].generation
        /\ moved.sample_data = gathered /\ moved.sample_vec = NoSamples(r)
        /\ moved.added = NoneAdded(r) /\ moved.thrown = rank[r].thrown
        /\ moved.merged = rank[r].merged
    <3> HIDE DEF label, gathered
    <3> QED
      BY <1>2 DEF Shaped, Members
  <2> HIDE DEF moved, gathered
  <2>8. OwnPolicy(r)' = OwnPolicy(r) /\ (HasPolicy(r)' <=> HasPolicy(r))
        /\ FirstNumber(r)' = FirstNumber(r)
    BY <1>1, <2>6, <2>7, PolicyStays DEF SamePolicy
  <2>9. label \in {"save", "barrier_saved"} /\ (label = "barrier_saved" => r = 0)
    BY DEF Ranks
  <2>10. RankFiles(r)'
    <3> HIDE DEF label
    <3> QED
      BY <1>1, <1>2, <1>4, <2>4, <2>6, <2>7, <2>8, <2>9
         DEF RankFiles, Over, Sampled, Alone, Barriers
  <2>11. r = 0 => LeaderFiles'
    <3> SUFFICES ASSUME r = 0 PROVE LeaderFiles'
      OBVIOUS
    <3>1. rank[0].merged = {}
      BY <1>1 DEF FInv, LeaderFiles, Before
    <3> QED
      BY <2>6, <2>7, <3>1 DEF LeaderFiles, Alone, Before
  <2> QED
    BY <1>1, <2>6, <2>10, <2>11, StepInMemory
<1> QED
  BY <1>3, <1>4

LEMMA NextGenerationFiles ==
  ASSUME FInv, NEW r \in Ranks, NextGeneration(r)
  PROVE  FInv'
<1> DEFINE moved == [rank[r] EXCEPT !.pc = "load", !.generation = rank[r].generation + 1,
                       !.policy = None, !.sample_data = {}, !.merged = {}]
<1>1. GInv' /\ UNCHANGED <<disk, job>> /\ rank[r].pc = "next"
  BY NextGenerationKeeps DEF FInv, NextGeneration, At
<1>2. RankOK(r, rank[r]) /\ RankFiles(r) /\ Shaped(rank[r])
  BY Fields
<1>3. rank'[r] = moved /\ \A q \in Ranks \ {r} : rank'[q] = rank[q]
  <2>1. rank' = [rank EXCEPT ![r] = moved]
    BY DEF NextGeneration
  <2> QED
    BY <2>1, Fields
<1>4. /\ moved.pc = "load" /\ moved.generation = rank[r].generation + 1
      /\ moved.sample_vec = rank[r].sample_vec
      /\ moved.added = rank[r].added /\ moved.thrown = rank[r].thrown /\ moved.merged = {}
  BY <1>2 DEF Shaped, Members
<1> HIDE DEF moved
<1>5. HasPolicy(r)' <=> HasNextPolicy(r)
  BY <1>1, <1>3, <1>4 DEF HasPolicy, HasNextPolicy, Loadable, Readable
<1>6. rank[r].generation + 1 <= num_gens /\ HasNextPolicy(r) /\ rank[r].thrown = {}
      /\ rank[r].sample_vec = NoSamples(r) /\ rank[r].added = NoneAdded(r)
  <2>1. rank[r].generation < num_gens /\ HasNextPolicy(r) /\ rank[r].thrown = {}
        /\ rank[r].sample_vec = NoSamples(r) /\ rank[r].added = NoneAdded(r)
    BY <1>1, <1>2 DEF RankFiles, Sampled
  <2>2. rank[r].generation \in Nat /\ num_gens \in Nat
    BY <1>2, Root DEF RankOK
  <2> QED
    BY <2>1, <2>2
<1>7. RankFiles(r)'
  BY <1>3, <1>4, <1>5, <1>6 DEF RankFiles, Over, Sampled, Alone, Barriers
<1>8. r = 0 => LeaderFiles'
  BY <1>3, <1>4 DEF LeaderFiles, Alone
<1> QED
  BY <1>1, <1>3, <1>7, <1>8, StepInMemory

-----------------------------------------------------------------------------
(* Who is past sampling is in a generation that has a next policy. *)
LEMMA GenerationBound ==
  ASSUME FInv, NEW r \in Ranks
  PROVE  /\ rank[r].generation \in Nat
         /\ rank[r].pc \notin Over => rank[r].generation \in 0 .. num_gens
         /\ rank[r].pc \in Sampled => rank[r].generation + 1 \in 0 .. num_gens
<1>1. rank[r].generation \in Nat /\ num_gens \in Nat
  BY Fields, Root DEF RankOK
<1>2. /\ rank[r].pc \notin Over => rank[r].generation <= num_gens
      /\ rank[r].pc \in Sampled => rank[r].generation < num_gens
  BY Fields DEF RankFiles
<1> QED
  BY <1>1, <1>2

LEMMA OneFile ==
  ASSUME FInv, NEW f \in Files, OnlyWrites(f)
  PROVE  \A h \in Files : h # f => disk'[h] = disk[h]
BY DEF FInv, OnlyWrites

(* What Write does to the rank that writes, and to the file. *)
Unfinished(r, from, f)      == rank'[r].pc = from /\ disk'[f] = Torn
Finished(r, to, f, content) == rank'[r].pc = to /\ disk'[f] = Content(content)
KeepsItsData(r) ==
  /\ rank'[r].generation = rank[r].generation
  /\ rank'[r].sample_vec = rank[r].sample_vec /\ rank'[r].added = rank[r].added
  /\ rank'[r].thrown = rank[r].thrown /\ rank'[r].sample_data = rank[r].sample_data
  /\ rank'[r].merged = rank[r].merged /\ rank'[r].policy = rank[r].policy
  /\ \A q \in Ranks \ {r} : rank'[q] = rank[q]

LEMMA WriteFields ==
  ASSUME FInv, NEW r \in Ranks, NEW from, NEW to, NEW f \in Files, NEW content,
         Write(r, from, to, f, content)
  PROVE  /\ rank[r].pc = from /\ job' = job
         /\ OnlyWrites(f)
         /\ KeepsItsData(r)
         /\ Unfinished(r, from, f) \/ Finished(r, to, f, content)
<1>1. rank[r].pc = from /\ job' = job
  BY DEF Write, At
<1>2. PICK x : disk' = [disk EXCEPT ![f] = x]
  BY DEF Write
<1>3. disk'[f] = x /\ OnlyWrites(f)
  BY <1>2 DEF FInv, OnlyWrites
<1>4. CASE disk' = [disk EXCEPT ![f] = Torn] /\ UNCHANGED rank
  <2>1. disk'[f] = Torn
    BY <1>4 DEF FInv
  <2> QED
    BY <1>1, <1>3, <1>4, <2>1 DEF Unfinished, KeepsItsData
<1>5. CASE disk' = [disk EXCEPT ![f] = Content(content)] /\ GoTo(r, to)
  <2>1. disk'[f] = Content(content)
    BY <1>5 DEF FInv
  <2>2. KeepsItsData(r) /\ rank'[r].pc = to
    BY <1>5, GoToFields DEF KeepsItsData
  <2> QED
    BY <1>1, <1>3, <2>1, <2>2 DEF Finished
<1> QED
  BY <1>4, <1>5 DEF Write

(* The file of a rank is saved before rank 0 has passed the first barrier. *)
LEMMA SaveTempFiles ==
  ASSUME FInv, NEW r \in Ranks, SaveTemp(r)
  PROVE  FInv'
<1> DEFINE f == Temp(r)
           data == rank[r].sample_data
<1>1. GInv' /\ f \in Files /\ r # 0
  BY FilesKeep, AreFiles DEF FInv, SaveTemp
<1>c. SUFFICES ASSUME SupportsGetStateFromVarGroup PROVE FInv'
  <2> SUFFICES ASSUME CannotStore PROVE FInv'
    BY DEF CannotStore
  <2>1. GoTo(r, "failed") /\ UNCHANGED <<disk, job>> /\ Faulty(r) /\ "failed" \in Over
    BY DEF SaveTemp, SaveToFile, CannotStore, Faulty, Over
  <2> QED
    BY <1>1, <2>1, StopsFiles
<1>2. Write(r, "save", "barrier_saved", f, data)
  BY <1>c DEF SaveTemp, SaveToFile
<1>3. /\ rank[r].pc = "save" /\ job' = job /\ OnlyWrites(f) /\ KeepsItsData(r)
      /\ Unfinished(r, "save", f) \/ Finished(r, "barrier_saved", f, data)
  <2> HIDE DEF f, data
  <2> QED
    BY <1>1, <1>2, WriteFields
<1>a. /\ \/ rank'[r].pc = "save" /\ disk'[f] = Torn
         \/ rank'[r].pc = "barrier_saved" /\ disk'[f] = Content(data)
      /\ rank'[r].generation = rank[r].generation
      /\ rank'[r].sample_vec = rank[r].sample_vec /\ rank'[r].added = rank[r].added
      /\ rank'[r].thrown = rank[r].thrown /\ rank'[r].sample_data = rank[r].sample_data
      /\ \A q \in Ranks \ {r} : rank'[q] = rank[q]
  BY <1>3 DEF KeepsItsData, Unfinished, Finished
<1>b. \A h \in Files : h # f => disk'[h] = disk[h]
  BY <1>1, <1>3, OneFile
<1>4. RankFiles(r) /\ rank[r].sample_data = Share(OwnPolicy(r), FirstNumber(r), r)
  BY <1>3, Fields DEF RankFiles
<1>5. SamePolicy(r)
  <2>1. rank[r].generation \in 0 .. num_gens
    BY <1>3, GenerationBound DEF Over
  <2> QED
    BY <1>b, <2>1, AreFiles, FilesDiffer DEF SamePolicy
<1>6. OwnPolicy(r)' = OwnPolicy(r) /\ (HasPolicy(r)' <=> HasPolicy(r))
      /\ FirstNumber(r)' = FirstNumber(r)
  BY <1>3, <1>a, <1>5, PolicyStays
<1>7. RankFiles(r)'
  BY <1>1, <1>3, <1>a, <1>4, <1>6 DEF RankFiles, Over, Sampled, Alone, Barriers
<1>8. rank[0].pc # "merge"
  <2>1. ASSUME rank[0].pc = "merge"
        PROVE  FALSE
    <3>1. Stage(rank[r].pc) = Stage(rank[0].pc)
      BY <1>3, <2>1, Root, SameStage DEF FInv, Over, Stage
    <3> QED
      BY <1>3, <2>1, <3>1 DEF Stage
  <2> QED
    BY <2>1
<1>9. LeaderFiles'
  <2>1. rank'[0] = rank[0] /\ 0 \in Ranks /\ GInv /\ LeaderFiles
    BY <1>1, <1>a, Root DEF FInv
  <2>2. rank[0].pc \notin Over => SamePolicy(0)
    <3>1. rank[0].pc \notin Over => rank[0].generation \in 0 .. num_gens
      BY <2>1, GenerationBound
    <3> QED
      BY <1>b, <3>1, AreFiles, FilesDiffer DEF SamePolicy
  <2>3. rank[0].pc \in {"barrier_merged"} \cup Alone =>
          disk'[Samples(Gen)] = disk[Samples(Gen)]
    <3>1. rank[0].pc \in {"barrier_merged"} \cup Alone => Gen \in 0 .. num_gens
      BY <2>1, GenerationBound DEF Gen, Over, Alone
    <3> QED
      BY <1>b, <3>1, AreFiles, FilesDiffer
  <2>4. rank[0].pc \in {"save_config", "trained", "barrier_trained"} => SameNextPolicy(0)
    <3>1. rank[0].pc \in {"save_config", "trained", "barrier_trained"} =>
            rank[0].generation + 1 \in 0 .. num_gens
      BY <2>1, GenerationBound DEF Sampled, Alone, Barriers
    <3> QED
      BY <1>b, <3>1, AreFiles, FilesDiffer DEF SameNextPolicy
  <2> QED
    BY <1>3, <1>8, <2>1, <2>2, <2>3, <2>4, LeaderStays
<1>10. \A q \in Ranks \ {r} :
         /\ f # Weights(rank[q].generation) /\ f # Config(rank[q].generation)
         /\ f # Weights(rank[q].generation + 1) /\ f # Config(rank[q].generation + 1)
         /\ f # Temp(q)
  BY FilesDiffer
<1> HIDE DEF f
<1> QED
  BY <1>1, <1>3, <1>a, <1>7, <1>9, <1>10, StepFiles

-----------------------------------------------------------------------------
(* While rank 0 merges or trains, nobody under way is elsewhere: what it   *)
(* writes, nobody else needs.                                              *)
LeaderWrites(f) ==
  \/ \E r \in Ranks : f = Temp(r)
  \/ f \in {Checkpoint, Samples(Gen), Weights(Gen + 1), Config(Gen + 1)}

LEMMA LeaderAlone ==
  ASSUME FInv, rank[0].pc \in {"merge"} \cup Alone, NEW f, LeaderWrites(f)
  PROVE  \A q \in Ranks \ {0} :
           /\ rank[q].pc \notin Over => f # Weights(rank[q].generation)
                                        /\ f # Config(rank[q].generation)
           /\ rank[q].pc = "next" => f # Weights(rank[q].generation + 1)
                                     /\ f # Config(rank[q].generation + 1)
           /\ rank[q].pc = "barrier_saved" => f # Temp(q)
<1> SUFFICES ASSUME NEW q \in Ranks, rank[q].pc \notin Over
             PROVE  /\ f # Weights(rank[q].generation) /\ f # Config(rank[q].generation)
                    /\ rank[q].pc # "next" /\ rank[q].pc # "barrier_saved"
  BY DEF Over
<1>1. Stage(rank[0].pc) \in {1, 2} /\ rank[0].pc \notin Over
  BY DEF Stage, Alone, Over
<1>2. rank[q].generation = rank[0].generation /\ Stage(rank[q].pc) \in {1, 2}
  BY <1>1, Root, SameStage DEF FInv
<1>3. rank[q].pc # "next" /\ rank[q].pc # "barrier_saved"
  BY <1>2 DEF Stage, Alone
<1>4. rank[q].generation = Gen /\ Gen # Gen + 1
  BY <1>2, Root, GenerationBound DEF Gen
<1> QED
  BY <1>3, <1>4, FilesDiffer DEF LeaderWrites

(* Rank 0 goes on merging or training. *)
LEMMA LeaderRank ==
  ASSUME FInv, rank[0].pc \in {"merge"} \cup Alone, job' = job,
         rank'[0].pc \in {"merge", "barrier_merged", "barrier_trained"} \cup Alone,
         rank'[0].generation = rank[0].generation, rank'[0].thrown = rank[0].thrown,
         rank'[0].sample_vec = rank[0].sample_vec, rank'[0].added = rank[0].added,
         NEW f \in Files, LeaderWrites(f), OnlyWrites(f)
  PROVE  /\ RankFiles(0)'
         /\ OwnPolicy(0)' = OwnPolicy(0) /\ FirstNumber(0)' = FirstNumber(0) /\ Gen' = Gen
<1>1. RankFiles(0) /\ 0 \in Ranks
  BY Root, Fields
<1>2. SamePolicy(0)
  <2>1. rank[0].generation \in 0 .. num_gens /\ rank[0].generation # Gen + 1
        /\ rank[0].generation = Gen
    BY Root, GenerationBound DEF Gen, Over, Alone
  <2>2. f # Weights(rank[0].generation) /\ f # Config(rank[0].generation)
    BY <2>1, FilesDiffer DEF LeaderWrites
  <2> QED
    BY <2>1, <2>2, OneFile, AreFiles DEF SamePolicy
<1>3. OwnPolicy(0)' = OwnPolicy(0) /\ (HasPolicy(0)' <=> HasPolicy(0))
      /\ FirstNumber(0)' = FirstNumber(0) /\ Gen' = Gen
  BY <1>1, <1>2, PolicyStays DEF Gen
<1>4. RankFiles(0)'
  BY <1>1, <1>3 DEF RankFiles, Over, Sampled, Alone, Barriers
<1> QED
  BY <1>3, <1>4

(* The ranks' shares are all the samples. *)
LEMMA SharesAreCollection ==
  ASSUME ~ SplitsThrow(N, WorldSize), NEW policy, NEW base \in Int
  PROVE  SharesUpTo(policy, base, WorldSize - 1) = Collection(policy, base)
<1>1. /\ WorldSize \in Nat \ {0} /\ WorldSize <= N /\ N \in Nat \ {0}
      /\ Ranks = 0 .. WorldSize - 1
  BY Root DEF SplitsThrow, Ranks
<1>2. ASSUME NEW r \in Ranks
      PROVE  NodeStart(r) \in Nat /\ ToCollect(r) \in Nat /\ NodeStart(r) + ToCollect(r) <= N
  BY <1>1, SpansAdjacent, SpanInside DEF NodeStart, ToCollect
<1>3. ASSUME NEW r \in Ranks, NEW s \in Slots(r)
      PROVE  SlotSample(policy, base, r, s) \in Collection(policy, base)
  <2>1. PICK a \in Nat, c \in Nat : a = NodeStart(r) /\ c = ToCollect(r) /\ a + c <= N
    BY <1>2
  <2>2. s \in 0 .. c - 1
    BY <2>1 DEF Slots
  <2>3. a + s + 1 \in 1 .. N /\ base + a + s + 1 = base + (a + s + 1)
    BY <1>1, <2>1, <2>2
  <2> QED
    BY <2>1, <2>3 DEF SlotSample, Collection
<1>4. ASSUME NEW i \in 1 .. N
      PROVE  \E r \in Ranks : \E s \in Slots(r) :
               SampleOf(policy, base + i) = SlotSample(policy, base, r, s)
  <2>1. i - 1 \in 0 .. N - 1
    BY <1>1
  <2>2. PICK r \in 0 .. WorldSize - 1, s \in Nat :
          s < SpanSize(N, WorldSize, r) /\ i - 1 = SpanStart(N, WorldSize, r) + s
    BY <1>1, <2>1, SpansCover
  <2>3. r \in Ranks /\ s < ToCollect(r) /\ i - 1 = NodeStart(r) + s
    BY <1>1, <2>2 DEF ToCollect, NodeStart
  <2>4. s \in Slots(r)
    <3>1. PICK c \in Nat : c = ToCollect(r)
      BY <1>2, <2>3
    <3> QED
      BY <2>3, <3>1 DEF Slots
  <2>5. base + i = base + NodeStart(r) + s + 1
    BY <1>2, <2>3
  <2> QED
    BY <2>3, <2>4, <2>5 DEF SlotSample
<1>5. SharesUpTo(policy, base, WorldSize - 1)
        = UNION {Share(policy, base, r) : r \in Ranks}
  BY <1>1 DEF SharesUpTo
<1>6. \A x : x \in SharesUpTo(policy, base, WorldSize - 1)
               <=> \E r \in Ranks : \E s \in Slots(r) : x = SlotSample(policy, base, r, s)
  BY <1>5 DEF Share
<1>7. \A x : x \in Collection(policy, base) <=> \E i \in 1 .. N : x = SampleOf(policy, base + i)
  BY DEF Collection
<1> DEFINE A == SharesUpTo(policy, base, WorldSize - 1)
           B == Collection(policy, base)
<1>8. ASSUME NEW x \in A
      PROVE  x \in B
  BY <1>3, <1>6
<1>9. ASSUME NEW x \in B
      PROVE  x \in A
  BY <1>4, <1>6, <1>7
<1> HIDE DEF A, B
<1>10. A = B
  BY <1>8, <1>9
<1> QED
  BY <1>10 DEF A, B

(* The shares are merged one by one. *)
LEMMA OneMoreShare ==
  ASSUME NEW policy, NEW base, NEW m \in Nat
  PROVE  /\ SharesUpTo(policy, base, m + 1)
              = SharesUpTo(policy, base, m) \cup Share(policy, base, m + 1)
         /\ SharesUpTo(policy, base, 0) = Share(policy, base, 0)
<1>1. 0 .. m + 1 = (0 .. m) \cup {m + 1} /\ 0 .. 0 = {0}
  OBVIOUS
<1>2. SharesUpTo(policy, base, m + 1)
        = SharesUpTo(policy, base, m) \cup Share(policy, base, m + 1)
  BY <1>1 DEF SharesUpTo
<1>3. SharesUpTo(policy, base, 0) = Share(policy, base, 0)
  BY <1>1 DEF SharesUpTo
<1> QED
  BY <1>2, <1>3

LEMMA SameInterval ==
  ASSUME NEW m \in Nat, NEW n \in Nat, 1 .. m = 1 .. n
  PROVE  m = n
<1>1. m <= n
  <2>1. CASE m = 0
    BY <2>1
  <2>2. CASE m # 0
    <3>1. m \in 1 .. n
      BY <2>2
    <3> QED
      BY <3>1
  <2> QED
    BY <2>1, <2>2
<1>2. n <= m
  <2>1. CASE n = 0
    BY <2>1
  <2>2. CASE n # 0
    <3>1. n \in 1 .. m
      BY <2>2
    <3> QED
      BY <3>1
  <2> QED
    BY <2>1, <2>2
<1> QED
  BY <1>1, <1>2

-----------------------------------------------------------------------------
(* The file of the next rank is there: all ranks saved theirs before the   *)
(* first barrier let rank 0 go.                                            *)
LEMMA MergeFileFiles ==
  ASSUME FInv, NEW r \in Ranks \ {0}, MergeFile(r)
  PROVE  FInv'
<1> DEFINE f == Temp(r)
           content == Share(OwnPolicy(0), FirstNumber(0), r)
           moved == [rank[0] EXCEPT !.sample_data = @ \cup content, !.merged = @ \cup {r}]
<1>1. GInv' /\ rank[0].pc = "merge" /\ job' = job /\ f \in Files /\ 0 \in Ranks
  BY MergeFileKeeps, AreFiles, Root DEF FInv, MergeFile, At
<1>a. SUFFICES ASSUME SupportsGetStateFromVarGroup PROVE FInv'
  <2> SUFFICES ASSUME CannotStore PROVE FInv'
    BY DEF CannotStore
  <2>1. GoTo(0, "failed") /\ UNCHANGED <<disk, job>> /\ Faulty(0) /\ "failed" \in Over
    BY DEF MergeFile, CanAdd, CannotStore, Faulty, Over
  <2> QED
    BY <1>1, <2>1, StopsFiles
<1>2. PICK m \in 0 .. WorldSize - 1 : Merged(m)
  BY <1>1 DEF FInv, LeaderFiles
<1>3. m = r - 1 /\ r \in 1 .. WorldSize - 1 /\ r \in Nat \ {0}
  <2>1. r \in 1 .. WorldSize - 1 /\ r - 1 \in Nat /\ r \in Nat \ {0}
    BY Root DEF Ranks
  <2>2. 1 .. m = 1 .. r - 1 /\ m \in Nat
    BY <1>2 DEF Merged, MergeFile
  <2> QED
    BY <2>1, <2>2, SameInterval
<1>4. disk[f] = Content(content)
  <2>1. r \in m + 1 .. WorldSize - 1
    BY <1>3
  <2> QED
    BY <1>2, <2>1 DEF Merged
<1>5. Readable(f) /\ Read(f) = content
  BY <1>4, Contents DEF Readable, Read
<1>6. Shaped(rank[0])
  BY <1>1, Fields
<1>7. /\ rank' = [rank EXCEPT ![0] = moved]
      /\ disk' = [disk EXCEPT ![f] = Absent]
  <2>1. /\ rank' = [rank EXCEPT ![0].sample_data = @ \cup Read(f), ![0].merged = @ \cup {r}]
        /\ disk' = [disk EXCEPT ![f] = Absent]
    BY <1>a, <1>5 DEF MergeFile, CanAdd
  <2>2. rank' = [rank EXCEPT ![0] = moved]
    <3> HIDE DEF content, f
    <3> QED
      BY <1>1, <1>5, <1>6, <2>1 DEF Shaped, Members
  <2> QED
    BY <2>1, <2>2
<1>8. rank'[0] = moved /\ \A q \in Ranks \ {0} : rank'[q] = rank[q]
  BY <1>1, <1>7, Fields
<1>9. /\ moved.pc = "merge" /\ moved.generation = rank[0].generation
      /\ moved.sample_vec = rank[0].sample_vec /\ moved.added = rank[0].added
      /\ moved.thrown = rank[0].thrown
      /\ moved.sample_data = rank[0].sample_data \cup content
      /\ moved.merged = rank[0].merged \cup {r}
  <2> HIDE DEF content
  <2> QED
    BY <1>1, <1>6 DEF Shaped, Members
<1> HIDE DEF moved
<1>10. OnlyWrites(f) /\ LeaderWrites(f)
  BY <1>7, <1>1 DEF FInv, OnlyWrites, LeaderWrites
<1>11. /\ RankFiles(0)'
       /\ OwnPolicy(0)' = OwnPolicy(0) /\ FirstNumber(0)' = FirstNumber(0)
  <2> HIDE DEF f
  <2> QED
    BY <1>1, <1>8, <1>9, <1>10, LeaderRank
<1>12. Merged(r)'
  <2>1. rank'[0].merged = 1 .. r
    <3>1. rank[0].merged = 1 .. r - 1
      BY DEF MergeFile
    <3>2. 1 .. r = (1 .. r - 1) \cup {r}
      BY <1>3
    <3> QED
      BY <1>8, <1>9, <3>1, <3>2
  <2>2. rank'[0].sample_data = SharesUpTo(OwnPolicy(0), FirstNumber(0), r)
    <3>1. rank[0].sample_data = SharesUpTo(OwnPolicy(0), FirstNumber(0), m) /\ r = m + 1
      BY <1>2, <1>3 DEF Merged
    <3>2. SharesUpTo(OwnPolicy(0), FirstNumber(0), m + 1)
            = SharesUpTo(OwnPolicy(0), FirstNumber(0), m)
                \cup Share(OwnPolicy(0), FirstNumber(0), m + 1)
      BY <1>3, OneMoreShare
    <3> QED
      BY <1>8, <1>9, <3>1, <3>2
  <2>3. ASSUME NEW q \in r + 1 .. WorldSize - 1
        PROVE  disk'[Temp(q)] = Content(Share(OwnPolicy(0), FirstNumber(0), q))
    <3>1. q \in m + 1 .. WorldSize - 1 /\ q \in Ranks /\ q # r
      BY <1>3, Root DEF Ranks
    <3>2. disk'[Temp(q)] = disk[Temp(q)]
      BY <1>1, <1>10, <3>1, OneFile, AreFiles, FilesDiffer
    <3> QED
      BY <1>2, <3>1, <3>2 DEF Merged
  <2> QED
    BY <1>11, <2>1, <2>2, <2>3 DEF Merged
<1>13. LeaderFiles'
  <2>1. rank'[0].pc = "merge" /\ r \in 0 .. WorldSize - 1
    BY <1>3, <1>8, <1>9
  <2> QED
    BY <1>12, <2>1 DEF LeaderFiles, Before, Alone
<1>14. \A q \in Ranks \ {0} :
         /\ rank[q].pc \notin Over => f # Weights(rank[q].generation)
                                      /\ f # Config(rank[q].generation)
         /\ rank[q].pc = "next" => f # Weights(rank[q].generation + 1)
                                   /\ f # Config(rank[q].generation + 1)
         /\ rank[q].pc = "barrier_saved" => f # Temp(q)
  BY <1>1, <1>10, LeaderAlone
<1> HIDE DEF f
<1> QED
  BY <1>1, <1>8, <1>10, <1>11, <1>13, <1>14, StepFiles

-----------------------------------------------------------------------------
(* Rank 0 writes a file. *)
LEMMA LeaderSaves ==
  ASSUME FInv, NEW from \in {"merge"} \cup Alone, NEW to \in {"barrier_merged"} \cup Alone,
         NEW f \in Files, LeaderWrites(f), NEW content, Write(0, from, to, f, content)
  PROVE  /\ rank[0].pc = from /\ job' = job
         /\ OnlyWrites(f) /\ KeepsItsData(0)
         /\ Unfinished(0, from, f) \/ Finished(0, to, f, content)
         /\ \A h \in Files : h # f => disk'[h] = disk[h]
         /\ RankFiles(0)'
         /\ OwnPolicy(0)' = OwnPolicy(0) /\ FirstNumber(0)' = FirstNumber(0) /\ Gen' = Gen
<1>1. /\ rank[0].pc = from /\ job' = job
      /\ OnlyWrites(f) /\ KeepsItsData(0)
      /\ Unfinished(0, from, f) \/ Finished(0, to, f, content)
  BY Root, WriteFields
<1>2. /\ rank'[0].pc \in {"merge", "barrier_merged", "barrier_trained"} \cup Alone
      /\ rank'[0].generation = rank[0].generation /\ rank'[0].thrown = rank[0].thrown
      /\ rank'[0].sample_vec = rank[0].sample_vec /\ rank'[0].added = rank[0].added
  BY <1>1 DEF Unfinished, Finished, KeepsItsData
<1>3. /\ RankFiles(0)'
      /\ OwnPolicy(0)' = OwnPolicy(0) /\ FirstNumber(0)' = FirstNumber(0) /\ Gen' = Gen
  BY <1>1, <1>2, LeaderRank
<1> QED
  BY <1>1, <1>3, OneFile

(* A step of rank 0 that keeps its own facts disturbs no one else. *)
LEMMA LeaderStepFiles ==
  ASSUME FInv, GInv', rank[0].pc \in {"merge"} \cup Alone, job' = job,
         \A q \in Ranks \ {0} : rank'[q] = rank[q],
         NEW f \in Files, LeaderWrites(f), OnlyWrites(f), RankFiles(0)', LeaderFiles'
  PROVE  FInv'
BY LeaderAlone, StepFiles, Root

(* The samples stay where they are while another file is written. *)
LEMMA SamplesStay ==
  ASSUME SamplesThere, job' = job, Gen' = Gen, OwnPolicy(0)' = OwnPolicy(0),
         FirstNumber(0)' = FirstNumber(0), disk'[Samples(Gen)] = disk[Samples(Gen)]
  PROVE  SamplesThere'
BY DEF SamplesThere, Readable, Read

-----------------------------------------------------------------------------
(* All files are merged: together they are the collection. *)
LEMMA AllMerged ==
  ASSUME FInv, rank[0].pc = "merge", rank[0].merged = 1 .. WorldSize - 1
  PROVE  rank[0].sample_data = Collection(OwnPolicy(0), FirstNumber(0))
<1>1. PICK m \in 0 .. WorldSize - 1 : Merged(m)
  BY DEF FInv, LeaderFiles
<1>2. m = WorldSize - 1
  <2>1. 1 .. m = 1 .. WorldSize - 1 /\ m \in Nat /\ WorldSize - 1 \in Nat
    BY <1>1, Root DEF Merged
  <2> QED
    BY <2>1, SameInterval
<1>3. RankOK(0, rank[0]) /\ RankFiles(0)
  BY Root, Fields
<1>4. ~ job.retrain_lastgen_only
  BY <1>3 DEF RankOK, Alone, Over
<1>5. ~ SplitsThrow(N, WorldSize)
  BY <1>3, <1>4 DEF RankFiles, Sampled, CannotSplit
<1>6. FirstNumber(0) \in Int
  BY <1>3, UsedInt DEF FInv, FirstNumber, RankOK
<1>7. rank[0].sample_data = SharesUpTo(OwnPolicy(0), FirstNumber(0), WorldSize - 1)
  BY <1>1, <1>2 DEF Merged
<1> QED
  BY <1>5, <1>6, <1>7, SharesAreCollection

LEMMA SaveSamplesFiles ==
  ASSUME FInv, SaveSamples
  PROVE  FInv'
<1> DEFINE f == Samples(Gen)
           data == rank[0].sample_data
<1>a. GInv' /\ 0 \in Ranks
  BY FilesKeep, Root DEF FInv
<1>b. SUFFICES ASSUME SupportsGetStateFromVarGroup PROVE FInv'
  <2> SUFFICES ASSUME CannotStore PROVE FInv'
    BY DEF CannotStore
  <2>1. GoTo(0, "failed") /\ UNCHANGED <<disk, job>> /\ Faulty(0) /\ "failed" \in Over
    BY DEF SaveSamples, SaveToFile, CannotStore, Faulty, Over
  <2> QED
    BY <1>a, <2>1, StopsFiles
<1>1. GInv' /\ Write(0, "merge", "barrier_merged", f, data)
  BY <1>a, <1>b DEF SaveSamples, SaveToFile
<1>2. rank[0].pc = "merge" /\ 0 \in Ranks
  BY <1>1, Root DEF Write, At
<1>3. f \in Files /\ LeaderWrites(f)
  <2>1. Gen \in 0 .. num_gens
    BY <1>2, GenerationBound DEF Gen, Over
  <2> QED
    BY <2>1, AreFiles DEF LeaderWrites
<1>4. /\ job' = job /\ OnlyWrites(f) /\ KeepsItsData(0)
      /\ Unfinished(0, "merge", f) \/ Finished(0, "barrier_merged", f, data)
      /\ \A h \in Files : h # f => disk'[h] = disk[h]
      /\ RankFiles(0)'
      /\ OwnPolicy(0)' = OwnPolicy(0) /\ FirstNumber(0)' = FirstNumber(0) /\ Gen' = Gen
  <2> HIDE DEF f, data
  <2> QED
    BY <1>1, <1>3, LeaderSaves
<1>5. PICK m \in 0 .. WorldSize - 1 : Merged(m)
  BY <1>2 DEF FInv, LeaderFiles
<1>6. data = Collection(OwnPolicy(0), FirstNumber(0))
  BY <1>2, AllMerged DEF SaveSamples
<1>7. ASSUME Unfinished(0, "merge", f)
      PROVE  LeaderFiles'
  <2>1. rank'[0].merged = rank[0].merged /\ rank'[0].sample_data = rank[0].sample_data
        /\ rank'[0].pc = "merge"
    BY <1>4, <1>7 DEF KeepsItsData, Unfinished
  <2>2. \A r \in m + 1 .. WorldSize - 1 : disk'[Temp(r)] = disk[Temp(r)]
    <3>1. \A r \in m + 1 .. WorldSize - 1 : r \in Ranks
      BY Root DEF Ranks
    <3> QED
      BY <1>4, <3>1, AreFiles, FilesDiffer
  <2>3. Merged(m)'
    BY <1>4, <1>5, <2>1, <2>2 DEF Merged
  <2> QED
    BY <1>4, <2>1, <2>3 DEF LeaderFiles, Before, Alone
<1>8. ASSUME Finished(0, "barrier_merged", f, data)
      PROVE  LeaderFiles'
  <2>1. rank'[0].merged = rank[0].merged /\ rank'[0].pc = "barrier_merged"
        /\ disk'[f] = Content(data)
    BY <1>4, <1>8 DEF KeepsItsData, Finished
  <2>2. Readable(f)' /\ disk'[f][2] = data
    BY <1>4, <2>1, Contents DEF Readable
  <2>4. SamplesThere'
    <3>1. Readable(Samples(Gen))'
      BY <1>4, <2>2 DEF Readable
    <3>2. ~ job'.retrain_lastgen_only =>
            Read(Samples(Gen))' = Collection(OwnPolicy(0)', FirstNumber(0)')
      <4> HIDE DEF data
      <4> QED
        BY <1>4, <1>6, <2>2 DEF Read
    <3> QED
      BY <3>1, <3>2 DEF SamplesThere
  <2> QED
    BY <2>1, <2>4 DEF LeaderFiles, Before, Alone
<1>9. LeaderFiles'
  BY <1>4, <1>7, <1>8
<1> HIDE DEF f
<1> QED
  BY <1>1, <1>2, <1>3, <1>4, <1>9, LeaderStepFiles DEF KeepsItsData

(* The files that a collection has left have all of its samples, in every  *)
(* run of the job.                                                         *)
SamplesWhole ==
  \A g \in 0 .. num_gens : Readable(Samples(g)) => Cardinality(Read(Samples(g))) = N

LEMMA CollectionSize ==
  ASSUME NEW policy, NEW base \in Int
  PROVE  Cardinality(Collection(policy, base)) = N
<1> DEFINE numbered == [i \in 1 .. N |-> SampleOf(policy, base + i)]
<1>1. N \in Nat /\ IsFiniteSet(1 .. N) /\ Cardinality(1 .. N) = N
  BY Root, FS_Interval
<1>2. ASSUME NEW i \in 1 .. N, NEW j \in 1 .. N, numbered[i] = numbered[j]
      PROVE  i = j
  <2>1. base + i = base + j
    BY <1>2 DEF SampleOf
  <2> QED
    BY <1>1, <2>1
<1>3. numbered \in [1 .. N -> Collection(policy, base)]
  BY DEF Collection
<1>4. \A x \in Collection(policy, base) : \E i \in 1 .. N : numbered[i] = x
  BY DEF Collection
<1> HIDE DEF numbered
<1>5. numbered \in Bijection(1 .. N, Collection(policy, base))
  BY <1>2, <1>3, <1>4 DEF Bijection, Injection, Surjection, IsInjective
<1>6. ExistsBijection(1 .. N, Collection(policy, base))
  BY <1>5 DEF ExistsBijection
<1>7. Cardinality(Collection(policy, base)) = Cardinality(1 .. N)
  BY <1>1, <1>6, FS_Bijection
<1> QED
  BY <1>1, <1>7

LEMMA OtherFileWritten ==
  ASSUME FInv, SamplesWhole, NEW f, OnlyWrites(f), \A g \in 0 .. num_gens : f # Samples(g)
  PROVE  SamplesWhole'
<1>1. \A g \in 0 .. num_gens : disk'[Samples(g)] = disk[Samples(g)]
  BY AreFiles DEF FInv, OnlyWrites
<1> QED
  BY <1>1 DEF SamplesWhole, Readable, Read

(* A file of samples is only written when all are merged. *)
LEMMA SamplesStayWhole ==
  ASSUME FInv, SamplesWhole, [Next]_vars
  PROVE  SamplesWhole'
<1>1. CASE disk' = disk
  BY <1>1 DEF SamplesWhole, Readable, Read
<1>2. ASSUME NEW r \in Ranks, NEW from, NEW to, NEW f \in Files, NEW content,
             Write(r, from, to, f, content), \A g \in 0 .. num_gens : f # Samples(g)
      PROVE  SamplesWhole'
  BY <1>2, WriteFields, OtherFileWritten
<1>3. ASSUME NEW r \in Ranks, RankStep(r)
      PROVE  SamplesWhole'
  <2>1. CASE SaveTemp(r)
    <3>1. CASE SupportsGetStateFromVarGroup
      BY <1>2, <2>1, <3>1, AreFiles, FilesDiffer DEF SaveTemp, SaveToFile
    <3>2. CASE ~ SupportsGetStateFromVarGroup
      BY <1>1, <2>1, <3>2 DEF SaveTemp, SaveToFile
    <3> QED
      BY <3>1, <3>2
  <2>2. CASE ~ SaveTemp(r)
    BY <1>1, <1>3, <2>2 DEF RankStep, LoopEnds, LoadPolicy, AddSample, SamplingEnds,
                            NextGeneration
  <2> QED
    BY <2>1, <2>2
<1>4. CASE LeaderStep
  <2>1. 0 \in Ranks
    BY Root
  <2>2. Gen \in 0 .. num_gens /\ Gen + 1 \in 0 .. num_gens
    <3>1. rank[0].pc \in {"merge"} \cup Alone
      BY <1>4 DEF LeaderStep, MergeFile, SaveSamples, SaveToFile, LoadSamples, Fit, TakeBest,
                  SaveWeights, SaveConfig, AfterTraining, Write, At, Alone
    <3> QED
      BY <2>1, <3>1, GenerationBound DEF Gen, Sampled, Alone, Over
  <2>3. ASSUME NEW r \in Ranks \ {0}, MergeFile(r)
        PROVE  SamplesWhole'
    <3>1. disk' = disk \/ disk' = [disk EXCEPT ![Temp(r)] = Absent]
      BY <2>3 DEF MergeFile
    <3>2. OnlyWrites(Temp(r))
      BY <3>1, AreFiles DEF OnlyWrites, FInv
    <3> QED
      BY <3>2, OtherFileWritten, FilesDiffer
  <2>4. CASE SaveSamples
    <3>1. CASE ~ SupportsGetStateFromVarGroup
      BY <1>1, <2>4, <3>1 DEF SaveSamples, SaveToFile
    <3>2. CASE SupportsGetStateFromVarGroup
      <4> DEFINE f == Samples(Gen)
                 data == rank[0].sample_data
      <4>1. Write(0, "merge", "barrier_merged", f, data) /\ f \in Files
        BY <2>2, <2>4, <3>2, AreFiles DEF SaveSamples, SaveToFile
      <4>2. Cardinality(data) = N
        <5>1. rank[0].pc = "merge" /\ rank[0].merged = 1 .. WorldSize - 1
          BY <2>4, <4>1 DEF SaveSamples, Write, At
        <5>2. FirstNumber(0) \in Int
          BY <2>1, Fields, UsedInt DEF FInv, FirstNumber, RankOK
        <5> QED
          BY <5>1, <5>2, AllMerged, CollectionSize
      <4>3. OnlyWrites(f) /\ (disk'[f] = Torn \/ disk'[f] = Content(data))
        <5> HIDE DEF f, data
        <5> QED
          BY <2>1, <4>1, WriteFields DEF Unfinished, Finished
      <4>4. ASSUME NEW g \in 0 .. num_gens, Readable(Samples(g))'
            PROVE  Cardinality(disk'[Samples(g)][2]) = N
        <5>1. CASE Samples(g) = f
          <6>1. disk'[f] = Content(data)
            BY <4>3, <4>4, <5>1 DEF Readable, Torn
          <6> HIDE DEF data
          <6> QED
            BY <4>2, <5>1, <6>1, Contents
        <5>2. CASE Samples(g) # f
          <6>1. disk'[Samples(g)] = disk[Samples(g)]
            <7> HIDE DEF f
            <7> QED
              BY <4>1, <4>3, <5>2, OneFile, AreFiles
          <6> QED
            BY <4>4, <6>1 DEF SamplesWhole, Readable, Read
        <5> QED
          BY <5>1, <5>2
      <4> QED
        BY <4>4 DEF SamplesWhole, Read
    <3> QED
      BY <3>1, <3>2
  <2>5. CASE Fit \/ SaveWeights \/ SaveConfig
    BY <1>2, <2>1, <2>2, <2>5, AreFiles, FilesDiffer DEF Fit, SaveWeights, SaveConfig
  <2>6. CASE LoadSamples
    BY <1>1, <2>6 DEF LoadSamples
  <2>7. CASE TakeBest
    <3>1. OnlyWrites(Checkpoint)
      BY <2>7, AreFiles DEF TakeBest, OnlyWrites, FInv
    <3> QED
      BY <3>1, OtherFileWritten, FilesDiffer
  <2>8. CASE AfterTraining
    <3>1. disk' = disk \/ disk' = [disk EXCEPT ![Samples(Gen)] = Absent]
      BY <2>8 DEF AfterTraining
    <3>2. ASSUME NEW g \in 0 .. num_gens
          PROVE  disk'[Samples(g)] \in {disk[Samples(g)], Absent}
      BY <3>1, <3>2, AreFiles DEF FInv
    <3> QED
      BY <3>2 DEF SamplesWhole, Readable, Read, Absent
  <2> QED
    BY <1>4, <2>3, <2>4, <2>5, <2>6, <2>7, <2>8 DEF LeaderStep
<1> QED
  BY <1>1, <1>3, <1>4 DEF Next, Fault, Restart, SamplingThrows, Barrier, Stopped, vars

(* The samples are there to train from.  Training throws only if it could  *)
(* not have trained on any collection.                                     *)
LEMMA LoadSamplesFiles ==
  ASSUME FInv, SamplesWhole, LoadSamples
  PROVE  FInv'
<1>1. GInv' /\ rank[0].pc = "train" /\ job' = job /\ disk' = disk /\ 0 \in Ranks
  BY LoadSamplesKeeps, Root DEF FInv, LoadSamples, At
<1>2. SamplesThere
  BY <1>1 DEF FInv, LeaderFiles, Alone
<1>a. Cardinality(Read(Samples(Gen))) = N
  <2>1. Gen \in 0 .. num_gens
    BY <1>1, GenerationBound DEF Gen, Over
  <2> QED
    BY <1>2, <2>1 DEF SamplesWhole, SamplesThere
<1>b. SUFFICES ASSUME ~ CannotStore, ~ CannotTrain PROVE FInv'
  <2> SUFFICES ASSUME CannotStore \/ CannotTrain PROVE FInv'
    OBVIOUS
  <2>1. GoTo(0, "failed")
    BY <1>a DEF LoadSamples, CanAdd, CannotStore, CannotTrain
  <2>2. Faulty(0) /\ "failed" \in Over
    BY DEF Faulty, Over
  <2> QED
    BY <1>1, <2>1, <2>2, StopsFiles
<1>3. GoTo(0, "fit") /\ DP_TORCH_AVAILABLE
  BY <1>2, <1>a, <1>b DEF LoadSamples, CanAdd, CannotStore, CannotTrain, SamplesThere
<1>4. /\ rank'[0].pc = "fit" /\ rank'[0].generation = rank[0].generation
      /\ rank'[0].sample_vec = rank[0].sample_vec /\ rank'[0].added = rank[0].added
      /\ rank'[0].thrown = rank[0].thrown
      /\ \A q \in Ranks \ {0} : rank'[q] = rank[q]
  BY <1>1, <1>3, GoToFields
<1>5. OnlyWrites(Checkpoint) /\ LeaderWrites(Checkpoint) /\ Checkpoint \in Files
  BY <1>1, AreFiles DEF OnlyWrites, LeaderWrites, FInv
<1>6. /\ RankFiles(0)'
      /\ OwnPolicy(0)' = OwnPolicy(0) /\ FirstNumber(0)' = FirstNumber(0) /\ Gen' = Gen
  BY <1>1, <1>4, <1>5, LeaderRank DEF Alone
<1>7. LeaderFiles'
  <2>1. SamplesThere'
    BY <1>1, <1>2, <1>6, SamplesStay
  <2> QED
    BY <1>3, <1>4, <2>1 DEF LeaderFiles, Before, Alone
<1> QED
  BY <1>1, <1>4, <1>6, <1>7, StepInMemory

-----------------------------------------------------------------------------
(* Training: the samples stay, and the next policy is there at the end. *)
LEMMA FitFiles ==
  ASSUME FInv, Fit
  PROVE  FInv'
<1> DEFINE f == Checkpoint
           best == <<Gen + 1, job.run>>
<1>1. GInv' /\ Write(0, "fit", "fitted", f, best)
  BY FilesKeep DEF FInv, Fit
<1>2. rank[0].pc = "fit" /\ 0 \in Ranks /\ f \in Files /\ LeaderWrites(f)
  BY <1>1, Root, AreFiles DEF Write, At, LeaderWrites
<1>3. /\ job' = job /\ OnlyWrites(f) /\ KeepsItsData(0)
      /\ Unfinished(0, "fit", f) \/ Finished(0, "fitted", f, best)
      /\ \A h \in Files : h # f => disk'[h] = disk[h]
      /\ RankFiles(0)'
      /\ OwnPolicy(0)' = OwnPolicy(0) /\ FirstNumber(0)' = FirstNumber(0) /\ Gen' = Gen
  <2> HIDE DEF f, best
  <2> QED
    BY <1>1, <1>2, LeaderSaves DEF Alone
<1>4. LeaderFiles'
  <2>1. rank'[0].pc \in {"fit", "fitted"}
    BY <1>3 DEF Unfinished, Finished
  <2>2. SamplesThere'
    <3>1. SamplesThere /\ Gen \in 0 .. num_gens
      BY <1>2, GenerationBound DEF FInv, LeaderFiles, Alone, Gen, Over
    <3>2. disk'[Samples(Gen)] = disk[Samples(Gen)]
      BY <1>3, <3>1, AreFiles, FilesDiffer
    <3> QED
      BY <1>3, <3>1, <3>2, SamplesStay
  <2>3. DP_TORCH_AVAILABLE
    BY <1>2 DEF FInv, LeaderFiles, Alone
  <2> QED
    BY <2>1, <2>2, <2>3 DEF LeaderFiles, Before, Alone
<1> HIDE DEF f
<1> QED
  BY <1>1, <1>2, <1>3, <1>4, LeaderStepFiles DEF KeepsItsData, Alone

LEMMA TakeBestFiles ==
  ASSUME FInv, TakeBest
  PROVE  FInv'
<1> DEFINE f == Checkpoint
           moved == [rank[0] EXCEPT !.pc = "save_weights", !.policy = Read(Checkpoint)]
<1>1. /\ GInv' /\ rank[0].pc = "fitted" /\ job' = job /\ 0 \in Ranks
      /\ f \in Files /\ LeaderWrites(f)
  BY TakeBestKeeps, Root, AreFiles DEF FInv, TakeBest, At, LeaderWrites
<1>2. rank' = [rank EXCEPT ![0] = moved] /\ disk' = [disk EXCEPT ![f] = Absent]
  BY DEF TakeBest
<1>3. rank'[0] = moved /\ \A q \in Ranks \ {0} : rank'[q] = rank[q]
  BY <1>1, <1>2, Fields
<1>4. /\ moved.pc = "save_weights" /\ moved.generation = rank[0].generation
      /\ moved.sample_vec = rank[0].sample_vec /\ moved.added = rank[0].added
      /\ moved.thrown = rank[0].thrown
  <2>1. Shaped(rank[0])
    BY <1>1, Fields
  <2> QED
    BY <2>1 DEF Shaped, Members
<1> HIDE DEF moved
<1>5. OnlyWrites(f) /\ \A h \in Files : h # f => disk'[h] = disk[h]
  BY <1>1, <1>2 DEF FInv, OnlyWrites
<1>6. /\ RankFiles(0)'
      /\ OwnPolicy(0)' = OwnPolicy(0) /\ FirstNumber(0)' = FirstNumber(0) /\ Gen' = Gen
  <2> HIDE DEF f
  <2> QED
    BY <1>1, <1>3, <1>4, <1>5, LeaderRank DEF Alone
<1>7. LeaderFiles'
  <2>1. SamplesThere'
    <3>1. SamplesThere /\ Gen \in 0 .. num_gens
      BY <1>1, GenerationBound DEF FInv, LeaderFiles, Alone, Gen, Over
    <3>2. disk'[Samples(Gen)] = disk[Samples(Gen)]
      BY <1>5, <3>1, AreFiles, FilesDiffer
    <3> QED
      BY <1>1, <1>6, <3>1, <3>2, SamplesStay
  <2>2. DP_TORCH_AVAILABLE
    BY <1>1 DEF FInv, LeaderFiles, Alone
  <2> QED
    BY <1>3, <1>4, <2>1, <2>2 DEF LeaderFiles, Before, Alone
<1> HIDE DEF f
<1> QED
  BY <1>1, <1>3, <1>5, <1>6, <1>7, LeaderStepFiles DEF Alone

LEMMA SaveWeightsFiles ==
  ASSUME FInv, SaveWeights
  PROVE  FInv'
<1> DEFINE f == Weights(Gen + 1)
           trained == rank[0].policy
<1>1. GInv' /\ Write(0, "save_weights", "save_config", f, trained)
  BY FilesKeep DEF FInv, SaveWeights
<1>2. rank[0].pc = "save_weights" /\ 0 \in Ranks
  BY <1>1, Root DEF Write, At
<1>3. Gen \in 0 .. num_gens /\ Gen + 1 \in 0 .. num_gens
  BY <1>2, GenerationBound DEF Gen, Sampled, Alone, Over
<1>4. f \in Files /\ LeaderWrites(f)
  BY <1>3, AreFiles DEF LeaderWrites
<1>5. /\ job' = job /\ OnlyWrites(f) /\ KeepsItsData(0)
      /\ Unfinished(0, "save_weights", f) \/ Finished(0, "save_config", f, trained)
      /\ \A h \in Files : h # f => disk'[h] = disk[h]
      /\ RankFiles(0)'
      /\ OwnPolicy(0)' = OwnPolicy(0) /\ FirstNumber(0)' = FirstNumber(0) /\ Gen' = Gen
  <2> HIDE DEF f, trained
  <2> QED
    BY <1>1, <1>4, LeaderSaves DEF Alone
<1>6. LeaderFiles'
  <2>1. rank'[0].pc \in {"save_weights", "save_config"}
    BY <1>5 DEF Unfinished, Finished
  <2>2. SamplesThere'
    <3>1. SamplesThere
      BY <1>2 DEF FInv, LeaderFiles, Alone
    <3>2. disk'[Samples(Gen)] = disk[Samples(Gen)]
      BY <1>3, <1>5, AreFiles, FilesDiffer
    <3> QED
      BY <1>5, <3>1, <3>2, SamplesStay
  <2>3. rank'[0].pc = "save_config" => Readable(Weights(Gen + 1))'
    <3>1. rank'[0].pc = "save_config" => disk'[f] = Content(trained)
      BY <1>5 DEF Unfinished, Finished
    <3>2. rank'[0].pc = "save_config" => Readable(f)'
      BY <1>5, <3>1, Contents DEF Readable
    <3> QED
      BY <1>5, <3>2 DEF Readable
  <2>4. DP_TORCH_AVAILABLE
    BY <1>2 DEF FInv, LeaderFiles, Alone
  <2> QED
    BY <2>1, <2>2, <2>3, <2>4 DEF LeaderFiles, Before, Alone
<1> HIDE DEF f
<1> QED
  BY <1>1, <1>2, <1>4, <1>5, <1>6, LeaderStepFiles DEF KeepsItsData, Alone

LEMMA SaveConfigFiles ==
  ASSUME FInv, SaveConfig
  PROVE  FInv'
<1> DEFINE f == Config(Gen + 1)
<1>1. GInv' /\ Write(0, "save_config", "trained", f, Gen + 1)
  BY FilesKeep DEF FInv, SaveConfig
<1>2. rank[0].pc = "save_config" /\ 0 \in Ranks
  BY <1>1, Root DEF Write, At
<1>3. Gen \in 0 .. num_gens /\ Gen + 1 \in 0 .. num_gens
  BY <1>2, GenerationBound DEF Gen, Sampled, Alone, Over
<1>4. f \in Files /\ LeaderWrites(f)
  BY <1>3, AreFiles DEF LeaderWrites
<1>5. /\ job' = job /\ OnlyWrites(f) /\ KeepsItsData(0)
      /\ Unfinished(0, "save_config", f) \/ Finished(0, "trained", f, Gen + 1)
      /\ \A h \in Files : h # f => disk'[h] = disk[h]
      /\ RankFiles(0)'
      /\ OwnPolicy(0)' = OwnPolicy(0) /\ FirstNumber(0)' = FirstNumber(0) /\ Gen' = Gen
  <2> HIDE DEF f
  <2> QED
    BY <1>1, <1>4, LeaderSaves DEF Alone
<1>6. LeaderFiles'
  <2>1. rank'[0].pc \in {"save_config", "trained"}
    BY <1>5 DEF Unfinished, Finished
  <2>2. SamplesThere /\ Readable(Weights(Gen + 1)) /\ DP_TORCH_AVAILABLE
    BY <1>2 DEF FInv, LeaderFiles, Alone
  <2>3. SamplesThere'
    <3>1. disk'[Samples(Gen)] = disk[Samples(Gen)]
      BY <1>3, <1>5, AreFiles, FilesDiffer
    <3> QED
      BY <1>5, <2>2, <3>1, SamplesStay
  <2>4. Readable(Weights(Gen + 1))'
    <3>1. disk'[Weights(Gen + 1)] = disk[Weights(Gen + 1)]
      BY <1>3, <1>5, AreFiles, FilesDiffer
    <3> QED
      BY <1>5, <2>2, <3>1 DEF Readable
  <2>5. rank'[0].pc = "trained" => HasNextPolicy(0)'
    <3>1. rank'[0].pc = "trained" => disk'[f] = Content(Gen + 1)
      BY <1>5 DEF Unfinished, Finished
    <3>2. rank'[0].pc = "trained" => Readable(f)'
      BY <1>5, <3>1, Contents DEF Readable
    <3>3. rank'[0].generation = Gen /\ rank[0].generation = Gen
      BY <1>5 DEF KeepsItsData, Gen
    <3> QED
      BY <1>5, <2>2, <2>4, <3>2, <3>3 DEF HasNextPolicy, Loadable, Readable
  <2> QED
    BY <2>1, <2>2, <2>3, <2>4, <2>5 DEF LeaderFiles, Before, Alone
<1> HIDE DEF f
<1> QED
  BY <1>1, <1>2, <1>4, <1>5, <1>6, LeaderStepFiles DEF KeepsItsData, Alone

(* What AfterTraining removes is there. *)
LEMMA AfterTrainingFiles ==
  ASSUME FInv, AfterTraining
  PROVE  FInv'
<1> DEFINE f == Samples(Gen)
           to == IF job.retrain_lastgen_only THEN "done" ELSE "barrier_trained"
<1>1. /\ GInv' /\ rank[0].pc = "trained" /\ job' = job /\ 0 \in Ranks
  BY AfterTrainingKeeps, Root DEF FInv, AfterTraining, At
<1>2. Gen \in 0 .. num_gens /\ Gen + 1 \in 0 .. num_gens
  BY <1>1, GenerationBound DEF Gen, Sampled, Alone, Over
<1>3. f \in Files /\ LeaderWrites(f)
  BY <1>2, AreFiles DEF LeaderWrites
<1>4. SamplesThere /\ HasNextPolicy(0)
  BY <1>1 DEF FInv, LeaderFiles, Alone
<1>5. disk[f] # Absent
  BY <1>4 DEF SamplesThere, Readable, Absent
<1>6. GoTo(0, to) /\ disk' \in {disk, [disk EXCEPT ![f] = Absent]}
  BY <1>5 DEF AfterTraining
<1>7. /\ rank'[0].pc = to /\ rank'[0].generation = rank[0].generation
      /\ rank'[0].sample_vec = rank[0].sample_vec /\ rank'[0].added = rank[0].added
      /\ rank'[0].thrown = rank[0].thrown
      /\ \A q \in Ranks \ {0} : rank'[q] = rank[q]
  <2> HIDE DEF to
  <2> QED
    BY <1>1, <1>6, GoToFields
<1>8. OnlyWrites(f) /\ \A h \in Files : h # f => disk'[h] = disk[h]
  <2>1. OnlyWrites(f)
    BY <1>3, <1>6 DEF FInv, OnlyWrites
  <2> HIDE DEF f
  <2> QED
    BY <1>3, <2>1, OneFile
<1>9. CASE job.retrain_lastgen_only
  <2>1. rank'[0].pc = "done"
    BY <1>7, <1>9
  <2>2. RankFiles(0)'
    <3>1. RankFiles(0)
      BY <1>1 DEF FInv
    <3>2. rank[0].thrown = {}
      BY <1>1, <3>1 DEF RankFiles
    <3> QED
      BY <1>7, <2>1, <3>2 DEF RankFiles, Over, Sampled, Alone, Barriers
  <2>3. LeaderFiles'
    BY <2>1 DEF LeaderFiles, Before, Alone
  <2> HIDE DEF f
  <2> QED
    BY <1>1, <1>3, <1>7, <1>8, <2>2, <2>3, LeaderStepFiles DEF Alone
<1>10. CASE ~ job.retrain_lastgen_only
  <2>1. rank'[0].pc = "barrier_trained"
    BY <1>7, <1>10
  <2>2. /\ RankFiles(0)'
        /\ OwnPolicy(0)' = OwnPolicy(0) /\ FirstNumber(0)' = FirstNumber(0) /\ Gen' = Gen
    <3> HIDE DEF f
    <3> QED
      BY <1>1, <1>3, <1>7, <1>8, <2>1, LeaderRank DEF Alone
  <2>3. HasNextPolicy(0)'
    <3>1. /\ disk'[Weights(Gen + 1)] = disk[Weights(Gen + 1)]
          /\ disk'[Config(Gen + 1)] = disk[Config(Gen + 1)]
      BY <1>2, <1>8, AreFiles, FilesDiffer
    <3>2. SameNextPolicy(0)
      BY <3>1 DEF SameNextPolicy, Gen
    <3> QED
      BY <1>1, <1>4, <1>7, <3>2, PolicyStays
  <2>4. LeaderFiles'
    BY <2>1, <2>3 DEF LeaderFiles, Before, Alone
  <2> HIDE DEF f
  <2> QED
    BY <1>1, <1>3, <1>7, <1>8, <2>2, <2>4, LeaderStepFiles DEF Alone
<1> QED
  BY <1>9, <1>10

-----------------------------------------------------------------------------
(* All ranks have saved their shares when the first barrier lets rank 0    *)
(* merge, the samples are merged when the second lets it train, and the    *)
(* next policy is there when the third lets them all go on.                *)
LEMMA BarrierFiles ==
  ASSUME FInv, Barrier
  PROVE  FInv'
<1>1. /\ GInv /\ GInv' /\ job' = job /\ disk' = disk /\ 0 \in Ranks
      /\ rank' = [r \in Ranks |-> Labelled(rank[r], After(r))]
  BY BarrierKeeps, Root DEF FInv, Barrier, Labelled
<1>2. \A r \in Ranks : rank[r].pc = rank[0].pc /\ rank[r].generation = rank[0].generation
  BY <1>1, BarrierAligned
<1>3. rank[0].pc \in Barriers
  BY <1>1 DEF Barrier, Waiting
<1>4. ASSUME NEW r \in Ranks
      PROVE  /\ rank'[r].pc = After(r) /\ rank'[r].generation = rank[r].generation
             /\ rank'[r].sample_vec = rank[r].sample_vec /\ rank'[r].added = rank[r].added
             /\ rank'[r].thrown = rank[r].thrown /\ rank'[r].merged = rank[r].merged
             /\ rank'[r].sample_data = rank[r].sample_data
             /\ OwnPolicy(r)' = OwnPolicy(r) /\ FirstNumber(r)' = FirstNumber(r)
             /\ (HasPolicy(r)' <=> HasPolicy(r)) /\ (HasNextPolicy(r)' <=> HasNextPolicy(r))
  <2>1. Shaped(rank[r]) /\ rank'[r] = Labelled(rank[r], After(r))
    BY <1>1, Fields
  <2>2. /\ rank'[r].pc = After(r) /\ rank'[r].generation = rank[r].generation
        /\ rank'[r].sample_vec = rank[r].sample_vec /\ rank'[r].added = rank[r].added
        /\ rank'[r].thrown = rank[r].thrown /\ rank'[r].merged = rank[r].merged
        /\ rank'[r].sample_data = rank[r].sample_data
    BY <2>1 DEF Labelled, Shaped, Members
  <2> QED
    BY <1>1, <2>2, PolicyStays DEF SamePolicy, SameNextPolicy
<1>5. ASSUME NEW r \in Ranks
      PROVE  OwnPolicy(r) = OwnPolicy(0) /\ FirstNumber(r) = FirstNumber(0)
             /\ (HasNextPolicy(r) <=> HasNextPolicy(0))
  BY <1>2 DEF OwnPolicy, FirstNumber, HasNextPolicy
<1>6. ASSUME NEW r \in Ranks
      PROVE  RankFiles(r)'
  <2>1. RankFiles(r) /\ rank[r].pc \in Barriers
    BY <1>2, <1>3 DEF FInv
  <2>2. /\ After(r) \in {"merge", "barrier_merged", "train", "barrier_trained", "next"}
        /\ After(r) = "next" => rank[r].pc = "barrier_trained"
    BY <2>1 DEF After, At, Barriers
  <2>3. After(r) = "next" => HasNextPolicy(r)
    BY <1>2, <1>5, <2>2 DEF FInv, LeaderFiles
  <2> QED
    BY <1>1, <1>4, <2>1, <2>2, <2>3 DEF RankFiles, Over, Sampled, Alone, Barriers
<1>7. LeaderFiles'
  <2>1. CASE rank[0].pc = "barrier_saved"
    <3>1. rank'[0].pc = "merge"
      BY <1>1, <1>4, <2>1 DEF After, At
    <3>2. rank[0].merged = {} /\ rank[0].sample_data = Share(OwnPolicy(0), FirstNumber(0), 0)
      BY <1>1, <2>1 DEF FInv, LeaderFiles, RankFiles
    <3>3. rank[0].sample_data = SharesUpTo(OwnPolicy(0), FirstNumber(0), 0)
      BY <3>2, OneMoreShare
    <3>4. ASSUME NEW r \in 1 .. WorldSize - 1
          PROVE  disk[Temp(r)] = Content(Share(OwnPolicy(0), FirstNumber(0), r))
      <4>1. r \in Ranks /\ r # 0
        BY Root DEF Ranks
      <4>2. RankFiles(r) /\ rank[r].pc = "barrier_saved"
        BY <1>2, <2>1, <4>1 DEF FInv
      <4> QED
        BY <1>5, <4>1, <4>2 DEF RankFiles
    <3>5. Merged(0)'
      <4>1. 1 .. 0 = {} /\ 0 + 1 = 1
        OBVIOUS
      <4>2. rank'[0].merged = 1 .. 0
        BY <1>1, <1>4, <3>2, <4>1
      <4>3. rank'[0].sample_data = SharesUpTo(OwnPolicy(0)', FirstNumber(0)', 0)
        BY <1>1, <1>4, <3>3
      <4>4. \A r \in 0 + 1 .. WorldSize - 1 :
              disk'[Temp(r)] = Content(Share(OwnPolicy(0)', FirstNumber(0)', r))
        BY <1>1, <1>4, <3>4
      <4> QED
        BY <4>2, <4>3, <4>4 DEF Merged
    <3>6. 0 \in 0 .. WorldSize - 1
      BY Root
    <3> QED
      BY <3>1, <3>5, <3>6 DEF LeaderFiles, Before, Alone
  <2>2. CASE rank[0].pc = "barrier_merged"
    <3>1. rank'[0].pc = "train"
      BY <1>1, <1>4, <2>2 DEF After, At
    <3>2. SamplesThere
      BY <2>2 DEF FInv, LeaderFiles
    <3>3. Gen' = Gen
      BY <1>1, <1>4 DEF Gen
    <3>4. SamplesThere'
      BY <1>1, <1>4, <3>2, <3>3, SamplesStay
    <3> QED
      BY <3>1, <3>4 DEF LeaderFiles, Before, Alone
  <2>3. CASE rank[0].pc = "barrier_trained"
    <3>1. rank'[0].pc = "next"
      BY <1>1, <1>4, <2>3 DEF After, At
    <3> QED
      BY <3>1 DEF LeaderFiles, Before, Alone
  <2> QED
    BY <1>3, <2>1, <2>2, <2>3 DEF Barriers
<1>8. disk' = [f \in Files |-> disk'[f]]
  BY <1>1 DEF FInv
<1> QED
  BY <1>1, <1>6, <1>7, <1>8 DEF FInv

-----------------------------------------------------------------------------
(* A job finds what it was told to start from, whatever else the one       *)
(* before it has left.                                                     *)
LEMMA StartedFiles ==
  ASSUME GInv, rank = JobStart(job), disk = [f \in Files |-> disk[f]],
         ~ job.retrain_lastgen_only => job.resume_gen \in 0 .. num_gens /\ Loadable(job.resume_gen),
         job.retrain_lastgen_only => num_gens - 1 \in Nat /\ Readable(Samples(num_gens - 1))
  PROVE  FInv
<1>1. ASSUME NEW r \in Ranks
      PROVE  /\ rank[r].pc = IF ~job.retrain_lastgen_only THEN "load"
                             ELSE IF r = 0 THEN "train" ELSE "done"
             /\ rank[r].generation = IF job.retrain_lastgen_only THEN num_gens - 1
                                     ELSE job.resume_gen
             /\ rank[r].sample_vec = NoSamples(r) /\ rank[r].added = NoneAdded(r)
             /\ rank[r].thrown = {} /\ rank[r].merged = {}
  BY DEF JobStart
<1>2. num_gens \in Nat /\ 0 \in Ranks
  BY Root
<1>3. ASSUME NEW r \in Ranks
      PROVE  RankFiles(r)
  <2>1. CASE job.retrain_lastgen_only
    <3>1. rank[r].pc \in {"train", "done"} /\ rank[r].generation = num_gens - 1
      BY <1>1, <2>1
    <3>2. rank[r].generation < num_gens
      BY <1>2, <2>1, <3>1
    <3>3. rank[r].generation <= num_gens
      BY <1>2, <2>1, <3>1
    <3> QED
      BY <1>1, <2>1, <3>1, <3>2, <3>3 DEF RankFiles, Over, Sampled, Alone, Barriers
  <2>2. CASE ~ job.retrain_lastgen_only
    <3>1. rank[r].pc = "load" /\ rank[r].generation = job.resume_gen
      BY <1>1, <2>2
    <3>2. rank[r].generation <= num_gens /\ HasPolicy(r)
      BY <1>2, <2>2, <3>1 DEF HasPolicy
    <3> QED
      BY <1>1, <2>2, <3>1, <3>2 DEF RankFiles, Over, Sampled, Alone, Barriers
  <2> QED
    BY <2>1, <2>2
<1>4. LeaderFiles
  <2>1. CASE job.retrain_lastgen_only
    <3>1. rank[0].pc = "train" /\ Gen = num_gens - 1
      BY <1>1, <1>2, <2>1 DEF Gen
    <3>2. SamplesThere
      BY <2>1, <3>1 DEF SamplesThere
    <3> QED
      BY <3>1, <3>2 DEF LeaderFiles, Before, Alone
  <2>2. CASE ~ job.retrain_lastgen_only
    <3>1. rank[0].pc = "load" /\ rank[0].merged = {}
      BY <1>1, <1>2, <2>2
    <3> QED
      BY <3>1 DEF LeaderFiles, Alone
  <2> QED
    BY <2>1, <2>2
<1> QED
  BY <1>3, <1>4 DEF FInv

(* The files invariant is inductive. *)
LEMMA InitFInv == Init => FInv
<1> SUFFICES ASSUME Init PROVE FInv
  OBVIOUS
<1>1. /\ GInv /\ rank = JobStart(job)
      /\ job.resume_gen = 0 /\ ~ job.retrain_lastgen_only /\ 0 \in 0 .. num_gens
  BY InitGInv, Root DEF Init, Configured
<1>2. disk = [f \in Files |-> disk[f]]
  BY DEF Init
<1>3. Loadable(0)
  BY DEF Loadable
<1> QED
  BY <1>1, <1>2, <1>3, StartedFiles

LEMMA InitSamplesWhole == Init => SamplesWhole
BY AreFiles DEF Init, SamplesWhole, Readable, Absent

LEMMA RestartFiles ==
  ASSUME FInv, Restart
  PROVE  FInv'
<1>1. GInv' /\ rank' = JobStart(job') /\ disk' = disk /\ job' \in NextRuns
  BY RestartKeeps DEF FInv, Restart
<1>2. /\ ~ job'.retrain_lastgen_only =>
           job'.resume_gen \in 0 .. num_gens /\ Loadable(job'.resume_gen)
      /\ job'.retrain_lastgen_only =>
           num_gens - 1 \in Nat /\ Readable(Samples(num_gens - 1))
  BY <1>1, Root DEF NextRuns, Configured
<1>3. /\ (Loadable(job.resume_gen))' <=> Loadable(job'.resume_gen)
      /\ (Readable(Samples(num_gens - 1)))' <=> Readable(Samples(num_gens - 1))
  BY <1>1 DEF Loadable, Readable
<1>4. disk' = [f \in Files |-> disk'[f]]
  BY <1>1 DEF FInv
<1>5. (GInv /\ rank = JobStart(job) /\ disk = [f \in Files |-> disk[f]]
       /\ (~ job.retrain_lastgen_only =>
             job.resume_gen \in 0 .. num_gens /\ Loadable(job.resume_gen))
       /\ (job.retrain_lastgen_only =>
             num_gens - 1 \in Nat /\ Readable(Samples(num_gens - 1))) => FInv)'
  BY StartedFiles, PTL
<1> QED
  BY <1>1, <1>2, <1>3, <1>4, <1>5

LEMMA NextFInv == FInv /\ SamplesWhole /\ [Next]_vars => FInv' /\ SamplesWhole'
<1> SUFFICES ASSUME FInv, SamplesWhole, [Next]_vars PROVE FInv'
  BY SamplesStayWhole
<1>1. ASSUME NEW r \in Ranks, RankStep(r)
      PROVE  FInv'
  BY <1>1, LoopEndsFiles, LoadPolicyFiles, AddSampleFiles, SamplingEndsFiles, SaveTempFiles,
     NextGenerationFiles DEF RankStep
<1>2. CASE LeaderStep
  BY <1>2, MergeFileFiles, SaveSamplesFiles, LoadSamplesFiles, FitFiles, TakeBestFiles,
     SaveWeightsFiles, SaveConfigFiles, AfterTrainingFiles DEF LeaderStep
<1>3. CASE Fault
  BY <1>3, RestartFiles, SamplingThrowsFiles DEF Fault
<1>4. CASE UNCHANGED vars
  <2>1. GInv' /\ rank' = rank /\ disk' = disk /\ job' = job
    BY <1>4, NextGInv DEF FInv, vars
  <2>2. 0 \in Ranks /\ RankFiles(0)'
    BY <2>1, Root, RankStays DEF FInv, SamePolicy, SameNextPolicy
  <2>3. LeaderFiles'
    BY <2>1, LeaderStays DEF FInv, SamePolicy, SameNextPolicy
  <2> QED
    BY <2>1, <2>2, <2>3, StepInMemory
<1> QED
  BY <1>1, <1>2, <1>3, <1>4, BarrierFiles DEF Next, Stopped

-----------------------------------------------------------------------------
(* What the next policy is trained on is exactly one collection: N samples *)
(* with the next N numbers, all of this run and taken with the policy of   *)
(* the generation, however many ranks and threads collected it, whatever   *)
(* threw, and whatever files a killed run has left.                        *)
THEOREM SampleFileIsExact == Spec => []SampleFileExact
<1>1. FInv => SampleFileExact
  <2> SUFFICES ASSUME FInv, rank[0].pc = "train", ~ job.retrain_lastgen_only
               PROVE  Read(Samples(Gen)) =
                        {[number |-> n, policy |-> PolicyOf(Gen)]
                           : n \in rank[0].seed_offset - N + 1 .. rank[0].seed_offset}
    BY DEF SampleFileExact, At
  <2>1. /\ rank[0].generation \in Nat
        /\ rank[0].seed_offset = UsedBefore(rank[0].generation) + N
    BY Root, Fields DEF RankOK, Sampled, Alone
  <2>2. FirstNumber(0) \in Int /\ rank[0].seed_offset = FirstNumber(0) + N /\ N \in Nat
    BY <2>1, Root, UsedInt DEF FInv, FirstNumber
  <2>3. Read(Samples(Gen)) = Collection(OwnPolicy(0), FirstNumber(0))
    BY DEF FInv, LeaderFiles, SamplesThere, Alone
  <2> DEFINE base == FirstNumber(0)
             policy == PolicyOf(Gen)
             Numbered == {SampleOf(policy, n)
                            : n \in rank[0].seed_offset - N + 1 .. rank[0].seed_offset}
  <2>4. OwnPolicy(0) = policy
    BY DEF OwnPolicy, Gen
  <2>5. ASSUME NEW i \in 1 .. N
        PROVE  base + i \in rank[0].seed_offset - N + 1 .. rank[0].seed_offset
    BY <2>2
  <2>6. ASSUME NEW n \in rank[0].seed_offset - N + 1 .. rank[0].seed_offset
        PROVE  n - base \in 1 .. N /\ n = base + (n - base)
    BY <2>2
  <2> HIDE DEF base, policy
  <2>7. Collection(policy, base) = Numbered
    <3>1. \A x : x \in Collection(policy, base) => x \in Numbered
      BY <2>5 DEF Collection
    <3>2. \A x : x \in Numbered => x \in Collection(policy, base)
      BY <2>6 DEF Collection
    <3> HIDE DEF Numbered
    <3> QED
      BY <3>1, <3>2
  <2> QED
    BY <2>3, <2>4, <2>7 DEF base, policy, SampleOf
<1> QED
  BY InitFInv, InitSamplesWhole, NextFInv, <1>1, PTL DEF Spec

(* A rank stops only if its sampling throws, or for a reason its           *)
(* configuration gives it: its samples cannot be cut or stored, or, rank 0 *)
(* only, N samples are not enough to train on or there is no Torch.  What  *)
(* another rank or a killed run did or left never stops it: the files are  *)
(* there, whole and complete when they are read or removed, and the        *)
(* numbers come out in order.                                              *)
THEOREM RanksStopByFaultsOnly == Spec => []OnlyFaultsStopRanks
<1>1. FInv => OnlyFaultsStopRanks
  BY DEF FInv, RankFiles, OnlyFaultsStopRanks, At
<1> QED
  BY InitFInv, InitSamplesWhole, NextFInv, <1>1, PTL DEF Spec
-----------------------------------------------------------------------------
(***************************************************************************)
(* Nobody is left waiting at a barrier that another never reaches.         *)
(***************************************************************************)

(* Rank 0 alone merges and trains, the others alone save a file.           *)
OwnPlace(r, label) ==
  /\ label \in {"merge"} \cup Alone => r = 0
  /\ label = "save" => r # 0

(* The number of barriers in a run that began at generation 0.             *)
AllEpochs == 3 * num_gens

(* Who is under way when another is done has passed all barriers too.      *)
EndTogether ==
  ~ job.retrain_lastgen_only =>
    \A r, q \in Ranks :
      At(r, "done") /\ rank[q].pc \notin Over => Epoch(rank[q]) = AllEpochs

EInv ==
  /\ FInv
  /\ SamplesWhole
  /\ \A r \in Ranks : OwnPlace(r, rank[r].pc)
  /\ EndTogether

(* The way through a generation: how many places are left. *)
PlacesLeft(label) ==
  CASE label = "load"           -> 14
    [] label = "collect"        -> 13
    [] label = "save"           -> 12
    [] label = "barrier_saved"  -> 11
    [] label = "merge"          -> 10
    [] label = "barrier_merged" -> 9
    [] label = "train"          -> 8
    [] label = "fit"            -> 7
    [] label = "fitted"         -> 6
    [] label = "save_weights"   -> 5
    [] label = "save_config"    -> 4
    [] label = "trained"        -> 3
    [] label = "barrier_trained" -> 2
    [] label = "next"           -> 1
    [] OTHER                    -> 0

InOrder(r) ==
  \/ /\ rank'[r].generation = rank[r].generation
     /\ \/ rank'[r].pc = rank[r].pc
        \/ PlacesLeft(rank'[r].pc) < PlacesLeft(rank[r].pc)
  \/ /\ rank[r].generation < rank'[r].generation
     /\ rank'[r].generation <= num_gens

(* A step of rank r that passes no barrier, and ends after the last only.  *)
MovesOn(r) ==
  /\ InOrder(r)
  /\ rank[r].pc \notin Over
  /\ \A q \in Ranks \ {r} : rank'[q] = rank[q]
  /\ rank'[r].pc \notin Over => Epoch(rank'[r]) = Epoch(rank[r])
  /\ rank'[r].pc = "done" => job.retrain_lastgen_only \/ Epoch(rank[r]) = AllEpochs
  /\ OwnPlace(r, rank'[r].pc)

LEMMA MovesOnKeeps ==
  ASSUME EInv, NEW r \in Ranks, MovesOn(r), job' = job
  PROVE  EndTogether' /\ \A q \in Ranks : OwnPlace(q, rank'[q].pc)
<1>1. \A q \in Ranks : OwnPlace(q, rank'[q].pc)
  BY DEF EInv, MovesOn
<1>2. SUFFICES ASSUME ~ job.retrain_lastgen_only, NEW p \in Ranks, NEW q \in Ranks,
                      rank'[p].pc = "done", rank'[q].pc \notin Over
               PROVE  Epoch(rank'[q]) = AllEpochs
  BY <1>1 DEF EndTogether, Epoch, At, AllEpochs
<1>3. rank[q].pc \notin Over /\ Epoch(rank'[q]) = Epoch(rank[q])
  BY <1>2 DEF MovesOn
<1>4. CASE p = r
  <2>1. Epoch(rank[r]) = AllEpochs /\ rank[r].pc \notin Over
    BY <1>2, <1>4 DEF MovesOn
  <2>2. Epoch(rank[q]) = Epoch(rank[r])
    BY <1>3, <2>1 DEF EInv, FInv, GInv, Aligned
  <2> QED
    BY <1>3, <2>1, <2>2
<1>5. CASE p # r
  <2>1. At(p, "done")
    BY <1>2, <1>5 DEF MovesOn, At
  <2> QED
    BY <1>2, <1>3, <2>1 DEF EInv, EndTogether
<1> QED
  BY <1>4, <1>5

(* The steps that only change where a rank stands. *)
LEMMA GoToMovesOn ==
  ASSUME EInv, NEW r \in Ranks, NEW to, GoTo(r, to),
         rank[r].pc \notin Over, OwnPlace(r, to), PlacesLeft(to) < PlacesLeft(rank[r].pc),
         to \notin Over => Stage(to) = Stage(rank[r].pc),
         to = "done" => job.retrain_lastgen_only \/ Epoch(rank[r]) = AllEpochs
  PROVE  MovesOn(r)
<1>1. /\ rank'[r].pc = to /\ rank'[r].generation = rank[r].generation
      /\ \A q \in Ranks \ {r} : rank'[q] = rank[q]
  BY GoToFields DEF EInv
<1> QED
  BY <1>1 DEF MovesOn, InOrder, Epoch

(* And those that leave it where it is. *)
LEMMA StaysMovesOn ==
  ASSUME EInv, NEW r \in Ranks, rank[r].pc \notin Over,
         \A q \in Ranks \ {r} : rank'[q] = rank[q],
         rank'[r].pc = rank[r].pc, rank'[r].generation = rank[r].generation
  PROVE  MovesOn(r)
BY DEF MovesOn, InOrder, Epoch, EInv, Over

LEMMA WriteMovesOn ==
  ASSUME EInv, NEW r \in Ranks, NEW from, NEW to, NEW f, NEW content,
         Write(r, from, to, f, content),
         from \notin Over, OwnPlace(r, to), to \notin Over, Stage(to) = Stage(from),
         PlacesLeft(to) < PlacesLeft(from)
  PROVE  MovesOn(r)
<1>1. CASE UNCHANGED rank
  BY <1>1, StaysMovesOn DEF Write, At
<1>2. CASE GoTo(r, to)
  BY <1>2, GoToMovesOn DEF Write, At, Over
<1> QED
  BY <1>1, <1>2 DEF Write

-----------------------------------------------------------------------------
LeavesPlace(r) == rank'[r].pc # rank[r].pc

LEMMA AddSampleMovesOn ==
  ASSUME EInv, NEW r \in Ranks, NEW t \in Threads(r), AddSample(r, t)
  PROVE  MovesOn(r) /\ job' = job
<1> DEFINE slot == ThreadStart(r, t) + rank[r].added[t]
           sample == [number |-> SampleNumber(r, t), policy |-> rank[r].policy]
           vec == [rank[r].sample_vec EXCEPT ![slot] = sample]
           more == [rank[r].added EXCEPT ![t] = rank[r].added[t] + 1]
           moved == [rank[r] EXCEPT !.sample_vec = vec, !.added = more]
<1>1. rank[r].pc = "collect" /\ job' = job
  BY DEF AddSample, Sampling, At
<1>2. Shaped(rank[r]) /\ FInv
  BY Fields DEF EInv
<1>3. rank' = [rank EXCEPT ![r] = moved]
  BY <1>2 DEF AddSample, Shaped, Members
<1>4. rank'[r] = moved /\ \A q \in Ranks \ {r} : rank'[q] = rank[q]
  BY <1>2, <1>3, Fields
<1>5. moved.pc = rank[r].pc /\ moved.generation = rank[r].generation
  <2> HIDE DEF vec, more
  <2> QED
    BY <1>2 DEF Shaped, Members
<1> HIDE DEF moved
<1> QED
  BY <1>1, <1>4, <1>5, StaysMovesOn DEF Over

LEMMA SamplingEndsMovesOn ==
  ASSUME EInv, NEW r \in Ranks, SamplingEnds(r)
  PROVE  MovesOn(r) /\ LeavesPlace(r) /\ job' = job
<1> DEFINE label == IF r > 0 THEN "save" ELSE "barrier_saved"
           gathered == {rank[r].sample_vec[s] : s \in Slots(r)} \ {None}
           moved == [rank[r] EXCEPT !.pc = label, !.seed_offset = SeedAfter(r),
                       !.sample_data = gathered, !.sample_vec = NoSamples(r),
                       !.added = NoneAdded(r)]
<1>1. rank[r].pc = "collect" /\ UNCHANGED <<disk, job, drawn>>
  BY DEF SamplingEnds, At
<1>2. CASE GoTo(r, "failed")
  BY <1>1, <1>2, GoToMovesOn, GoToFields
     DEF EInv, LeavesPlace, OwnPlace, Over, Alone, PlacesLeft
<1>3. CASE ~ GoTo(r, "failed")
  <2>1. Shaped(rank[r]) /\ FInv
    BY Fields DEF EInv
  <2>2. rank' = [rank EXCEPT ![r] = moved]
    BY <1>3 DEF SamplingEnds
  <2>3. rank'[r] = moved /\ \A q \in Ranks \ {r} : rank'[q] = rank[q]
    <3> HIDE DEF moved
    <3> QED
      BY <2>1, <2>2, Fields
  <2>4. moved.pc = label /\ moved.generation = rank[r].generation
    <3> HIDE DEF label, gathered
    <3> QED
      BY <2>1 DEF Shaped, Members
  <2>5. label \in {"save", "barrier_saved"} /\ (label = "save" => r # 0)
    OBVIOUS
  <2> HIDE DEF moved, label
  <2>6. rank'[r].pc = label /\ Epoch(rank'[r]) = Epoch(rank[r])
    BY <1>1, <2>3, <2>4, <2>5 DEF Epoch, Stage
  <2>7. InOrder(r)
    BY <1>1, <2>3, <2>4, <2>5 DEF InOrder, PlacesLeft
  <2> QED
    BY <1>1, <2>3, <2>5, <2>6, <2>7 DEF MovesOn, LeavesPlace, OwnPlace, Over, Alone
<1> QED
  BY <1>2, <1>3

LEMMA LoopEndsMovesOn ==
  ASSUME EInv, NEW r \in Ranks, LoopEnds(r)
  PROVE  MovesOn(r) /\ LeavesPlace(r) /\ job' = job
<1>1. /\ rank[r].pc = "load" /\ rank[r].generation = num_gens
      /\ GoTo(r, "done") /\ job' = job
  BY DEF LoopEnds, At
<1>2. Epoch(rank[r]) = AllEpochs
  BY <1>1, Root DEF Epoch, Stage, AllEpochs
<1>3. MovesOn(r)
  BY <1>1, <1>2, GoToMovesOn DEF OwnPlace, Over, Alone, PlacesLeft
<1> QED
  BY <1>1, <1>3, GoToFields DEF EInv, LeavesPlace

LEMMA LoadPolicyMovesOn ==
  ASSUME EInv, NEW r \in Ranks, LoadPolicy(r)
  PROVE  MovesOn(r) /\ LeavesPlace(r) /\ job' = job
<1>1. rank[r].pc = "load" /\ job' = job /\ Shaped(rank[r]) /\ FInv
  BY Fields DEF EInv, LoadPolicy, At
<1>2. CASE GoTo(r, "failed")
  BY <1>1, <1>2, GoToMovesOn, GoToFields
     DEF OwnPlace, Over, Alone, PlacesLeft, LeavesPlace
<1>3. CASE rank' = [rank EXCEPT ![r].pc = "collect",
                                ![r].policy = PolicyOf(rank[r].generation)]
  <2> DEFINE moved == [rank[r] EXCEPT !.pc = "collect",
                                      !.policy = PolicyOf(rank[r].generation)]
  <2>1. moved.pc = "collect" /\ moved.generation = rank[r].generation
    BY <1>1 DEF Shaped, Members
  <2>2. rank'[r] = moved /\ \A q \in Ranks \ {r} : rank'[q] = rank[q]
    <3>1. rank' = [rank EXCEPT ![r] = moved]
      BY <1>3
    <3> HIDE DEF moved
    <3> QED
      BY <1>1, <3>1, Fields
  <2> HIDE DEF moved
  <2>3. rank'[r].pc = "collect" /\ Epoch(rank'[r]) = Epoch(rank[r])
    BY <1>1, <2>1, <2>2 DEF Epoch, Stage
  <2>4. InOrder(r)
    BY <1>1, <2>1, <2>2 DEF InOrder, PlacesLeft
  <2> QED
    BY <1>1, <2>2, <2>3, <2>4 DEF MovesOn, LeavesPlace, OwnPlace, Over, Alone
<1> QED
  BY <1>2, <1>3 DEF LoadPolicy

LEMMA NextGenerationMovesOn ==
  ASSUME EInv, NEW r \in Ranks, NextGeneration(r)
  PROVE  MovesOn(r) /\ LeavesPlace(r) /\ job' = job
<1> DEFINE moved == [rank[r] EXCEPT !.pc = "load", !.generation = rank[r].generation + 1,
                       !.policy = None, !.sample_data = {}, !.merged = {}]
<1>1. /\ rank[r].pc = "next" /\ job' = job /\ Shaped(rank[r]) /\ FInv
      /\ rank[r].generation \in Nat
  BY Fields DEF EInv, RankOK, NextGeneration, At
<1>2. moved.pc = "load" /\ moved.generation = rank[r].generation + 1
  BY <1>1 DEF Shaped, Members
<1>3. rank' = [rank EXCEPT ![r] = moved]
  BY DEF NextGeneration
<1>4. rank'[r] = moved /\ \A q \in Ranks \ {r} : rank'[q] = rank[q]
  BY <1>1, <1>3, Fields
<1> HIDE DEF moved
<1>5. rank'[r].pc = "load" /\ Epoch(rank'[r]) = Epoch(rank[r])
  BY <1>1, <1>2, <1>4 DEF Epoch, Stage, Alone
<1>6. InOrder(r)
  <2>1. rank[r].generation + 1 \in 0 .. num_gens
    BY <1>1, GenerationBound DEF Sampled
  <2> QED
    BY <1>1, <1>2, <1>4, <2>1 DEF InOrder
<1> QED
  BY <1>1, <1>4, <1>5, <1>6 DEF MovesOn, LeavesPlace, OwnPlace, Over, Alone

LEMMA SaveTempMovesOn ==
  ASSUME EInv, NEW r \in Ranks, SaveTemp(r)
  PROVE  MovesOn(r) /\ job' = job
<1>1. "save" \notin Over /\ OwnPlace(r, "barrier_saved") /\ "barrier_saved" \notin Over
      /\ Stage("barrier_saved") = Stage("save")
      /\ PlacesLeft("barrier_saved") < PlacesLeft("save")
  BY DEF Over, OwnPlace, Alone, Stage, PlacesLeft
<1>2. CASE SupportsGetStateFromVarGroup
  <2>1. Write(r, "save", "barrier_saved", Temp(r), rank[r].sample_data) /\ job' = job
    BY <1>2 DEF SaveTemp, SaveToFile, Write
  <2> QED
    BY <1>1, <2>1, WriteMovesOn
<1>3. CASE ~ SupportsGetStateFromVarGroup
  <2>1. rank[r].pc = "save" /\ GoTo(r, "failed") /\ job' = job
    BY <1>3 DEF SaveTemp, SaveToFile, At
  <2> QED
    BY <2>1, GoToMovesOn DEF OwnPlace, Over, Alone, PlacesLeft
<1> QED
  BY <1>2, <1>3

(* Whatever a rank does, it passes no barrier, and leaves the loop in the  *)
(* last generation only.                                                   *)
LEMMA RankMovesOn ==
  ASSUME EInv, NEW r \in Ranks, RankStep(r)
  PROVE  MovesOn(r) /\ job' = job
BY LoopEndsMovesOn, LoadPolicyMovesOn, AddSampleMovesOn, SamplingEndsMovesOn, SaveTempMovesOn,
   NextGenerationMovesOn DEF RankStep

LEMMA TakeBestMovesOn ==
  ASSUME EInv, TakeBest
  PROVE  MovesOn(0) /\ LeavesPlace(0) /\ job' = job
<1> DEFINE moved == [rank[0] EXCEPT !.pc = "save_weights", !.policy = Read(Checkpoint)]
<1>1. /\ rank[0].pc = "fitted" /\ job' = job /\ rank' = [rank EXCEPT ![0] = moved]
      /\ Shaped(rank[0]) /\ FInv
  BY Root, Fields DEF EInv, TakeBest, At
<1>2. moved.pc = "save_weights" /\ moved.generation = rank[0].generation
  BY <1>1 DEF Shaped, Members
<1>3. rank'[0] = moved /\ \A q \in Ranks \ {0} : rank'[q] = rank[q]
  BY <1>1, Root, Fields
<1> HIDE DEF moved
<1>4. rank'[0].pc = "save_weights" /\ Epoch(rank'[0]) = Epoch(rank[0])
  BY <1>1, <1>2, <1>3 DEF Epoch, Stage, Alone
<1>5. InOrder(0)
  BY <1>1, <1>2, <1>3 DEF InOrder, PlacesLeft
<1> QED
  BY <1>1, <1>3, <1>4, <1>5 DEF MovesOn, LeavesPlace, OwnPlace, Over

(* And so does rank 0 when it merges and trains. *)
LEMMA LeaderMovesOn ==
  ASSUME EInv, LeaderStep
  PROVE  MovesOn(0) /\ job' = job
<1>1. 0 \in Ranks
  BY Root
<1>2. /\ Shaped(rank[0])
      /\ \A state : rank' = [rank EXCEPT ![0] = state] =>
           rank'[0] = state /\ \A q \in Ranks \ {0} : rank'[q] = rank[q]
  BY <1>1, Fields DEF EInv, RankOK
<1>3. \A label : OwnPlace(0, label) <=> label # "save"
  BY DEF OwnPlace
<1>4. ASSUME NEW r \in Ranks, MergeFile(r)
      PROVE  MovesOn(0) /\ job' = job
  <2>1. rank[0].pc = "merge" /\ job' = job
    BY <1>4 DEF MergeFile, At
  <2>2. CASE GoTo(0, "failed")
    BY <1>1, <1>3, <2>1, <2>2, GoToMovesOn DEF PlacesLeft, Over
  <2>3. CASE rank' = [rank EXCEPT ![0].sample_data = @ \cup Read(Temp(r)),
                                  ![0].merged = @ \cup {r}]
    <3> DEFINE moved == [rank[0] EXCEPT !.sample_data = @ \cup Read(Temp(r)),
                                        !.merged = @ \cup {r}]
    <3>1. moved.pc = rank[0].pc /\ moved.generation = rank[0].generation
      BY <1>2 DEF Shaped, Members
    <3>2. rank' = [rank EXCEPT ![0] = moved]
      BY <1>2, <2>3 DEF Shaped, Members
    <3>3. rank'[0] = moved /\ \A q \in Ranks \ {0} : rank'[q] = rank[q]
      BY <1>2, <3>2
    <3> HIDE DEF moved
    <3> QED
      BY <1>1, <2>1, <3>1, <3>3, StaysMovesOn DEF Over
  <2> QED
    BY <1>4, <2>2, <2>3 DEF MergeFile
<1>5. ASSUME NEW from, NEW to, NEW f, NEW content, Write(0, from, to, f, content),
             from \notin Over, to # "save", to \notin Over, Stage(to) = Stage(from),
             PlacesLeft(to) < PlacesLeft(from)
      PROVE  MovesOn(0) /\ job' = job
  BY <1>1, <1>3, <1>5, WriteMovesOn DEF Write
<1>6. CASE SaveSamples
  <2>1. CASE SupportsGetStateFromVarGroup
    BY <1>5, <1>6, <2>1 DEF SaveSamples, SaveToFile, Over, Stage, PlacesLeft
  <2>2. CASE ~ SupportsGetStateFromVarGroup
    <3>1. rank[0].pc = "merge" /\ GoTo(0, "failed") /\ job' = job
      BY <1>6, <2>2 DEF SaveSamples, SaveToFile, At
    <3> QED
      BY <1>1, <1>3, <3>1, GoToMovesOn DEF PlacesLeft, Over
  <2> QED
    BY <2>1, <2>2
<1>7. CASE LoadSamples
  <2>1. PICK to \in {"fit", "failed"} : GoTo(0, to)
    BY <1>7 DEF LoadSamples
  <2>2. rank[0].pc = "train" /\ job' = job
    BY <1>7 DEF LoadSamples, At
  <2> QED
    BY <1>1, <1>3, <2>1, <2>2, GoToMovesOn DEF PlacesLeft, Over, Stage, Alone
<1>8. CASE Fit
  BY <1>5, <1>8 DEF Fit, Over, Stage, PlacesLeft, Alone
<1>9. CASE SaveWeights
  BY <1>5, <1>9 DEF SaveWeights, Over, Stage, PlacesLeft, Alone
<1>10. CASE SaveConfig
  BY <1>5, <1>10 DEF SaveConfig, Over, Stage, PlacesLeft, Alone
<1>11. CASE AfterTraining
  <2>1. PICK to \in {"failed", "done", "barrier_trained"} :
          GoTo(0, to) /\ (to = "done" => job.retrain_lastgen_only)
    BY <1>11 DEF AfterTraining
  <2>2. rank[0].pc = "trained" /\ job' = job
    BY <1>11 DEF AfterTraining, At
  <2> QED
    BY <1>1, <1>3, <2>1, <2>2, GoToMovesOn DEF PlacesLeft, Over, Stage, Alone
<1> QED
  BY <1>4, <1>6, <1>7, <1>8, <1>9, <1>10, <1>11, TakeBestMovesOn DEF LeaderStep

-----------------------------------------------------------------------------
LEMMA StartedEnds ==
  ASSUME FInv, SamplesWhole, rank = JobStart(job)
  PROVE  EInv
<1>1. ASSUME NEW r \in Ranks
      PROVE  rank[r].pc = IF ~job.retrain_lastgen_only THEN "load"
                          ELSE IF r = 0 THEN "train" ELSE "done"
  BY DEF JobStart
<1>2. \A r \in Ranks : OwnPlace(r, rank[r].pc)
  BY <1>1 DEF OwnPlace, Alone
<1>3. EndTogether
  BY <1>1 DEF EndTogether, At
<1> QED
  BY <1>2, <1>3 DEF EInv

LEMMA InitEInv == Init => EInv
BY InitFInv, InitSamplesWhole, StartedEnds DEF Init

LEMMA RestartEnds ==
  ASSUME EInv, Restart, FInv', SamplesWhole'
  PROVE  EInv'
<1>1. rank' = JobStart(job')
  BY DEF Restart
<1>2. (FInv /\ SamplesWhole /\ rank = JobStart(job) => EInv)'
  BY StartedEnds, PTL
<1> QED
  BY <1>1, <1>2

LEMMA SamplingThrowsEnds ==
  ASSUME EInv, NEW r \in Ranks, NEW t \in Threads(r), SamplingThrows(r, t)
  PROVE  MovesOn(r) /\ job' = job
<1> DEFINE more == rank[r].thrown \cup {t}
           moved == [rank[r] EXCEPT !.thrown = more]
<1>1. rank[r].pc = "collect" /\ job' = job
  BY DEF SamplingThrows, Sampling, At
<1>2. Shaped(rank[r]) /\ FInv
  BY Fields DEF EInv
<1>3. rank' = [rank EXCEPT ![r] = moved]
  BY <1>2 DEF SamplingThrows, Shaped, Members
<1>4. rank'[r] = moved /\ \A q \in Ranks \ {r} : rank'[q] = rank[q]
  BY <1>2, <1>3, Fields
<1>5. moved.pc = rank[r].pc /\ moved.generation = rank[r].generation
  <2> HIDE DEF more
  <2> QED
    BY <1>2 DEF Shaped, Members
<1> HIDE DEF moved
<1> QED
  BY <1>1, <1>4, <1>5, StaysMovesOn DEF Over

(* Everybody is under way, so nobody is done, and goes to its own place.   *)
LEMMA BarrierEnds ==
  ASSUME EInv, Barrier
  PROVE  EndTogether' /\ \A r \in Ranks : OwnPlace(r, rank'[r].pc)
<1>1. ASSUME NEW r \in Ranks
      PROVE  rank'[r].pc # "done" /\ OwnPlace(r, rank'[r].pc)
  <2>1. rank[r].pc \in Barriers /\ Shaped(rank[r])
    BY Fields DEF EInv, Barrier, Waiting
  <2>2. rank'[r] = Labelled(rank[r], After(r))
    BY DEF Barrier, Labelled
  <2>3. rank'[r].pc = After(r)
    BY <2>1, <2>2, LabelledShape
  <2>4. After(r) # "done" /\ OwnPlace(r, After(r))
    BY <2>1 DEF After, At, Barriers, OwnPlace, Alone
  <2> QED
    BY <2>3, <2>4
<1> QED
  BY <1>1 DEF EndTogether, At

LEMMA NextEInv == EInv /\ [Next]_vars => EInv'
<1> SUFFICES ASSUME EInv, [Next]_vars PROVE EInv'
  OBVIOUS
<1>1. FInv' /\ SamplesWhole'
  BY NextFInv DEF EInv
<1>2. SUFFICES ASSUME ~ Restart
               PROVE  EndTogether' /\ \A r \in Ranks : OwnPlace(r, rank'[r].pc)
  BY <1>1, RestartEnds DEF EInv
<1>3. ASSUME NEW r \in Ranks, RankStep(r)
      PROVE  EndTogether' /\ \A q \in Ranks : OwnPlace(q, rank'[q].pc)
  BY <1>3, RankMovesOn, MovesOnKeeps
<1>4. CASE LeaderStep
  BY <1>4, Root, LeaderMovesOn, MovesOnKeeps
<1>5. CASE Fault
  BY <1>2, <1>5, SamplingThrowsEnds, MovesOnKeeps DEF Fault
<1>6. CASE UNCHANGED vars
  BY <1>6 DEF vars, EInv, EndTogether, At, Epoch
<1> QED
  BY <1>3, <1>4, <1>5, <1>6, BarrierEnds DEF Next, Stopped

(* A rank that has a step of its own to take. *)
Runs(r) ==
  \/ At(r, "load") /\ rank[r].generation \in 0 .. num_gens
  \/ At(r, "collect") \/ At(r, "next")
  \/ r > 0 /\ At(r, "save")
  \/ r = 0 /\ At(r, "merge") /\ \E q \in 1 .. WorldSize : rank[0].merged = 1 .. q - 1
  \/ r = 0 /\ rank[r].pc \in Alone

NobodyIsStranded ==
  \/ \A r \in Ranks : At(r, "done")
  \/ \A r \in Ranks : Waiting(r)
  \/ \E r \in Ranks : Runs(r)
  \/ \E r \in Ranks : At(r, "failed")

LEMMA EndedWaitsOrRuns ==
  ASSUME EInv, NEW r \in Ranks
  PROVE  Ended(r) \/ Waiting(r) \/ Runs(r)
<1>1. rank[r].pc \in Before \cup Sampled \cup Over /\ OwnPlace(r, rank[r].pc)
  BY Fields DEF EInv, RankOK
<1>2. CASE rank[r].pc = "load"
  BY <1>2, GenerationBound DEF EInv, Over, Runs, At
<1>3. CASE rank[r].pc = "save"
  <2>1. r > 0
    BY <1>1, <1>3 DEF OwnPlace, Ranks
  <2> QED
    BY <1>3, <2>1 DEF Runs, At
<1>4. CASE rank[r].pc = "merge"
  <2>1. r = 0
    BY <1>1, <1>4 DEF OwnPlace
  <2>2. PICK m \in 0 .. WorldSize - 1 : rank[0].merged = 1 .. m
    BY <1>4, <2>1 DEF EInv, FInv, LeaderFiles, Merged
  <2>3. m + 1 \in 1 .. WorldSize /\ (m + 1) - 1 = m
    BY <2>2, Root
  <2> QED
    BY <1>4, <2>1, <2>2, <2>3 DEF Runs, At
<1>5. CASE rank[r].pc \in Alone
  BY <1>1, <1>5 DEF OwnPlace, Runs
<1>6. CASE rank[r].pc \in {"collect", "next"}
  BY <1>6 DEF Runs, At
<1>7. CASE rank[r].pc \in Over \cup Barriers
  BY <1>7 DEF Over, Ended, Waiting
<1> QED
  BY <1>1, <1>2, <1>3, <1>4, <1>5, <1>6, <1>7 DEF Before, Sampled

(* Nobody is stranded by the barriers: as long as no rank has stopped with *)
(* an error (see RanksStopByFaultsOnly), the ranks are all done, or all at *)
(* a barrier that lets them go, or one of them has a step to take.  A rank *)
(* never waits for one that has left the loop: who leaves it has passed    *)
(* the last barrier, and so has everybody else, in any run of the job.     *)
THEOREM BarriersStrandNobody == Spec => []NobodyIsStranded
<1>1. EInv => NobodyIsStranded
  <2> SUFFICES ASSUME EInv, \A r \in Ranks : ~ Runs(r),
                      \A r \in Ranks : ~ At(r, "failed"),
                      NEW p \in Ranks, ~ At(p, "done"), NEW q \in Ranks, ~ Waiting(q)
               PROVE  FALSE
    BY DEF NobodyIsStranded
  <2>1. ASSUME NEW r \in Ranks
        PROVE  rank[r].pc = "done" \/ rank[r].pc \in Barriers
    <3>1. rank[r].pc # "failed"
      BY DEF At
    <3> QED
      BY <3>1, EndedWaitsOrRuns DEF Ended, Waiting
  <2>2. rank[p].pc \in Barriers /\ rank[q].pc = "done"
    BY <2>1 DEF At, Waiting
  <2>3. ~ job.retrain_lastgen_only /\ rank[p].pc \notin Over /\ rank[p].pc \in Sampled
    BY <2>2, Fields DEF EInv, RankOK, Barriers, Alone, Over, Sampled
  <2>4. Epoch(rank[p]) = AllEpochs
    BY <2>2, <2>3 DEF EInv, EndTogether, At
  <2>5. rank[p].generation \in Nat /\ rank[p].generation < num_gens /\ num_gens \in Nat
    BY <2>3, Fields, Root DEF EInv, RankOK, RankFiles
  <2>6. Stage(rank[p].pc) \in 0 .. 2
    BY <2>2 DEF Barriers, Stage, Alone
  <2>7. ASSUME NEW g \in Nat, NEW n \in Nat, NEW i \in 0 .. 2, g < n
        PROVE  3 * g + i # 3 * n
    BY <2>7
  <2> QED
    BY <2>4, <2>5, <2>6, <2>7 DEF Epoch, AllEpochs
<1> QED
  BY InitEInv, NextEInv, <1>1, PTL DEF Spec

-----------------------------------------------------------------------------
(***************************************************************************)
(* The way to the end is finite.                                           *)
(***************************************************************************)

(* What is left to do in a place: slots to fill, files to merge, and a     *)
(* file to open before it is written.                                      *)
ToDo(r) ==
  IF At(r, "collect") THEN {s \in Slots(r) : rank[r].sample_vec[s] = None}
  ELSE IF At(r, "merge") THEN Ranks \ rank[r].merged
  ELSE {}

FileOf(r) ==
  CASE At(r, "save")         -> Temp(r)
    [] At(r, "merge")        -> Samples(rank[r].generation)
    [] At(r, "fit")          -> Checkpoint
    [] At(r, "save_weights") -> Weights(rank[r].generation + 1)
    [] OTHER                 -> Config(rank[r].generation + 1)

Writes(r)    == rank[r].pc \in {"save", "merge", "fit", "save_weights", "save_config"}
Unopened(r)  == Writes(r) /\ disk[FileOf(r)] # Torn

(* A rank comes closer to its end: by a generation, by a place, or by      *)
(* something done where it is.                                             *)
Closer(r) ==
  \/ /\ rank[r].generation < rank'[r].generation
     /\ rank'[r].generation <= num_gens
  \/ /\ rank'[r].generation = rank[r].generation
     /\ \/ PlacesLeft(rank'[r].pc) < PlacesLeft(rank[r].pc)
        \/ /\ rank'[r].pc = rank[r].pc
           /\ \/ ToDo(r)' \subseteq ToDo(r) /\ ToDo(r)' # ToDo(r)
              \/ ToDo(r)' = ToDo(r) /\ Unopened(r) /\ ~ Unopened(r)'

(* Another rank is set back in nothing. *)
Kept(q) == rank'[q] = rank[q] /\ (Unopened(q)' <=> Unopened(q))

CloserToEnd ==
  \/ \A r \in Ranks : Closer(r)
  \/ \E r \in Ranks : Closer(r) /\ \A q \in Ranks \ {r} : Kept(q)

LEMMA CloserInOrder ==
  ASSUME NEW r \in Ranks, MovesOn(r),
         rank'[r].pc = rank[r].pc /\ rank'[r].generation = rank[r].generation =>
           \/ ToDo(r)' \subseteq ToDo(r) /\ ToDo(r)' # ToDo(r)
           \/ ToDo(r)' = ToDo(r) /\ Unopened(r) /\ ~ Unopened(r)'
  PROVE  Closer(r)
BY DEF MovesOn, InOrder, Closer

(* A file is opened, or written and left behind. *)
LEMMA WriteCloser ==
  ASSUME EInv, NEW r \in Ranks, MovesOn(r), NEW from, NEW to, NEW f, NEW content,
         Write(r, from, to, f, content), Writes(r), f = FileOf(r), f \in Files, to # from
  PROVE  Closer(r)
<1>1. CASE disk' = [disk EXCEPT ![f] = Torn] /\ UNCHANGED rank /\ disk[f] # Torn
  <2>1. disk'[f] = Torn /\ Unopened(r)
    BY <1>1 DEF EInv, FInv, Unopened
  <2>2. FileOf(r)' = FileOf(r)
    BY <1>1 DEF FileOf, At
  <2>3. ~ Unopened(r)' /\ ToDo(r)' = ToDo(r)
    BY <1>1, <2>1, <2>2 DEF Unopened, ToDo, At
  <2> QED
    BY <2>1, <2>3, CloserInOrder
<1>2. CASE GoTo(r, to)
  <2>1. rank'[r].pc = to /\ rank[r].pc = from
    BY <1>2, GoToFields DEF EInv, Write, At
  <2> QED
    BY <2>1, CloserInOrder
<1> QED
  BY <1>1, <1>2 DEF Write

(* Who writes another file, or none, keeps everybody else where they are.  *)
LEMMA OthersKept ==
  ASSUME EInv, NEW r \in Ranks, MovesOn(r), NEW f \in Files, OnlyWrites(f),
         \A q \in Ranks \ {r} : Writes(q) => f # FileOf(q) /\ FileOf(q) \in Files
  PROVE  \A q \in Ranks \ {r} : Kept(q)
<1> SUFFICES ASSUME NEW q \in Ranks, q # r PROVE Kept(q)
  OBVIOUS
<1>1. rank'[q] = rank[q]
  BY DEF MovesOn
<1>2. FileOf(q)' = FileOf(q) /\ (Writes(q)' <=> Writes(q))
  BY <1>1 DEF FileOf, Writes, At
<1>3. Writes(q) => disk'[FileOf(q)] = disk[FileOf(q)]
  BY OneFile DEF EInv
<1> QED
  BY <1>1, <1>2, <1>3 DEF Kept, Unopened

LEMMA OthersKeptInMemory ==
  ASSUME NEW r \in Ranks, MovesOn(r), disk' = disk
  PROVE  \A q \in Ranks \ {r} : Kept(q)
<1> SUFFICES ASSUME NEW q \in Ranks, q # r PROVE Kept(q)
  OBVIOUS
<1>1. rank'[q] = rank[q]
  BY DEF MovesOn
<1>2. FileOf(q)' = FileOf(q) /\ (Writes(q)' <=> Writes(q))
  BY <1>1 DEF FileOf, Writes, At
<1> QED
  BY <1>1, <1>2 DEF Kept, Unopened


LEMMA LeavesCloser ==
  ASSUME NEW r \in Ranks, MovesOn(r), LeavesPlace(r), disk' = disk
  PROVE  Closer(r) /\ \A q \in Ranks \ {r} : Kept(q)
BY CloserInOrder, OthersKeptInMemory DEF LeavesPlace

(* A slot that was empty is filled. *)
LEMMA AddSampleCloser ==
  ASSUME EInv, NEW r \in Ranks, NEW t \in Threads(r), AddSample(r, t)
  PROVE  Closer(r) /\ \A q \in Ranks \ {r} : Kept(q)
<1> DEFINE slot == ThreadStart(r, t) + rank[r].added[t]
           sample == [number |-> SampleNumber(r, t), policy |-> rank[r].policy]
           vec == [rank[r].sample_vec EXCEPT ![slot] = sample]
           more == [rank[r].added EXCEPT ![t] = rank[r].added[t] + 1]
           moved == [rank[r] EXCEPT !.sample_vec = vec, !.added = more]
<1>1. UNCHANGED <<disk, job>> /\ rank[r].pc = "collect" /\ HasRoom(r, t)
  BY DEF AddSample, Sampling, At
<1>2. FInv /\ RankOK(r, rank[r]) /\ RankFiles(r) /\ Shaped(rank[r]) /\ ~ CannotSplit(r)
  BY <1>1, Fields DEF EInv, RankOK
<1>3. rank' = [rank EXCEPT ![r] = moved]
  BY <1>2 DEF AddSample, Shaped, Members
<1>4. rank'[r] = moved
  BY <1>2, <1>3, Fields
<1>5. moved.pc = "collect" /\ moved.sample_vec = vec
  <2> HIDE DEF vec, more
  <2> QED
    BY <1>1, <1>2 DEF Shaped, Members
<1>6. /\ DOMAIN rank[r].sample_vec = Slots(r)
      /\ rank[r].added[t] \in 0 .. ThreadSize(r, t) - 1
  <2>1. VecFilled(r, rank[r].sample_vec, rank[r].added, OwnPolicy(r), FirstNumber(r))
    BY <1>1, <1>2 DEF RankFiles
  <2>2. rank[r].added[t] \in Nat /\ ThreadSize(r, t) \in Nat
    BY <1>2, SlotsOfThreads DEF RankOK
  <2> QED
    BY <1>1, <2>1, <2>2 DEF VecFilled, HasRoom
<1>7. slot \in Slots(r) /\ rank[r].sample_vec[slot] = None
  <2>1. VecFilled(r, rank[r].sample_vec, rank[r].added, OwnPolicy(r), FirstNumber(r))
    BY <1>1, <1>2 DEF RankFiles
  <2>2. ~ (rank[r].added[t] < rank[r].added[t])
    BY <1>6
  <2> QED
    BY <1>2, <1>6, <2>1, <2>2, SlotsOfThreads DEF VecFilled
<1>8. sample # None
  BY DEF None
<1> HIDE DEF slot, sample
<1>9. vec[slot] = sample /\ \A s \in Slots(r) \ {slot} : vec[s] = rank[r].sample_vec[s]
  BY <1>6, <1>7
<1> HIDE DEF vec, moved
<1>10. /\ ToDo(r)  = {s \in Slots(r) : rank[r].sample_vec[s] = None}
       /\ ToDo(r)' = {s \in Slots(r) : vec[s] = None}
  BY <1>1, <1>4, <1>5 DEF ToDo, At
<1>11. ToDo(r)' \subseteq ToDo(r) /\ slot \in ToDo(r) /\ slot \notin ToDo(r)'
  BY <1>7, <1>8, <1>9, <1>10
<1>12. MovesOn(r)
  BY AddSampleMovesOn
<1> QED
  BY <1>1, <1>11, <1>12, CloserInOrder, OthersKeptInMemory

(* Each writes a file of its own. *)
LEMMA FileIsOwn ==
  ASSUME EInv, NEW r \in Ranks, Writes(r)
  PROVE  /\ FileOf(r) \in Files
         /\ IF r = 0
            THEN FileOf(r) \in {Samples(Gen), Checkpoint, Weights(Gen + 1), Config(Gen + 1)}
            ELSE rank[r].pc = "save" /\ FileOf(r) = Temp(r)
<1>1. OwnPlace(r, rank[r].pc)
  BY DEF EInv
<1>2. CASE r # 0
  <2>1. rank[r].pc = "save"
    BY <1>1, <1>2 DEF OwnPlace, Writes, Alone
  <2> QED
    BY <1>2, <2>1, AreFiles DEF FileOf, At
<1>3. CASE r = 0
  <2>1. rank[0].pc \in {"merge", "fit", "save_weights", "save_config"}
    BY <1>1, <1>3 DEF OwnPlace, Writes
  <2>2. Gen \in 0 .. num_gens /\ Gen + 1 \in 0 .. num_gens
    BY <2>1, Root, GenerationBound DEF EInv, Gen, Sampled, Alone, Over
  <2> QED
    BY <1>3, <2>1, <2>2, AreFiles DEF FileOf, At, Gen
<1> QED
  BY <1>2, <1>3

LEMMA SaveTempCloser ==
  ASSUME EInv, NEW r \in Ranks, SaveTemp(r)
  PROVE  Closer(r) /\ \A q \in Ranks \ {r} : Kept(q)
<1>a. SUFFICES ASSUME SupportsGetStateFromVarGroup
               PROVE  Closer(r) /\ \A q \in Ranks \ {r} : Kept(q)
  <2> SUFFICES ASSUME ~ SupportsGetStateFromVarGroup
               PROVE  Closer(r) /\ \A q \in Ranks \ {r} : Kept(q)
    OBVIOUS
  <2>1. rank[r].pc = "save" /\ GoTo(r, "failed") /\ disk' = disk
    BY DEF SaveTemp, SaveToFile, At
  <2>2. LeavesPlace(r)
    BY <2>1, GoToFields DEF EInv, LeavesPlace
  <2> QED
    BY <2>1, <2>2, SaveTempMovesOn, LeavesCloser
<1>1. /\ Write(r, "save", "barrier_saved", Temp(r), rank[r].sample_data)
      /\ rank[r].pc = "save" /\ r # 0
  BY <1>a DEF SaveTemp, SaveToFile, Write, At, Ranks
<1>2. MovesOn(r) /\ Writes(r) /\ Temp(r) = FileOf(r) /\ Temp(r) \in Files
  BY <1>1, SaveTempMovesOn, AreFiles DEF Writes, FileOf, At
<1>3. Closer(r)
  BY <1>1, <1>2, WriteCloser
<1>4. OnlyWrites(Temp(r))
  BY <1>1, <1>2, WriteFields DEF EInv
<1>5. ASSUME NEW q \in Ranks \ {r}, Writes(q)
      PROVE  Temp(r) # FileOf(q) /\ FileOf(q) \in Files
  BY <1>5, FileIsOwn, FilesDiffer
<1> QED
  BY <1>2, <1>3, <1>4, <1>5, OthersKept

LEMMA RankCloser ==
  ASSUME EInv, NEW r \in Ranks, RankStep(r)
  PROVE  CloserToEnd
<1>1. ASSUME NEW p \in Ranks, Closer(p), \A q \in Ranks \ {p} : Kept(q)
      PROVE  CloserToEnd
  BY <1>1 DEF CloserToEnd
<1>2. LoopEnds(r) \/ LoadPolicy(r) \/ SamplingEnds(r) \/ NextGeneration(r) => disk' = disk
  BY DEF LoopEnds, LoadPolicy, SamplingEnds, NextGeneration
<1>3. LoopEnds(r) \/ LoadPolicy(r) \/ SamplingEnds(r) \/ NextGeneration(r)
        => Closer(r) /\ \A q \in Ranks \ {r} : Kept(q)
  BY <1>2, LeavesCloser, LoopEndsMovesOn, LoadPolicyMovesOn, SamplingEndsMovesOn,
     NextGenerationMovesOn
<1> QED
  BY <1>1, <1>3, AddSampleCloser, SaveTempCloser DEF RankStep

(* A file is merged. *)
LEMMA MergeFileMoves ==
  ASSUME EInv, NEW r \in Ranks \ {0}, MergeFile(r)
  PROVE  Closer(0)
<1>1. rank[0].pc = "merge" /\ MovesOn(0) /\ rank[0].merged = 1 .. r - 1
  BY LeaderMovesOn DEF MergeFile, LeaderStep, At
<1>2. CASE GoTo(0, "failed")
  <2>1. LeavesPlace(0)
    BY <1>1, <1>2, Root, GoToFields DEF EInv, LeavesPlace
  <2> QED
    BY <1>1, <2>1, Root, CloserInOrder DEF LeavesPlace
<1>3. CASE rank' = [rank EXCEPT ![0].sample_data = @ \cup Read(Temp(r)),
                                ![0].merged = @ \cup {r}]
  <2> DEFINE moved == [rank[0] EXCEPT !.sample_data = @ \cup Read(Temp(r)),
                                      !.merged = @ \cup {r}]
  <2>1. FInv /\ Shaped(rank[0])
    BY Root, Fields DEF EInv
  <2>2. moved.pc = rank[0].pc /\ moved.merged = rank[0].merged \cup {r}
    BY <2>1 DEF Shaped, Members
  <2>3. rank' = [rank EXCEPT ![0] = moved]
    BY <1>3, <2>1, Root DEF Shaped, Members
  <2>4. rank'[0] = moved
    BY <2>1, <2>3, Root, Fields
  <2> HIDE DEF moved
  <2>5. /\ ToDo(0)  = Ranks \ rank[0].merged
        /\ ToDo(0)' = Ranks \ (rank[0].merged \cup {r})
    BY <1>1, <2>2, <2>4 DEF ToDo, At
  <2>6. r \notin rank[0].merged
    BY <1>1 DEF Ranks
  <2>7. ToDo(0)' \subseteq ToDo(0) /\ ToDo(0)' # ToDo(0)
    BY <2>5, <2>6
  <2> QED
    BY <1>1, <2>7, Root, CloserInOrder
<1> QED
  BY <1>2, <1>3 DEF MergeFile

(* Rank 0's files are nobody else's while it merges and trains. *)
LEMMA LeaderKeeps ==
  ASSUME EInv, MovesOn(0), rank[0].pc \in {"merge"} \cup Alone
  PROVE  \A q \in Ranks \ {0} : ~ Writes(q)
<1> SUFFICES ASSUME NEW q \in Ranks, q # 0, Writes(q) PROVE FALSE
  OBVIOUS
<1>1. rank[q].pc = "save"
  BY FileIsOwn
<1>2. Stage(rank[0].pc) \in {1, 2} /\ rank[0].pc \notin Over
      /\ Stage(rank[q].pc) = 0 /\ rank[q].pc \notin Over
  BY <1>1 DEF Stage, Alone, Over
<1> QED
  BY <1>2, Root, SameStage DEF EInv, FInv

LEMMA LeaderCloser ==
  ASSUME EInv, LeaderStep
  PROVE  CloserToEnd
<1>1. 0 \in Ranks /\ MovesOn(0)
  BY Root, LeaderMovesOn
<1>2. SUFFICES Closer(0) /\ \A q \in Ranks \ {0} : Kept(q)
  BY <1>1 DEF CloserToEnd
<1>3. rank[0].pc \in {"merge"} \cup Alone
  BY DEF LeaderStep, MergeFile, SaveSamples, SaveToFile, LoadSamples, Fit, TakeBest, SaveWeights,
         SaveConfig, AfterTraining, Write, At, Alone
<1>4. Gen \in 0 .. num_gens /\ Gen + 1 \in 0 .. num_gens
  BY <1>1, <1>3, GenerationBound DEF EInv, Gen, Sampled, Alone, Over
<1>5. ASSUME NEW f \in Files, OnlyWrites(f)
      PROVE  \A q \in Ranks \ {0} : Kept(q)
  BY <1>1, <1>3, <1>5, LeaderKeeps, OthersKept
<1>6. ASSUME NEW r \in Ranks \ {0}, MergeFile(r)
      PROVE  Closer(0) /\ \A q \in Ranks \ {0} : Kept(q)
  <2>1. disk' = disk \/ disk' = [disk EXCEPT ![Temp(r)] = Absent]
    BY <1>6 DEF MergeFile
  <2>2. Temp(r) \in Files /\ OnlyWrites(Temp(r))
    BY <2>1, AreFiles DEF OnlyWrites, EInv, FInv
  <2> QED
    BY <1>5, <1>6, <2>2, MergeFileMoves
<1>7. ASSUME NEW from, NEW to, NEW f \in Files, NEW content, Write(0, from, to, f, content),
             Writes(0), f = FileOf(0), to # from
      PROVE  Closer(0) /\ \A q \in Ranks \ {0} : Kept(q)
  <2>1. OnlyWrites(f)
    BY <1>1, <1>7, WriteFields DEF EInv
  <2> QED
    BY <1>1, <1>5, <1>7, <2>1, WriteCloser
<1>8. CASE SaveSamples
  <2>1. CASE ~ SupportsGetStateFromVarGroup
    <3>1. rank[0].pc = "merge" /\ GoTo(0, "failed") /\ disk' = disk
      BY <1>8, <2>1 DEF SaveSamples, SaveToFile, At
    <3>2. LeavesPlace(0)
      BY <1>1, <3>1, GoToFields DEF EInv, LeavesPlace
    <3> QED
      BY <1>1, <3>1, <3>2, LeavesCloser
  <2>2. CASE SupportsGetStateFromVarGroup
    <3>1. /\ rank[0].pc = "merge"
          /\ Write(0, "merge", "barrier_merged", Samples(Gen), rank[0].sample_data)
      BY <1>8, <2>2 DEF SaveSamples, SaveToFile, Write, At
    <3>2. Writes(0) /\ Samples(Gen) = FileOf(0) /\ Samples(Gen) \in Files
      BY <1>4, <3>1, AreFiles DEF Writes, FileOf, At, Gen
    <3> QED
      BY <1>7, <3>1, <3>2
  <2> QED
    BY <2>1, <2>2
<1>9. CASE Fit
  <2>1. rank[0].pc = "fit" /\ Write(0, "fit", "fitted", Checkpoint, <<Gen + 1, job.run>>)
    BY <1>9 DEF Fit, Write, At
  <2>2. Writes(0) /\ Checkpoint = FileOf(0) /\ Checkpoint \in Files
    BY <2>1, AreFiles DEF Writes, FileOf, At
  <2> QED
    BY <1>7, <2>1, <2>2
<1>10. CASE SaveWeights
  <2>1. /\ rank[0].pc = "save_weights"
        /\ Write(0, "save_weights", "save_config", Weights(Gen + 1), rank[0].policy)
    BY <1>10 DEF SaveWeights, Write, At
  <2>2. Writes(0) /\ Weights(Gen + 1) = FileOf(0) /\ Weights(Gen + 1) \in Files
    BY <1>4, <2>1, AreFiles DEF Writes, FileOf, At, Gen
  <2> QED
    BY <1>7, <2>1, <2>2
<1>11. CASE SaveConfig
  <2>1. /\ rank[0].pc = "save_config"
        /\ Write(0, "save_config", "trained", Config(Gen + 1), Gen + 1)
    BY <1>11 DEF SaveConfig, Write, At
  <2>2. Writes(0) /\ Config(Gen + 1) = FileOf(0) /\ Config(Gen + 1) \in Files
    BY <1>4, <2>1, AreFiles DEF Writes, FileOf, At, Gen
  <2> QED
    BY <1>7, <2>1, <2>2
<1>12. CASE LoadSamples
  <2>1. LeavesPlace(0) /\ disk' = disk
    <3>1. PICK to \in {"fit", "failed"} : GoTo(0, to)
      BY <1>12 DEF LoadSamples
    <3>2. rank'[0].pc = to
      BY <1>1, <3>1, GoToFields DEF EInv
    <3> QED
      BY <1>12, <3>2 DEF LoadSamples, At, LeavesPlace
  <2> QED
    BY <1>1, <2>1, LeavesCloser
<1>13. CASE TakeBest
  <2>1. LeavesPlace(0) /\ Checkpoint \in Files /\ OnlyWrites(Checkpoint)
    BY <1>13, TakeBestMovesOn, AreFiles DEF TakeBest, OnlyWrites, EInv, FInv
  <2> QED
    BY <1>1, <1>5, <2>1, CloserInOrder DEF LeavesPlace
<1>14. CASE AfterTraining
  <2>1. LeavesPlace(0)
    <3>1. PICK to \in {"failed", "done", "barrier_trained"} : GoTo(0, to)
      BY <1>14 DEF AfterTraining
    <3>2. rank'[0].pc = to
      BY <1>1, <3>1, GoToFields DEF EInv
    <3> QED
      BY <1>14, <3>2 DEF AfterTraining, At, LeavesPlace
  <2>2. Samples(Gen) \in Files /\ OnlyWrites(Samples(Gen))
    BY <1>4, <1>14, AreFiles DEF AfterTraining, OnlyWrites, EInv, FInv
  <2> QED
    BY <1>1, <1>5, <2>1, <2>2, CloserInOrder DEF LeavesPlace
<1> QED
  BY <1>6, <1>8, <1>9, <1>10, <1>11, <1>12, <1>13, <1>14 DEF LeaderStep

(* A barrier brings everybody to their next place. *)
LEMMA BarrierCloser ==
  ASSUME EInv, Barrier
  PROVE  CloserToEnd
<1> SUFFICES ASSUME NEW r \in Ranks PROVE Closer(r)
  BY DEF CloserToEnd
<1>1. rank[r].pc \in Barriers /\ Shaped(rank[r])
  BY Fields DEF EInv, Barrier, Waiting
<1>2. rank'[r] = Labelled(rank[r], After(r))
  BY DEF Barrier, Labelled
<1>3. rank'[r].pc = After(r) /\ rank'[r].generation = rank[r].generation
  BY <1>1, <1>2, LabelledShape
<1>4. PlacesLeft(After(r)) < PlacesLeft(rank[r].pc)
  BY <1>1 DEF After, At, Barriers, PlacesLeft
<1> QED
  BY <1>3, <1>4 DEF Closer

(* What is left can be counted. *)
LeftIsFinite ==
  \A r \in Ranks : /\ PlacesLeft(rank[r].pc) \in Nat
                   /\ IsFiniteSet(ToDo(r))

LEMMA ToDoFinite ==
  ASSUME EInv
  PROVE  LeftIsFinite
<1> SUFFICES ASSUME NEW r \in Ranks
             PROVE  PlacesLeft(rank[r].pc) \in Nat /\ IsFiniteSet(ToDo(r))
  BY DEF LeftIsFinite
<1>1. PlacesLeft(rank[r].pc) \in Nat
  BY DEF PlacesLeft
<1>2. CASE At(r, "collect")
  <2>1. ToCollect(r) \in Nat
    BY <1>2, Fields, SlotsOfThreads DEF EInv, RankOK, At
  <2>2. IsFiniteSet(Slots(r))
    BY <2>1, FS_Interval DEF Slots
  <2>3. ToDo(r) \subseteq Slots(r)
    BY <1>2 DEF ToDo
  <2> QED
    BY <1>1, <2>2, <2>3, FS_Subset
<1>3. CASE ~ At(r, "collect")
  <2>1. IsFiniteSet(Ranks)
    BY Root, FS_Interval DEF Ranks
  <2>2. ToDo(r) \subseteq Ranks
    BY <1>3 DEF ToDo
  <2> QED
    BY <1>1, <2>1, <2>2, FS_Subset
<1> QED
  BY <1>2, <1>3

(* The way to the end is finite: whatever the ranks do, in any order, each *)
(* step but a fault brings a rank closer to its end (a generation, a place *)
(* in the loop, a sample, a file merged or opened) and sets nobody back,   *)
(* and what is left is finite.  With BarriersStrandNobody, EveryRankFinishes *)
(* then rests on nothing but the fairness of the ranks.                    *)
THEOREM LoopIsFinite == Spec => []LeftIsFinite /\ [][Fault \/ CloserToEnd]_vars
<1>1. EInv /\ [Next]_vars => [Fault \/ CloserToEnd]_vars
  BY RankCloser, LeaderCloser, BarrierCloser DEF Next, Stopped
<1> QED
  BY InitEInv, NextEInv, ToDoFinite, <1>1, PTL DEF Spec
=============================================================================
