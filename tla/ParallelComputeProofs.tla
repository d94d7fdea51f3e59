------------------------ MODULE ParallelComputeProofs ------------------------
(***************************************************************************)
(* Theorems about ParallelCompute, for any number of elements and threads  *)
(* and with or without a reporter: no element is written twice, nothing    *)
(* runs after the call returned, no exception is lost, and the call        *)
(* implements ForkJoin.                                                    *)
(***************************************************************************)
EXTENDS ParallelCompute, SplitsProofs, FiniteSetTheorems

-----------------------------------------------------------------------------
(* The spans of get_splits, in the terms of the call. *)
LEMMA NumThreadsFits == NumThreads \in Nat /\ NumThreads <= DataSize
BY DataSizeAssumption, ThreadsAskedAssumption DEF NumThreads

LEMMA SpansInside ==
  ASSUME NEW t \in Threads
  PROVE  /\ Start(t) \in Nat
         /\ Size(t) \in Nat \ {0}
         /\ \A k \in 0 .. Size(t) - 1 : Start(t) + k \in Elements
<1>1. /\ NumThreads \in Nat \ {0} /\ NumThreads <= DataSize /\ DataSize \in Nat
      /\ t \in 0 .. NumThreads - 1
  BY NumThreadsFits, DataSizeAssumption DEF Threads
<1>2. Start(t) \in Nat /\ Size(t) \in Nat \ {0}
  BY <1>1, SpansAdjacent DEF Start, Size
<1>3. Start(t) + Size(t) <= DataSize
  BY <1>1, SpanInside DEF Start, Size
<1> QED
  BY <1>1, <1>2, <1>3 DEF Elements

LEMMA SpansDisjoint ==
  ASSUME NEW t \in Threads, NEW u \in Threads,
         NEW k \in 0 .. Size(t) - 1, NEW m \in 0 .. Size(u) - 1,
         Start(t) + k = Start(u) + m
  PROVE  t = u /\ k = m
<1>1. /\ NumThreads \in Nat \ {0} /\ NumThreads <= DataSize /\ DataSize \in Nat
      /\ t \in 0 .. NumThreads - 1 /\ u \in 0 .. NumThreads - 1
  BY NumThreadsFits, DataSizeAssumption DEF Threads
<1> QED
  BY <1>1, SpansApart DEF Start, Size

LEMMA SpansAll ==
  ASSUME NumThreads > 0, NEW e \in Elements
  PROVE  \E t \in Threads, k \in Nat : k < Size(t) /\ e = Start(t) + k
<1>1. /\ NumThreads \in Nat \ {0} /\ NumThreads <= DataSize /\ DataSize \in Nat
      /\ e \in 0 .. DataSize - 1
  BY NumThreadsFits, DataSizeAssumption DEF Elements
<1> QED
  BY <1>1, SpansCover DEF Start, Size, Threads

-----------------------------------------------------------------------------
(***************************************************************************)
(* The inductive invariant.                                                *)
(***************************************************************************)

(* How far the calling thread is, what it has seen so far, and why it is   *)
(* going to end the way it does.                                           *)
CallerInv ==
  /\ main \in {"split", "spawn", "report", "get"} <=> result = "none"
  /\ main = "split" => started = 0
  /\ main = "spawn" => started < NumThreads
  /\ main \in {"report", "get"} => started = NumThreads /\ NumThreads > 0
  /\ \A t \in Threads : t < checked => promises[t] = "value"
  /\ result = "ok" => checked = NumThreads /\ NumThreads > 0
  /\ result = "threw" => checked \in Threads /\ promises[checked] = "exception"
  /\ result = "no_thread" => started < NumThreads
  /\ result = "refused" => NumThreads = 0

(* A promise is kept once, at the end of the work or in the handler. *)
WorkerInv ==
  \A t \in Threads :
    /\ pc[t] = "unstarted" <=> t >= started
    /\ pc[t] = "unstarted" => added[t] = 0
    /\ pc[t] = "count" => added[t] < Size(t)
    /\ promises[t] = "value" => pc[t] = "ended" /\ added[t] = Size(t)
    /\ promises[t] = "exception" => pc[t] \in {"flag", "ended"}

(* Of its span a worker has computed what it counted, and the element it   *)
(* is about to count.                                                      *)
Computed(t, k) == k < added[t] \/ (k = added[t] /\ pc[t] = "count")
WrittenInv ==
  \A t \in Threads : \A k \in 0 .. Size(t) - 1 :
    writer[Start(t) + k] = IF Computed(t, k) THEN t ELSE NoThread

PInv == TypeOK /\ CallerInv /\ WorkerInv /\ WrittenInv /\ QuietAfterReturn

LEMMA InitPInv == Init => PInv /\ Promise!Init
<1> SUFFICES ASSUME Init PROVE PInv /\ Promise!Init
  OBVIOUS
<1>1. TypeOK
  <2>1. \A t \in Threads : added[t] \in 0 .. Size(t)
    BY SpansInside DEF Init
  <2>2. writer \in [Elements -> Threads \cup {NoThread}] /\ added \in [Threads -> Nat]
    BY DEF Init
  <2>3. /\ pc \in [Threads -> {"unstarted", "work", "count", "catch", "flag", "ended"}]
        /\ promises \in [Threads -> {"empty", "value", "exception"}]
    BY DEF Init
  <2>4. error_occurred \in BOOLEAN
    BY DEF Init
  <2>5. started \in 0 .. NumThreads /\ checked \in 0 .. NumThreads /\ collected \in Nat
    BY NumThreadsFits DEF Init
  <2> QED
    BY <2>1, <2>2, <2>3, <2>4, <2>5 DEF Init, TypeOK
<1>2. CallerInv
  BY NumThreadsFits DEF Init, CallerInv, Threads
<1>3. WorkerInv
  BY NumThreadsFits DEF Init, WorkerInv, Threads
<1>4. WrittenInv
  <2>1. SUFFICES ASSUME NEW t \in Threads, NEW k \in 0 .. Size(t) - 1
                 PROVE  writer[Start(t) + k] = IF Computed(t, k) THEN t ELSE NoThread
    BY DEF WrittenInv
  <2>2. Start(t) + k \in Elements /\ ~ Computed(t, k)
    BY SpansInside DEF Init, Computed
  <2> QED
    BY <2>2 DEF Init
<1>5. QuietAfterReturn
  BY DEF Init, QuietAfterReturn
<1>6. Promise!Init
  BY DEF Init, Promise!Init
<1> QED
  BY <1>1, <1>2, <1>3, <1>4, <1>5, <1>6 DEF PInv

(* Steps that leave the work alone keep what has been written. *)
LEMMA WrittenKept ==
  ASSUME PInv, UNCHANGED <<added, writer>>,
         \A t \in Threads : pc'[t] = "count" <=> pc[t] = "count"
  PROVE  WrittenInv'
BY DEF PInv, WrittenInv, Computed

-----------------------------------------------------------------------------
(***************************************************************************)
(* The calling thread.                                                     *)
(***************************************************************************)
LEMMA SplitKeeps ==
  ASSUME PInv, Split
  PROVE  PInv'
<1>1. TypeOK'
  BY DEF PInv, TypeOK, Split
<1>2. CallerInv'
  <2>1. CASE SplitsThrow(DataSize, NumThreads)
    <3>1. NumThreads = 0
      BY <2>1, NumThreadsFits, DataSizeAssumption DEF SplitsThrow
    <3> QED
      BY <2>1, <3>1 DEF PInv, TypeOK, CallerInv, Split
  <2>2. CASE ~ SplitsThrow(DataSize, NumThreads)
    <3>1. NumThreads \in Nat \ {0}
      BY <2>2, NumThreadsFits DEF SplitsThrow
    <3> QED
      BY <2>2, <3>1 DEF PInv, TypeOK, CallerInv, Split
  <2> QED
    BY <2>1, <2>2
<1>3. WorkerInv'
  BY DEF PInv, WorkerInv, Split
<1>4. WrittenInv'
  BY WrittenKept DEF Split
<1>5. QuietAfterReturn'
  BY DEF PInv, CallerInv, WorkerInv, Split, QuietAfterReturn, Threads
<1> QED
  BY <1>1, <1>2, <1>3, <1>4, <1>5 DEF PInv

LEMMA SpawnKeeps ==
  ASSUME PInv, Spawn
  PROVE  PInv'
<1>1. started \in Threads /\ pc[started] = "unstarted" /\ started + 1 \in 0 .. NumThreads
  BY NumThreadsFits DEF PInv, TypeOK, CallerInv, WorkerInv, Spawn, Threads
<1>2. TypeOK'
  BY <1>1 DEF PInv, TypeOK, Spawn
<1>3. CallerInv'
  BY <1>1, NumThreadsFits DEF PInv, TypeOK, CallerInv, Spawn
<1>4. WorkerInv'
  BY <1>1 DEF PInv, TypeOK, WorkerInv, Spawn, Threads
<1>5. WrittenInv'
  BY <1>1, WrittenKept DEF PInv, TypeOK, Spawn
<1>6. QuietAfterReturn'
  BY DEF Spawn, QuietAfterReturn
<1> QED
  BY <1>2, <1>3, <1>4, <1>5, <1>6 DEF PInv

LEMMA SpawnFailsKeeps ==
  ASSUME PInv, SpawnFails
  PROVE  PInv'
<1>1. TypeOK'
  BY DEF PInv, TypeOK, SpawnFails
<1>2. CallerInv'
  BY DEF PInv, CallerInv, SpawnFails
<1>3. WorkerInv' /\ QuietAfterReturn'
  BY DEF PInv, WorkerInv, SpawnFails, QuietAfterReturn
<1>4. WrittenInv'
  BY WrittenKept DEF SpawnFails
<1> QED
  BY <1>1, <1>2, <1>3, <1>4 DEF PInv

LEMMA ReportEndsKeeps ==
  ASSUME PInv, ReportEnds
  PROVE  PInv'
<1>1. TypeOK'
  BY DEF PInv, TypeOK, ReportEnds, callerVars
<1>2. CallerInv'
  BY DEF PInv, CallerInv, ReportEnds, callerVars
<1>3. WorkerInv' /\ QuietAfterReturn'
  BY DEF PInv, WorkerInv, ReportEnds, callerVars, QuietAfterReturn
<1>4. WrittenInv'
  BY WrittenKept DEF ReportEnds, callerVars
<1> QED
  BY <1>1, <1>2, <1>3, <1>4 DEF PInv

LEMMA GetKeeps ==
  ASSUME PInv, Get
  PROVE  PInv'
<1>1. checked \in Threads /\ checked + 1 \in 0 .. NumThreads
  BY NumThreadsFits DEF PInv, TypeOK, Get, Threads
<1>2. TypeOK'
  BY <1>1 DEF PInv, TypeOK, Get
<1>3. CallerInv'
  BY <1>1 DEF PInv, TypeOK, CallerInv, Get, Threads
<1>4. WorkerInv' /\ QuietAfterReturn'
  BY DEF PInv, WorkerInv, Get, QuietAfterReturn
<1>5. WrittenInv'
  BY WrittenKept DEF Get
<1> QED
  BY <1>2, <1>3, <1>4, <1>5 DEF PInv

LEMMA AllGotKeeps ==
  ASSUME PInv, AllGot
  PROVE  PInv'
<1>1. TypeOK'
  BY DEF PInv, TypeOK, AllGot
<1>2. CallerInv'
  BY DEF PInv, CallerInv, AllGot
<1>3. WorkerInv' /\ QuietAfterReturn'
  BY DEF PInv, WorkerInv, AllGot, QuietAfterReturn
<1>4. WrittenInv'
  BY WrittenKept DEF AllGot
<1> QED
  BY <1>1, <1>2, <1>3, <1>4 DEF PInv

LEMMA JoinKeeps ==
  ASSUME PInv, Join
  PROVE  PInv'
<1>1. TypeOK'
  BY DEF PInv, TypeOK, Join, callerVars
<1>2. CallerInv'
  BY DEF PInv, CallerInv, Join, callerVars
<1>3. WorkerInv'
  BY DEF PInv, WorkerInv, Join, callerVars
<1>4. WrittenInv'
  BY WrittenKept DEF Join, callerVars
<1>5. QuietAfterReturn'
  <2>1. SUFFICES ASSUME NEW t \in Threads PROVE pc[t] \in {"unstarted", "ended"}
    BY DEF QuietAfterReturn, Join, callerVars
  <2>2. CASE t >= started
    BY <2>2 DEF PInv, WorkerInv
  <2>3. CASE t < started
    BY <2>3 DEF PInv, TypeOK, Join, Threads
  <2> QED
    BY <2>2, <2>3 DEF PInv, TypeOK, Threads
<1> QED
  BY <1>1, <1>2, <1>3, <1>4, <1>5 DEF PInv

-----------------------------------------------------------------------------
(***************************************************************************)
(* A worker.  None runs once the call has returned.                        *)
(***************************************************************************)
LEMMA ComputeKeeps ==
  ASSUME PInv, NEW t \in Threads, Compute(t)
  PROVE  /\ PInv'
         /\ Start(t) + added[t] \in Elements
         /\ writer[Start(t) + added[t]] = NoThread
<1> DEFINE e == Start(t) + added[t]
<1>1. added[t] \in 0 .. Size(t) - 1 /\ pc[t] = "work" /\ main # "returned"
  BY SpansInside DEF PInv, TypeOK, Compute, QuietAfterReturn
<1>2. e \in Elements
  BY <1>1, SpansInside
<1>3. writer[e] = NoThread
  <2>1. ~ Computed(t, added[t])
    BY <1>1 DEF Computed, PInv, TypeOK
  <2> QED
    BY <1>1, <2>1 DEF PInv, WrittenInv
<1>4. TypeOK'
  BY <1>2 DEF PInv, TypeOK, Compute
<1>5. CallerInv'
  BY DEF PInv, CallerInv, Compute
<1>6. WorkerInv'
  BY <1>1 DEF PInv, TypeOK, WorkerInv, Compute
<1>7. WrittenInv'
  <2>1. SUFFICES ASSUME NEW u \in Threads, NEW k \in 0 .. Size(u) - 1
                 PROVE  writer'[Start(u) + k] = IF Computed(u, k)' THEN u ELSE NoThread
    BY DEF WrittenInv
  <2>2. Start(u) + k \in Elements /\ added' = added /\ k \in Nat
    BY SpansInside DEF Compute
  <2>3. CASE u = t /\ k = added[t]
    <3>1. Computed(u, k)'
      BY <2>2, <2>3 DEF Computed, Compute, PInv, TypeOK
    <3> QED
      BY <2>2, <2>3, <3>1 DEF Compute, PInv, TypeOK
  <2>4. CASE ~ (u = t /\ k = added[t])
    <3>1. Start(u) + k # e
      BY <1>1, <2>4, SpansDisjoint
    <3>2. Computed(u, k)' <=> Computed(u, k)
      BY <1>1, <2>2, <2>4 DEF Computed, Compute, PInv, TypeOK
    <3> HIDE DEF e
    <3>3. writer'[Start(u) + k] = writer[Start(u) + k]
      BY <2>2, <3>1 DEF Compute, PInv, TypeOK, e
    <3> QED
      BY <3>2, <3>3 DEF PInv, WrittenInv
  <2> QED
    BY <2>3, <2>4
<1>8. QuietAfterReturn'
  BY <1>1 DEF Compute, QuietAfterReturn
<1> QED
  BY <1>2, <1>3, <1>4, <1>5, <1>6, <1>7, <1>8 DEF PInv

LEMMA CountKeeps ==
  ASSUME PInv, NEW t \in Threads, Count(t)
  PROVE  PInv'
<1>1. /\ added[t] \in Nat /\ Size(t) \in Nat /\ added[t] < Size(t)
      /\ pc[t] = "count" /\ main # "returned"
  BY SpansInside DEF PInv, TypeOK, WorkerInv, Count, QuietAfterReturn
<1>2. TypeOK'
  BY <1>1 DEF PInv, TypeOK, Count
<1>3. CallerInv'
  BY DEF PInv, CallerInv, Count
<1>4. WorkerInv'
  BY <1>1 DEF PInv, TypeOK, WorkerInv, Count
<1>5. WrittenInv'
  <2>1. SUFFICES ASSUME NEW u \in Threads, NEW k \in 0 .. Size(u) - 1
                 PROVE  Computed(u, k)' <=> Computed(u, k)
    BY DEF PInv, WrittenInv, Count
  <2> QED
    BY <1>1 DEF Computed, Count, PInv, TypeOK
<1>6. QuietAfterReturn'
  BY <1>1 DEF Count, QuietAfterReturn
<1> QED
  BY <1>2, <1>3, <1>4, <1>5, <1>6 DEF PInv

LEMMA WorkThrowsKeeps ==
  ASSUME PInv, NEW t \in Threads, WorkThrows(t)
  PROVE  PInv'
<1>1. pc[t] = "work" /\ main # "returned"
  BY DEF PInv, WorkThrows, QuietAfterReturn
<1>2. TypeOK'
  BY DEF PInv, TypeOK, WorkThrows
<1>3. CallerInv'
  BY DEF PInv, CallerInv, WorkThrows
<1>4. WorkerInv'
  BY <1>1 DEF PInv, TypeOK, WorkerInv, WorkThrows
<1>5. WrittenInv'
  BY <1>1, WrittenKept DEF PInv, TypeOK, WorkThrows
<1>6. QuietAfterReturn'
  BY <1>1 DEF WorkThrows, QuietAfterReturn
<1> QED
  BY <1>2, <1>3, <1>4, <1>5, <1>6 DEF PInv

LEMMA SetValueKeeps ==
  ASSUME PInv, NEW t \in Threads, SetValue(t)
  PROVE  PInv'
<1>1. pc[t] = "work" /\ promises[t] # "exception" /\ main # "returned"
  BY DEF PInv, WorkerInv, SetValue, QuietAfterReturn
<1>2. TypeOK'
  BY DEF PInv, TypeOK, SetValue
<1>3. CallerInv'
  BY <1>1 DEF PInv, TypeOK, CallerInv, SetValue
<1>4. WorkerInv'
  BY <1>1 DEF PInv, TypeOK, WorkerInv, SetValue
<1>5. WrittenInv'
  BY <1>1, WrittenKept DEF PInv, TypeOK, SetValue
<1>6. QuietAfterReturn'
  BY <1>1 DEF SetValue, QuietAfterReturn
<1> QED
  BY <1>2, <1>3, <1>4, <1>5, <1>6 DEF PInv

LEMMA SetExceptionKeeps ==
  ASSUME PInv, NEW t \in Threads, SetException(t)
  PROVE  PInv'
<1>1. pc[t] = "catch" /\ promises[t] # "value" /\ main # "returned"
  BY DEF PInv, WorkerInv, SetException, QuietAfterReturn
<1>2. TypeOK'
  BY DEF PInv, TypeOK, SetException
<1>3. CallerInv'
  BY <1>1 DEF PInv, TypeOK, CallerInv, SetException
<1>4. WorkerInv'
  BY <1>1 DEF PInv, TypeOK, WorkerInv, SetException
<1>5. WrittenInv'
  BY <1>1, WrittenKept DEF PInv, TypeOK, SetException
<1>6. QuietAfterReturn'
  BY <1>1 DEF SetException, QuietAfterReturn
<1> QED
  BY <1>2, <1>3, <1>4, <1>5, <1>6 DEF PInv

LEMMA RaiseFlagKeeps ==
  ASSUME PInv, NEW t \in Threads, RaiseFlag(t)
  PROVE  PInv'
<1>1. pc[t] = "flag" /\ main # "returned"
  BY DEF PInv, RaiseFlag, QuietAfterReturn
<1>2. TypeOK'
  BY DEF PInv, TypeOK, RaiseFlag
<1>3. CallerInv'
  BY DEF PInv, CallerInv, RaiseFlag
<1>4. WorkerInv'
  BY <1>1 DEF PInv, TypeOK, WorkerInv, RaiseFlag
<1>5. WrittenInv'
  BY <1>1, WrittenKept DEF PInv, TypeOK, RaiseFlag
<1>6. QuietAfterReturn'
  BY <1>1 DEF RaiseFlag, QuietAfterReturn
<1> QED
  BY <1>2, <1>3, <1>4, <1>5, <1>6 DEF PInv

LEMMA NextPInv == PInv /\ [Next]_vars => PInv'
<1> SUFFICES ASSUME PInv, [Next]_vars PROVE PInv'
  OBVIOUS
<1>1. CASE Caller
  BY <1>1, SplitKeeps, SpawnKeeps, SpawnFailsKeeps, ReportEndsKeeps, GetKeeps, AllGotKeeps,
     JoinKeeps DEF Caller
<1>2. ASSUME NEW t \in Threads, Worker(t)
      PROVE  PInv'
  BY <1>2, ComputeKeeps, CountKeeps, WorkThrowsKeeps, SetValueKeeps, SetExceptionKeeps,
     RaiseFlagKeeps DEF Worker
<1>3. CASE UNCHANGED vars
  BY <1>3 DEF vars, PInv, TypeOK, CallerInv, WorkerInv, WrittenInv, Computed, QuietAfterReturn
<1> QED
  BY <1>1, <1>2, <1>3 DEF Next, Poll, Returned

-----------------------------------------------------------------------------
(***************************************************************************)
(* The properties.                                                         *)
(***************************************************************************)

(* Once the call has returned or thrown, no worker is left that could      *)
(* touch the promises, the flag or the counter of the finished call.       *)
THEOREM NothingRunsAfterReturn == Spec => []QuietAfterReturn
<1>1. PInv => QuietAfterReturn
  BY DEF PInv
<1> QED
  BY InitPInv, NextPInv, <1>1, PTL DEF Spec

(* The call returns normally if and only if every worker did. *)
THEOREM EveryExceptionReported == Spec => []NoExceptionLost
<1>1. PInv => NoExceptionLost
  <2> SUFFICES ASSUME PInv, main = "returned"
               PROVE  result = "ok" <=>
                        /\ NumThreads > 0
                        /\ \A t \in Threads : promises[t] = "value" /\ added[t] = Size(t)
    BY DEF NoExceptionLost
  <2>1. ASSUME result = "ok"
        PROVE  NumThreads > 0 /\ \A t \in Threads : promises[t] = "value" /\ added[t] = Size(t)
    <3>1. checked = NumThreads /\ NumThreads > 0
      BY <2>1 DEF PInv, CallerInv
    <3>2. \A t \in Threads : t < checked
      BY <3>1, NumThreadsFits DEF Threads
    <3> QED
      BY <3>1, <3>2 DEF PInv, CallerInv, WorkerInv
  <2>2. ASSUME NumThreads > 0, \A t \in Threads : promises[t] = "value"
        PROVE  result = "ok"
    <3>1. result # "none" /\ result # "refused" /\ result # "threw"
      BY <2>2 DEF PInv, CallerInv
    <3>2. result # "no_thread"
      <4>1. SUFFICES ASSUME started < NumThreads PROVE FALSE
        BY DEF PInv, CallerInv
      <4>2. started \in Threads /\ pc[started] = "unstarted"
        BY <4>1, NumThreadsFits DEF PInv, TypeOK, WorkerInv, Threads
      <4> QED
        BY <2>2, <4>2 DEF PInv, WorkerInv
    <3> QED
      BY <3>1, <3>2 DEF PInv, TypeOK
  <2> QED
    BY <2>1, <2>2
<1> QED
  BY InitPInv, NextPInv, <1>1, PTL DEF Spec

(* No worker writes an element another one has computed, for every size of *)
(* the output and every number of threads.                                 *)
THEOREM SpansNeverOverlap == Spec => NoElementWrittenTwice
<1>1. PInv /\ [Next]_vars =>
        [\A e \in Elements : writer[e] # NoThread => writer'[e] = writer[e]]_vars
  <2> SUFFICES ASSUME PInv, Next, NEW e \in Elements, writer[e] # NoThread
               PROVE  writer'[e] = writer[e]
    OBVIOUS
  <2>1. ASSUME NEW t \in Threads, Compute(t)
        PROVE  writer'[e] = writer[e]
    <3>1. /\ Start(t) + added[t] \in Elements
          /\ writer[Start(t) + added[t]] = NoThread
      BY <2>1, ComputeKeeps
    <3> QED
      BY <2>1, <3>1 DEF Compute, PInv, TypeOK
  <2>2. CASE UNCHANGED writer
    BY <2>2
  <2> QED
    BY <2>1, <2>2 DEF Next, Caller, Worker, Poll, Returned, Split, Spawn, SpawnFails,
       ReportEnds, Get, AllGot, Join, Count, WorkThrows, SetValue, SetException, RaiseFlag,
       callerVars, vars
<1> QED
  BY InitPInv, NextPInv, <1>1, PTL DEF Spec, NoElementWrittenTwice

-----------------------------------------------------------------------------
(***************************************************************************)
(* The refinement of ForkJoin.                                             *)
(***************************************************************************)
Filled  == {e \in Elements : writer[e] # NoThread}
Outcome == CASE main # "returned" -> "running"
             [] main = "returned" /\ result = "ok" -> "ok"
             [] OTHER -> "failed"

LEMMA OutcomeOfCall ==
  /\ main # "returned" => Outcome = "running"
  /\ main = "returned" /\ result = "ok" => Outcome = "ok"
  /\ main = "returned" /\ result # "ok" => Outcome = "failed"
BY DEF Outcome

LEMMA OutcomeOfCallNext ==
  /\ main' # "returned" => Outcome' = "running"
  /\ main' = "returned" /\ result' = "ok" => Outcome' = "ok"
  /\ main' = "returned" /\ result' # "ok" => Outcome' = "failed"
BY DEF Outcome

(* A computed element is one Fill. *)
LEMMA ComputeFills ==
  ASSUME PInv, NEW t \in Threads, Compute(t)
  PROVE  Promise!Next
<1> DEFINE e == Start(t) + added[t]
<1>1. e \in Elements
  BY ComputeKeeps
<1>2. main # "returned" /\ main' = main
  BY DEF PInv, Compute, QuietAfterReturn
<1>3. writer' = [writer EXCEPT ![e] = t] /\ t # NoThread /\ DOMAIN writer = Elements
  BY DEF Compute, PInv, TypeOK, NoThread, Threads
<1> HIDE DEF e
<1>4. Filled' = Filled \cup {e}
  BY <1>1, <1>3 DEF Filled
<1>5. Outcome = "running" /\ Outcome' = Outcome
  BY <1>2, OutcomeOfCall, OutcomeOfCallNext
<1>6. PICK s \in Elements : s = e
  BY <1>1
<1>7. Promise!Fill(s)
  BY <1>4, <1>5, <1>6 DEF Promise!Fill, Filled, Outcome
<1> QED
  BY <1>7 DEF Promise!Next

(* Every step of the calling thread that does not end the call, and every  *)
(* step of a worker that computes nothing, is a stutter.                   *)
LEMMA RunningStutters ==
  ASSUME UNCHANGED writer, main # "returned", main' # "returned"
  PROVE  UNCHANGED <<Filled, Outcome>>
BY OutcomeOfCall, OutcomeOfCallNext DEF Filled

(* get_splits refuses: the call throws before anything is computed. *)
LEMMA RefusalThrows ==
  ASSUME Split, main' = "returned"
  PROVE  Promise!Next
<1>1. UNCHANGED Filled
  BY DEF Split, Filled
<1>2. main # "returned" /\ result' # "ok"
  BY DEF Split
<1>3. Outcome = "running" /\ Outcome' = "failed"
  BY <1>2, OutcomeOfCall, OutcomeOfCallNext
<1>4. Promise!Throw
  BY <1>1, <1>3 DEF Promise!Throw, Filled, Outcome
<1> QED
  BY <1>4 DEF Promise!Next

(* With all futures answered every element is there. *)
LEMMA AllComputed ==
  ASSUME PInv, result = "ok"
  PROVE  Filled = Elements
<1>1. NumThreads > 0 /\ \A t \in Threads : promises[t] = "value"
  <2>1. checked = NumThreads /\ NumThreads > 0
    BY DEF PInv, CallerInv
  <2>2. \A t \in Threads : t < checked
    BY <2>1, NumThreadsFits DEF Threads
  <2> QED
    BY <2>1, <2>2 DEF PInv, CallerInv
<1>2. ASSUME NEW e \in Elements
      PROVE  writer[e] # NoThread
  <2>1. PICK t \in Threads, k \in Nat : k < Size(t) /\ e = Start(t) + k
    BY <1>1, SpansAll
  <2>2. added[t] = Size(t)
    BY <1>1 DEF PInv, WorkerInv
  <2>3. k \in 0 .. Size(t) - 1 /\ Computed(t, k)
    BY <2>1, <2>2, SpansInside DEF Computed
  <2>4. writer[e] = t
    BY <2>1, <2>3 DEF PInv, WrittenInv
  <2> QED
    BY <2>4 DEF Threads, NoThread
<1> QED
  BY <1>2 DEF Filled

(* Joining ends the call: with everything computed, or by the exception.   *)
LEMMA JoinEnds ==
  ASSUME PInv, Join
  PROVE  Promise!Next
<1>1. UNCHANGED Filled /\ Outcome = "running"
  BY OutcomeOfCall DEF Join, callerVars, Filled
<1>2. CASE result = "ok"
  <2>1. Outcome' = "ok" /\ Filled = Elements
    BY <1>2, AllComputed, OutcomeOfCallNext DEF Join, callerVars
  <2>2. Promise!Return
    BY <1>1, <2>1 DEF Promise!Return, Filled, Outcome
  <2> QED
    BY <2>2 DEF Promise!Next
<1>3. CASE result # "ok"
  <2>1. Outcome' = "failed"
    BY <1>3, OutcomeOfCallNext DEF Join, callerVars
  <2>2. Promise!Throw
    BY <1>1, <2>1 DEF Promise!Throw, Filled, Outcome
  <2> QED
    BY <2>2 DEF Promise!Next
<1> QED
  BY <1>2, <1>3

(* parallel_compute keeps its promise: when it returns every element has   *)
(* been computed, otherwise it throws, and after either nothing changes.   *)
THEOREM ComputesAllOrThrows == Spec => ImplementsForkJoin
<1>1. PInv /\ [Next]_vars => [Promise!Next]_<<Filled, Outcome>>
  <2> SUFFICES ASSUME PInv, [Next]_vars
               PROVE  Promise!Next \/ UNCHANGED <<Filled, Outcome>>
    OBVIOUS
  <2>1. CASE Split
    <3>1. CASE main' = "returned"
      BY <2>1, <3>1, RefusalThrows
    <3>2. CASE main' # "returned"
      BY <2>1, <3>2, RunningStutters DEF Split
    <3> QED
      BY <3>1, <3>2
  <2>2. CASE Spawn \/ SpawnFails \/ ReportEnds \/ Get \/ AllGot
    BY <2>2, RunningStutters
       DEF Spawn, SpawnFails, ReportEnds, Get, AllGot, callerVars
  <2>3. CASE Join
    BY <2>3, JoinEnds
  <2>4. ASSUME NEW t \in Threads, Worker(t)
        PROVE  Promise!Next \/ UNCHANGED <<Filled, Outcome>>
    <3>1. CASE Compute(t)
      BY <3>1, ComputeFills
    <3>2. CASE Count(t) \/ WorkThrows(t) \/ SetValue(t) \/ SetException(t) \/ RaiseFlag(t)
      <4>1. UNCHANGED writer /\ main' = main
        BY <3>2 DEF Count, WorkThrows, SetValue, SetException, RaiseFlag
      <4>2. main # "returned"
        BY <3>2 DEF PInv, QuietAfterReturn, Count, WorkThrows, SetValue, SetException, RaiseFlag
      <4> QED
        BY <4>1, <4>2, RunningStutters
    <3> QED
      BY <2>4, <3>1, <3>2 DEF Worker
  <2>5. CASE UNCHANGED vars
    BY <2>5 DEF vars, Filled, Outcome
  <2> QED
    BY <2>1, <2>2, <2>3, <2>4, <2>5 DEF Next, Caller, Poll, Returned
<1>2. Init => Promise!Init
  BY InitPInv
<1> QED
  BY InitPInv, NextPInv, <1>1, <1>2, PTL DEF Spec, ImplementsForkJoin, Promise!Spec, Filled, Outcome
-----------------------------------------------------------------------------
(***************************************************************************)
(* The call does not hang.  The calling thread waits in three places; a    *)
(* worker never waits.                                                     *)
(***************************************************************************)
Runs(t) == pc[t] \notin {"unstarted", "ended"}

CallerWaits ==
  \/ main = "report" /\ Reporting /\ ~error_occurred /\ collected < DataSize
  \/ main = "get" /\ checked < NumThreads /\ promises[checked] = "empty"
  \/ main = "join" /\ \E t \in 0 .. started - 1 : pc[t] # "ended"

(* The elements counted, and what a worker leaves behind. *)
Counted == {e \in Elements : \E t \in Threads : \E k \in 0 .. added[t] - 1 : e = Start(t) + k}

SignalInv ==
  /\ collected = Cardinality(Counted)
  /\ \A t \in Threads :
       /\ pc[t] = "ended" => promises[t] = "value" \/ (promises[t] = "exception" /\ error_occurred)
       /\ pc[t] = "flag" => promises[t] = "exception"

LEMMA CountedFinite == IsFiniteSet(Counted) /\ IsFiniteSet(Elements) /\ Cardinality(Elements) = DataSize
<1>1. IsFiniteSet(Elements) /\ Cardinality(Elements) = DataSize
  BY DataSizeAssumption, FS_Interval DEF Elements
<1>2. Counted \subseteq Elements
  BY DEF Counted
<1>3. QED
  BY <1>1, <1>2, FS_Subset

LEMMA InitSignal == Init => SignalInv
<1> SUFFICES ASSUME Init PROVE SignalInv
  OBVIOUS
<1>1. Counted = {}
  BY DEF Init, Counted
<1>2. collected = Cardinality(Counted)
  BY <1>1, FS_EmptySet DEF Init
<1>3. QED
  BY <1>2 DEF Init, SignalInv

(* The element counted was not counted before: no other span holds it. *)
LEMMA CountIsExact ==
  ASSUME PInv, NEW t \in Threads, Count(t)
  PROVE  Cardinality(Counted') = Cardinality(Counted) + 1
<1> DEFINE e == Start(t) + added[t]
<1>1. /\ pc[t] = "count" /\ added[t] \in 0 .. Size(t) - 1
      /\ added \in [Threads -> Nat] /\ added' = [added EXCEPT ![t] = @ + 1]
  <2>1. pc[t] = "count" /\ added[t] < Size(t) /\ added[t] \in 0 .. Size(t)
    BY DEF PInv, TypeOK, WorkerInv, Count
  <2>2. Size(t) \in Nat
    BY SpansInside
  <2>3. QED
    BY <2>1, <2>2 DEF PInv, TypeOK, Count
<1>2. e \in Elements
  BY <1>1, SpansInside
<1>3. e \notin Counted
  <2> SUFFICES ASSUME NEW u \in Threads, NEW k \in 0 .. added[u] - 1, e = Start(u) + k
               PROVE  FALSE
    BY DEF Counted
  <2>1. k \in 0 .. Size(u) - 1
    <3>1. added[u] \in 0 .. Size(u) /\ Size(u) \in Nat
      BY SpansInside DEF PInv, TypeOK
    <3>2. QED
      BY <3>1
  <2>2. u = t /\ k = added[t]
    BY <1>1, <2>1, SpansDisjoint
  <2>3. QED
    BY <1>1, <2>2
<1>4. Counted' = Counted \cup {e}
  <2>1. /\ added'[t] = added[t] + 1 /\ added[t] \in Nat
        /\ \A u \in Threads \ {t} : added'[u] = added[u]
    BY <1>1
  <2>2. ASSUME NEW u \in Threads, NEW k \in Int
        PROVE  k \in 0 .. added'[u] - 1 <=> (k \in 0 .. added[u] - 1 \/ (u = t /\ k = added[t]))
    <3>1. CASE u = t
      BY <2>1, <3>1
    <3>2. CASE u # t
      BY <2>1, <3>2
    <3>3. QED
      BY <3>1, <3>2
  <2>3. ASSUME NEW x \in Elements
        PROVE  (\E u \in Threads : \E k \in 0 .. added'[u] - 1 : x = Start(u) + k)
                 <=> ((\E u \in Threads : \E k \in 0 .. added[u] - 1 : x = Start(u) + k) \/ x = e)
    <3>1. ASSUME NEW u \in Threads, NEW k \in 0 .. added'[u] - 1, x = Start(u) + k
          PROVE  (\E v \in Threads : \E m \in 0 .. added[v] - 1 : x = Start(v) + m) \/ x = e
      BY <2>2, <3>1
    <3>2. ASSUME NEW u \in Threads, NEW k \in 0 .. added[u] - 1, x = Start(u) + k
          PROVE  \E v \in Threads : \E m \in 0 .. added'[v] - 1 : x = Start(v) + m
      BY <2>2, <3>2
    <3>3. ASSUME x = e
          PROVE  \E v \in Threads : \E m \in 0 .. added'[v] - 1 : x = Start(v) + m
      BY <2>1, <2>2, <3>3
    <3>4. QED
      BY <3>1, <3>2, <3>3
  <2>4. QED
    BY <1>2, <2>3 DEF Counted
<1>5. QED
  BY <1>3, <1>4, CountedFinite, FS_AddElement

LEMMA NextSignal == PInv /\ SignalInv /\ [Next]_vars => SignalInv'
<1> SUFFICES ASSUME PInv, SignalInv, [Next]_vars PROVE SignalInv'
  OBVIOUS
<1>1. /\ pc \in [Threads -> {"unstarted", "work", "count", "catch", "flag", "ended"}]
      /\ promises \in [Threads -> {"empty", "value", "exception"}]
  BY DEF PInv, TypeOK
<1>2. ASSUME UNCHANGED <<added, collected>> PROVE collected' = Cardinality(Counted')
  BY <1>2 DEF SignalInv, Counted
<1>3. CASE Caller
  <2>1. UNCHANGED <<added, collected, promises, error_occurred>>
    BY <1>3 DEF Caller, Split, Spawn, SpawnFails, ReportEnds, Get, AllGot, Join, callerVars
  <2>2. \A t \in Threads : pc'[t] = pc[t] \/ pc'[t] = "work"
    BY <1>1, <1>3 DEF Caller, Split, Spawn, SpawnFails, ReportEnds, Get, AllGot, Join, callerVars
  <2>3. QED
    BY <1>2, <2>1, <2>2 DEF SignalInv
<1>4. ASSUME NEW t \in Threads, Worker(t) PROVE SignalInv'
  <2>1. CASE Count(t)
    <3>1. collected' = Cardinality(Counted')
      BY <2>1, CountIsExact DEF Count, SignalInv
    <3>2. QED
      BY <1>1, <2>1, <3>1 DEF Count, SignalInv
  <2>2. CASE Compute(t) \/ WorkThrows(t)
    BY <1>1, <1>2, <2>2 DEF Compute, WorkThrows, SignalInv
  <2>3. CASE SetValue(t)
    BY <1>1, <1>2, <2>3 DEF SetValue, SignalInv
  <2>4. CASE SetException(t)
    BY <1>1, <1>2, <2>4 DEF SetException, SignalInv
  <2>5. CASE RaiseFlag(t)
    BY <1>1, <1>2, <2>5 DEF RaiseFlag, SignalInv
  <2>6. QED
    BY <1>4, <2>1, <2>2, <2>3, <2>4, <2>5 DEF Worker
<1>5. CASE UNCHANGED vars
  BY <1>2, <1>5 DEF vars, SignalInv
<1>6. QED
  BY <1>3, <1>4, <1>5 DEF Next, Poll, Returned

(* The calling thread never waits for nobody.  In particular a reporter    *)
(* that polls for elements which an exception has left uncomputed sees the *)
(* flag: once all workers have ended, all is counted or the flag is up.    *)
THEOREM SomebodyRuns == Spec => [](CallerWaits => \E t \in Threads : Runs(t))
<1>1. PInv /\ SignalInv => (CallerWaits => \E t \in Threads : Runs(t))
  <2> SUFFICES ASSUME PInv, SignalInv, CallerWaits, \A t \in Threads : ~Runs(t) PROVE FALSE
    OBVIOUS
  <2>1. /\ started \in 0 .. NumThreads /\ checked \in 0 .. NumThreads /\ NumThreads \in Nat
        /\ \A t \in Threads : pc[t] = "unstarted" <=> t >= started
    BY NumThreadsFits DEF PInv, TypeOK, WorkerInv
  <2>2. \A t \in Threads : t < started => pc[t] = "ended"
    <3>1. SUFFICES ASSUME NEW t \in Threads, t < started PROVE pc[t] = "ended"
      OBVIOUS
    <3>2. t \in Int
      BY <2>1 DEF Threads
    <3>3. pc[t] # "unstarted"
      BY <2>1, <3>1, <3>2
    <3>4. QED
      BY <3>3 DEF Runs
  <2>3. CASE main = "report"
    <3>1. started = NumThreads /\ NumThreads > 0 /\ ~error_occurred /\ collected < DataSize
      BY <2>3 DEF PInv, CallerInv, CallerWaits
    <3>2. \A t \in Threads : promises[t] = "value" /\ added[t] = Size(t)
      <4>1. SUFFICES ASSUME NEW t \in Threads PROVE promises[t] = "value" /\ added[t] = Size(t)
        OBVIOUS
      <4>2. t < started
        BY <2>1, <3>1 DEF Threads
      <4>3. pc[t] = "ended"
        BY <2>2, <4>2
      <4>4. promises[t] = "value"
        BY <3>1, <4>3 DEF SignalInv
      <4>5. QED
        BY <4>4 DEF PInv, WorkerInv
    <3>3. Counted = Elements
      <4>1. SUFFICES ASSUME NEW e \in Elements
                     PROVE  \E t \in Threads : \E k \in 0 .. added[t] - 1 : e = Start(t) + k
        BY DEF Counted
      <4>2. PICK t \in Threads, k \in Nat : k < Size(t) /\ e = Start(t) + k
        BY <3>1, SpansAll
      <4>3. k \in 0 .. added[t] - 1
        <5>1. Size(t) \in Nat /\ added[t] = Size(t)
          BY <3>2, SpansInside
        <5>2. QED
          BY <4>2, <5>1
      <4>4. QED
        BY <4>2, <4>3
    <3>4. collected = DataSize
      BY <3>3, CountedFinite DEF SignalInv
    <3>5. QED
      BY <3>1, <3>4, DataSizeAssumption
  <2>4. CASE main = "get"
    <3>1. started = NumThreads /\ checked < NumThreads /\ promises[checked] = "empty"
      BY <2>4 DEF PInv, CallerInv, CallerWaits
    <3>2. checked \in Threads /\ checked < started
      BY <2>1, <3>1 DEF Threads
    <3>3. QED
      BY <2>2, <3>1, <3>2 DEF SignalInv
  <2>5. CASE main = "join"
    <3>1. PICK t \in 0 .. started - 1 : pc[t] # "ended"
      BY <2>5 DEF CallerWaits
    <3>2. t \in Threads /\ t < started
      BY <2>1 DEF Threads
    <3>3. QED
      BY <2>2, <3>1, <3>2
  <2>6. QED
    BY <2>3, <2>4, <2>5 DEF CallerWaits
<1>2. QED
  BY InitPInv, InitSignal, NextPInv, NextSignal, <1>1, PTL DEF Spec

(* What each thread has left to do: three steps for an element and the     *)
(* closing ones of a worker; for the caller its way through the call.      *)
Ahead(t) == 3 * (Size(t) - added[t])
WorkerLeft(t) ==
  CASE pc[t] = "unstarted" -> Ahead(t) + 4
    [] pc[t] = "work"      -> Ahead(t) + 3
    [] pc[t] = "count"     -> Ahead(t) + 2
    [] pc[t] = "catch"     -> 2
    [] pc[t] = "flag"      -> 1
    [] pc[t] = "ended"     -> 0
CallerLeft ==
  CASE main = "split"    -> 2 * NumThreads + 5
    [] main = "spawn"    -> 2 * NumThreads - started + 4
    [] main = "report"   -> NumThreads + 3
    [] main = "get"      -> NumThreads - checked + 2
    [] main = "join"     -> 1
    [] main = "returned" -> 0

LeftIsNatural == CallerLeft \in Nat /\ \A t \in Threads : WorkerLeft(t) \in Nat

CloserToReturn ==
  /\ CallerLeft' <= CallerLeft
  /\ \A t \in Threads : WorkerLeft(t)' <= WorkerLeft(t)
  /\ CallerLeft' < CallerLeft \/ \E t \in Threads : WorkerLeft(t)' < WorkerLeft(t)

LEMMA AheadIsNatural ==
  ASSUME PInv, NEW t \in Threads
  PROVE  /\ Ahead(t) \in Nat
         /\ added[t] \in Nat /\ Size(t) \in Nat
         /\ added[t] < Size(t) => Ahead(t) >= 3
<1>1. added[t] \in 0 .. Size(t) /\ Size(t) \in Nat
  BY SpansInside DEF PInv, TypeOK
<1>2. QED
  BY <1>1 DEF Ahead

LEMMA CallCounted == PInv => LeftIsNatural
<1> SUFFICES ASSUME PInv PROVE LeftIsNatural
  OBVIOUS
<1>1. CallerLeft \in Nat
  <2>1. NumThreads \in Nat /\ started \in 0 .. NumThreads /\ checked \in 0 .. NumThreads
    BY NumThreadsFits DEF PInv, TypeOK
  <2>2. main \in {"split", "spawn", "report", "get", "join", "returned"}
    BY DEF PInv, TypeOK
  <2>3. QED
    BY <2>1, <2>2 DEF CallerLeft
<1>2. ASSUME NEW t \in Threads PROVE WorkerLeft(t) \in Nat
  <2>1. pc[t] \in {"unstarted", "work", "count", "catch", "flag", "ended"} /\ Ahead(t) \in Nat
    BY AheadIsNatural DEF PInv, TypeOK
  <2>2. QED
    BY <2>1 DEF WorkerLeft
<1>3. QED
  BY <1>1, <1>2 DEF LeftIsNatural

(* A step of a worker brings it closer to its end. *)
LEMMA WorkerGetsCloser ==
  ASSUME PInv, PInv', NEW t \in Threads, Worker(t)
  PROVE  WorkerLeft(t)' < WorkerLeft(t)
<1>1. /\ pc \in [Threads -> {"unstarted", "work", "count", "catch", "flag", "ended"}]
      /\ added \in [Threads -> Nat]
  BY DEF PInv, TypeOK
<1>2. /\ Ahead(t) \in Nat /\ added[t] \in Nat /\ Size(t) \in Nat
      /\ added[t] < Size(t) => Ahead(t) >= 3
  BY AheadIsNatural
<1>3. CASE Compute(t)
  <2>1. pc[t] = "work" /\ pc'[t] = "count" /\ added' = added
    BY <1>1, <1>3 DEF Compute
  <2>2. WorkerLeft(t) = Ahead(t) + 3 /\ WorkerLeft(t)' = Ahead(t) + 2
    BY <2>1 DEF WorkerLeft, Ahead
  <2>3. QED
    BY <1>2, <2>2
<1>4. CASE Count(t)
  <2>1. pc[t] = "count" /\ pc'[t] = "work" /\ added'[t] = added[t] + 1
    BY <1>1, <1>4 DEF Count
  <2>2. WorkerLeft(t) = Ahead(t) + 2 /\ WorkerLeft(t)' = 3 * (Size(t) - (added[t] + 1)) + 3
    BY <2>1 DEF WorkerLeft, Ahead
  <2>3. 3 * (Size(t) - (added[t] + 1)) + 3 = Ahead(t)
    BY <1>2 DEF Ahead
  <2>4. QED
    BY <1>2, <2>2, <2>3
<1>5. CASE WorkThrows(t)
  <2>1. pc[t] = "work" /\ pc'[t] = "catch"
    BY <1>1, <1>5 DEF WorkThrows
  <2>2. WorkerLeft(t) = Ahead(t) + 3 /\ WorkerLeft(t)' = 2
    BY <2>1 DEF WorkerLeft
  <2>3. QED
    BY <1>2, <2>2
<1>6. CASE SetValue(t)
  <2>1. pc[t] = "work" /\ pc'[t] = "ended"
    BY <1>1, <1>6 DEF SetValue
  <2>2. WorkerLeft(t) = Ahead(t) + 3 /\ WorkerLeft(t)' = 0
    BY <2>1 DEF WorkerLeft
  <2>3. QED
    BY <1>2, <2>2
<1>7. CASE SetException(t)
  <2>1. pc[t] = "catch" /\ pc'[t] = "flag"
    BY <1>1, <1>7 DEF SetException
  <2>2. QED
    BY <2>1 DEF WorkerLeft
<1>8. CASE RaiseFlag(t)
  <2>1. pc[t] = "flag" /\ pc'[t] = "ended"
    BY <1>1, <1>8 DEF RaiseFlag
  <2>2. QED
    BY <2>1 DEF WorkerLeft
<1>9. QED
  BY <1>3, <1>4, <1>5, <1>6, <1>7, <1>8 DEF Worker

(* So does a step of the caller, and starting a worker counts as one of    *)
(* its steps too.                                                          *)
LEMMA CallerGetsCloser ==
  ASSUME PInv, PInv', Caller
  PROVE  /\ CallerLeft' < CallerLeft
         /\ \A t \in Threads : WorkerLeft(t)' <= WorkerLeft(t)
<1>1. /\ NumThreads \in Nat /\ started \in 0 .. NumThreads /\ checked \in 0 .. NumThreads
      /\ started' \in 0 .. NumThreads /\ checked' \in 0 .. NumThreads
      /\ pc \in [Threads -> {"unstarted", "work", "count", "catch", "flag", "ended"}]
  BY NumThreadsFits DEF PInv, TypeOK
<1>2. CallerLeft' < CallerLeft
  <2>1. CASE Split
    BY <1>1, <2>1 DEF PInv, CallerInv, Split, CallerLeft
  <2>2. CASE Spawn
    <3>1. started < NumThreads
      BY <2>2 DEF PInv, CallerInv, Spawn
    <3>2. QED
      BY <1>1, <2>2, <3>1 DEF Spawn, CallerLeft
  <2>3. CASE SpawnFails
    BY <1>1, <2>3 DEF SpawnFails, CallerLeft
  <2>4. CASE ReportEnds
    <3>1. main = "report" /\ main' = "get" /\ checked' = checked
      BY <2>4 DEF ReportEnds, callerVars
    <3>2. QED
      BY <1>1, <3>1 DEF CallerLeft
  <2>5. CASE Get
    <3>1. /\ main = "get"
          /\ \/ main' = "get" /\ checked' = checked + 1
             \/ main' = "join"
      BY <2>5 DEF Get
    <3>2. QED
      BY <1>1, <3>1 DEF CallerLeft
  <2>6. CASE AllGot
    BY <1>1, <2>6 DEF AllGot, CallerLeft
  <2>7. CASE Join
    BY <2>7 DEF Join, CallerLeft
  <2>8. QED
    BY <2>1, <2>2, <2>3, <2>4, <2>5, <2>6, <2>7 DEF Caller
<1>3. ASSUME NEW t \in Threads PROVE WorkerLeft(t)' <= WorkerLeft(t)
  <2>1. added' = added /\ (pc'[t] = pc[t] \/ (pc[t] = "unstarted" /\ pc'[t] = "work"))
    <3>1. CASE Spawn
      <4>1. pc[started] = "unstarted" \/ started \notin Threads
        BY <1>1 DEF PInv, WorkerInv, Threads
      <4>2. QED
        BY <1>1, <3>1, <4>1 DEF Spawn
    <3>2. CASE ~Spawn
      BY <3>2 DEF Caller, Split, SpawnFails, ReportEnds, Get, AllGot, Join, callerVars
    <3>3. QED
      BY <3>1, <3>2
  <2>2. Ahead(t)' = Ahead(t) /\ Ahead(t) \in Nat
    BY <2>1, AheadIsNatural DEF Ahead
  <2>3. CASE pc'[t] = pc[t]
    <3>1. WorkerLeft(t)' = WorkerLeft(t) /\ WorkerLeft(t) \in Nat
      BY <2>2, <2>3, CallCounted DEF WorkerLeft, LeftIsNatural
    <3>2. QED
      BY <3>1
  <2>4. CASE pc[t] = "unstarted" /\ pc'[t] = "work"
    <3>1. WorkerLeft(t) = Ahead(t) + 4 /\ WorkerLeft(t)' = Ahead(t) + 3
      BY <2>2, <2>4 DEF WorkerLeft
    <3>2. QED
      BY <2>2, <3>1
  <2>5. QED
    BY <2>1, <2>3, <2>4
<1>4. QED
  BY <1>2, <1>3

(* Every step of the call but a poll brings one of the finitely many       *)
(* threads closer to its end and none further from it: of the progress     *)
(* that the system's scheduling guarantees there is only so much to make.  *)
THEOREM CallIsFinite == Spec => []LeftIsNatural /\ [][CloserToReturn]_vars
<1>1. PInv' => LeftIsNatural'
  BY CallCounted, PTL
<1>2. PInv /\ PInv' /\ [Next]_vars => [CloserToReturn]_vars
  <2> SUFFICES ASSUME PInv, PInv', Next, ~UNCHANGED vars PROVE CloserToReturn
    OBVIOUS
  <2>1. LeftIsNatural /\ LeftIsNatural'
    BY <1>1, CallCounted
  <2>2. CASE Caller
    <3>1. CallerLeft' < CallerLeft /\ \A t \in Threads : WorkerLeft(t)' <= WorkerLeft(t)
      BY <2>2, CallerGetsCloser
    <3>2. CallerLeft' <= CallerLeft
      BY <2>1, <3>1 DEF LeftIsNatural
    <3>3. QED
      BY <3>1, <3>2 DEF CloserToReturn
  <2>3. ASSUME NEW t \in Threads, Worker(t) PROVE CloserToReturn
    <3>1. WorkerLeft(t)' < WorkerLeft(t)
      BY <2>3, WorkerGetsCloser
    <3>2. CallerLeft' = CallerLeft
      BY <2>3 DEF Worker, Compute, Count, WorkThrows, SetValue, SetException, RaiseFlag, CallerLeft
    <3>3. ASSUME NEW u \in Threads, u # t PROVE WorkerLeft(u)' = WorkerLeft(u)
      <4>1. pc'[u] = pc[u] /\ added'[u] = added[u]
        BY <2>3, <3>3 DEF PInv, TypeOK, Worker, Compute, Count, WorkThrows, SetValue,
                          SetException, RaiseFlag
      <4>2. QED
        BY <4>1 DEF WorkerLeft, Ahead
    <3>4. CallerLeft' <= CallerLeft
      BY <2>1, <3>2 DEF LeftIsNatural
    <3>5. ASSUME NEW u \in Threads PROVE WorkerLeft(u)' <= WorkerLeft(u)
      <4>1. WorkerLeft(u) \in Nat /\ WorkerLeft(u)' \in Nat
        BY <2>1 DEF LeftIsNatural
      <4>2. WorkerLeft(u)' = WorkerLeft(u) \/ WorkerLeft(u)' < WorkerLeft(u)
        BY <3>1, <3>3
      <4>3. QED
        BY <4>1, <4>2
    <3>6. QED
      BY <3>1, <3>4, <3>5 DEF CloserToReturn
  <2>4. QED
    BY <2>2, <2>3 DEF Next, Poll, Returned
<1>3. QED
  BY InitPInv, NextPInv, CallCounted, <1>2, PTL DEF Spec
=============================================================================
