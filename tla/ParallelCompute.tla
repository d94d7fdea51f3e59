--------------------------- MODULE ParallelCompute ---------------------------
(***************************************************************************)
(* Parallel::parallel_compute: a main thread cuts the output vector into   *)
(* spans, starts a thread on each, lets a progress reporter poll a shared  *)
(* counter and an error flag, asks the futures in order and joins.  The    *)
(* work is the one of the sample generator: it computes its elements in    *)
(* order, counts each of them, and may throw instead of computing one.     *)
(***************************************************************************)
EXTENDS Splits, FiniteSets

CONSTANTS
  DataSize,      \* output_data.size()
  ThreadsAsked,  \* num_threads_to_use as the caller gives it
  Reporting      \* the reporter polls (on rank 0); otherwise it returns at once

ASSUME DataSizeAssumption     == DataSize \in Nat
ASSUME ThreadsAskedAssumption == ThreadsAsked \in Nat
ASSUME ReportingAssumption    == Reporting \in BOOLEAN

VARIABLES
  main,       \* where the calling thread stands
  started,    \* how many threads it has started
  checked,    \* how many futures it has asked
  result,     \* "none", or how the call is going to end
  pc,         \* where each worker stands
  added,      \* how many elements each worker has computed
  promises,   \* what each worker has put in its promise
  error_occurred,
  collected,  \* total_samples_collected, the counter the reporter reads
  writer      \* the worker that computed each element

vars == <<main, started, checked, result, pc, added, promises,
          error_occurred, collected, writer>>
callerVars == <<started, checked, result, promises, error_occurred,
                collected, writer, added, pc>>

-----------------------------------------------------------------------------
(* More threads than elements are not used. *)
NumThreads == IF ThreadsAsked > DataSize THEN DataSize ELSE ThreadsAsked
Threads    == 0 .. NumThreads - 1
Elements   == 0 .. DataSize - 1
NoThread   == -1

Start(t) == SpanStart(DataSize, NumThreads, t)
Size(t)  == SpanSize(DataSize, NumThreads, t)

Init ==
  /\ main = "split"
  /\ started = 0
  /\ checked = 0
  /\ result = "none"
  /\ pc = [t \in Threads |-> "unstarted"]
  /\ added = [t \in Threads |-> 0]
  /\ promises = [t \in Threads |-> "empty"]
  /\ error_occurred = FALSE
  /\ collected = 0
  /\ writer = [e \in Elements |-> NoThread]

-----------------------------------------------------------------------------
(***************************************************************************)
(* The calling thread.                                                     *)
(***************************************************************************)

(* get_splits refuses an empty vector and zero threads before anything runs. *)
Split ==
  /\ main = "split"
  /\ IF SplitsThrow(DataSize, NumThreads)
     THEN main' = "returned" /\ result' = "refused"
     ELSE main' = "spawn" /\ UNCHANGED result
  /\ UNCHANGED <<started, checked, pc, added, promises, error_occurred, collected, writer>>

(* Faulty variant: the loop runs once too often. *)
SpawnOneTooMany ==
  /\ main = "spawn"
  /\ pc' = [pc EXCEPT ![started] = "work"]
  /\ started' = started + 1
  /\ main' = IF started = NumThreads THEN "report" ELSE "spawn"
  /\ UNCHANGED <<checked, result, added, promises, error_occurred, collected, writer>>

Spawn ==
  /\ main = "spawn"
  /\ pc' = [pc EXCEPT ![started] = "work"]
  /\ started' = started + 1
  /\ main' = IF started + 1 = NumThreads THEN "report" ELSE "spawn"
  /\ UNCHANGED <<checked, result, added, promises, error_occurred, collected, writer>>

(* The system has no thread left: the exception unwinds through the vector *)
(* of the threads already running, which joins them.                       *)
SpawnFails ==
  /\ main = "spawn"
  /\ main' = "join"
  /\ result' = "no_thread"
  /\ UNCHANGED <<started, checked, pc, added, promises, error_occurred, collected, writer>>

(* The reporter polls until it sees an error or everything counted. *)
ReportEnds ==
  /\ main = "report"
  /\ Reporting => (error_occurred \/ collected >= DataSize)
  /\ main' = "get"
  /\ UNCHANGED callerVars

(* It sleeps and looks again. *)
Poll ==
  /\ main = "report"
  /\ Reporting /\ ~ error_occurred /\ collected < DataSize
  /\ UNCHANGED vars

(* future.get() blocks until its promise is kept, and rethrows. *)
Get ==
  /\ main = "get"
  /\ checked < NumThreads
  /\ \/ /\ promises[checked] = "value"
        /\ checked' = checked + 1
        /\ UNCHANGED <<main, result>>
     \/ /\ promises[checked] = "exception"
        /\ main' = "join"
        /\ result' = "threw"
        /\ UNCHANGED checked
  /\ UNCHANGED <<started, pc, added, promises, error_occurred, collected, writer>>

(* Faulty variant: the futures are not asked. *)
NotAsked ==
  /\ main = "get"
  /\ main' = "join"
  /\ result' = "ok"
  /\ UNCHANGED <<started, checked, pc, added, promises, error_occurred, collected, writer>>

AllGot ==
  /\ main = "get"
  /\ checked = NumThreads
  /\ main' = "join"
  /\ result' = "ok"
  /\ UNCHANGED <<started, checked, pc, added, promises, error_occurred, collected, writer>>

(* Faulty variant: promises and flag go out of scope under running threads. *)
ReturnUnjoined ==
  /\ main = "join"
  /\ main' = "returned"
  /\ UNCHANGED callerVars

(* The threads are the last local declared, so on both ways out they are   *)
(* destroyed first, and destroying a jthread joins it.                     *)
Join ==
  /\ main = "join"
  /\ \A t \in 0 .. started - 1 : pc[t] = "ended"
  /\ main' = "returned"
  /\ UNCHANGED callerVars

-----------------------------------------------------------------------------
(***************************************************************************)
(* A worker.                                                               *)
(***************************************************************************)

(* Its next element, at its place in the output vector. *)
Compute(t) ==
  /\ pc[t] = "work"
  /\ added[t] < Size(t)
  /\ writer' = [writer EXCEPT ![Start(t) + added[t]] = t]
  /\ pc' = [pc EXCEPT ![t] = "count"]
  /\ UNCHANGED <<main, started, checked, result, added, promises, error_occurred, collected>>

Count(t) ==
  /\ pc[t] = "count"
  /\ collected' = collected + 1
  /\ added' = [added EXCEPT ![t] = @ + 1]
  /\ pc' = [pc EXCEPT ![t] = "work"]
  /\ UNCHANGED <<main, started, checked, result, promises, error_occurred, writer>>

WorkThrows(t) ==
  /\ pc[t] = "work"
  /\ added[t] < Size(t)
  /\ pc' = [pc EXCEPT ![t] = "catch"]
  /\ UNCHANGED <<main, started, checked, result, added, promises, error_occurred, collected, writer>>

SetValue(t) ==
  /\ pc[t] = "work"
  /\ added[t] = Size(t)
  /\ promises' = [promises EXCEPT ![t] = "value"]
  /\ pc' = [pc EXCEPT ![t] = "ended"]
  /\ UNCHANGED <<main, started, checked, result, added, error_occurred, collected, writer>>

(* Faulty variants: the exception is swallowed; the flag is never raised.  *)
SwallowException(t) ==
  /\ pc[t] = "catch"
  /\ promises' = [promises EXCEPT ![t] = "value"]
  /\ pc' = [pc EXCEPT ![t] = "flag"]
  /\ UNCHANGED <<main, started, checked, result, added, error_occurred, collected, writer>>
SetExceptionOnly(t) ==
  /\ pc[t] = "catch"
  /\ promises' = [promises EXCEPT ![t] = "exception"]
  /\ pc' = [pc EXCEPT ![t] = "ended"]
  /\ UNCHANGED <<main, started, checked, result, added, error_occurred, collected, writer>>

(* The promise is kept first, the flag raised after it. *)
SetException(t) ==
  /\ pc[t] = "catch"
  /\ promises' = [promises EXCEPT ![t] = "exception"]
  /\ pc' = [pc EXCEPT ![t] = "flag"]
  /\ UNCHANGED <<main, started, checked, result, added, error_occurred, collected, writer>>

RaiseFlag(t) ==
  /\ pc[t] = "flag"
  /\ error_occurred' = TRUE
  /\ pc' = [pc EXCEPT ![t] = "ended"]
  /\ UNCHANGED <<main, started, checked, result, added, promises, collected, writer>>

-----------------------------------------------------------------------------
Caller == Split \/ Spawn \/ SpawnFails \/ ReportEnds \/ Get \/ AllGot \/ Join

Worker(t) == \/ Compute(t) \/ Count(t) \/ WorkThrows(t) \/ SetValue(t)
             \/ SetException(t) \/ RaiseFlag(t)

(* The call is over. *)
Returned == main = "returned" /\ UNCHANGED vars

Next == Caller \/ (\E t \in Threads : Worker(t)) \/ Poll \/ Returned

(* The system schedules every thread that can run. *)
Fairness == WF_vars(Caller) /\ \A t \in Threads : WF_vars(Worker(t))

Spec == Init /\ [][Next]_vars /\ Fairness

-----------------------------------------------------------------------------
TypeOK ==
  /\ main \in {"split", "spawn", "report", "get", "join", "returned"}
  /\ started \in 0 .. NumThreads
  /\ checked \in 0 .. NumThreads
  /\ result \in {"none", "refused", "no_thread", "threw", "ok"}
  /\ pc \in [Threads -> {"unstarted", "work", "count", "catch", "flag", "ended"}]
  /\ \A t \in Threads : added[t] \in 0 .. Size(t)
  /\ added \in [Threads -> Nat]
  /\ promises \in [Threads -> {"empty", "value", "exception"}]
  /\ error_occurred \in BOOLEAN
  /\ collected \in Nat
  /\ writer \in [Elements -> Threads \cup {NoThread}]

(* No worker writes an element another one has computed: the spans of      *)
(* get_splits are disjoint.                                                *)
NoElementWrittenTwice ==
  [][\A e \in Elements : writer[e] # NoThread => writer'[e] = writer[e]]_vars

(* Once the call has returned or thrown, no worker is left that could      *)
(* touch the promises, the flag or the counter of the finished call.       *)
QuietAfterReturn ==
  main = "returned" => \A t \in Threads : pc[t] \in {"unstarted", "ended"}

(* An exception of any worker reaches the caller, whichever finished first,*)
(* and whatever the reporter saw.                                          *)
NoExceptionLost ==
  main = "returned" =>
    (result = "ok" <=> /\ NumThreads > 0
                       /\ \A t \in Threads : promises[t] = "value" /\ added[t] = Size(t))

(* The call ends: a reporter that waits for elements nobody will compute   *)
(* any more is released by the flag.                                       *)
CallEnds == <>(main = "returned")

(* The call implements its promise. *)
Promise == INSTANCE ForkJoin WITH
             Slots   <- Elements,
             filled  <- {e \in Elements : writer[e] # NoThread},
             outcome <- CASE main # "returned" -> "running"
                          [] main = "returned" /\ result = "ok" -> "ok"
                          [] OTHER -> "failed"
ImplementsForkJoin == Promise!Spec
=============================================================================
