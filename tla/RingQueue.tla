------------------------------ MODULE RingQueue ------------------------------
(***************************************************************************)
(* DynaPlex::Queue<T>: a ring buffer in a vector, first_item pointing at   *)
(* the front and num_items counting from there around the end.  The models *)
(* keep their pipelines and waiting lines in it.  Several objects, because *)
(* states are copied and moved all the time and a moved-from queue is used *)
(* again.                                                                  *)
(***************************************************************************)
EXTENDS Integers, Sequences

CONSTANTS
  Objects,   \* the queues of the program
  Values,    \* T
  Default,   \* T{}
  MaxItems   \* bound on num_items

ASSUME DefaultAssumption  == Default \in Values
ASSUME MaxItemsAssumption == MaxItems \in Nat

VARIABLES
  first_item,
  num_items,
  items,    \* items[q]: the vector, a function on 0 .. Capacity - 1
  capacity, \* items[q].size()
  popped    \* what the last pop_front returned

vars == <<first_item, num_items, items, capacity, popped>>

-----------------------------------------------------------------------------
(* Faulty variant: an index one past the end is not wrapped. *)
IndexTooLate(c, unlooped_index) ==
  IF unlooped_index > c THEN unlooped_index - c ELSE unlooped_index

(* GetVectorIndex, for a vector of c items. *)
VectorIndex(c, unlooped_index) ==
  IF unlooped_index >= c THEN unlooped_index - c ELSE unlooped_index

(* Where the i-th item counted from the front stands. *)
Slot(q, i) == VectorIndex(capacity[q], first_item[q] + i)

(* What begin() .. end() runs over, front first. *)
Contents(q) == [i \in 1 .. num_items[q] |-> items[q][Slot(q, i - 1)]]

IsEmpty(q) == num_items[q] = 0

(* Faulty variant: the vector is only resized, its items stay in place.    *)
ResizedInPlace(q, c) ==
  [k \in 0 .. c - 1 |-> IF k < capacity[q] THEN items[q][k] ELSE Default]

(* The vector reserve(c) builds: the items in order from place 0, then T{}. *)
Relinearised(q, c) ==
  [k \in 0 .. c - 1 |-> IF k < num_items[q] THEN items[q][Slot(q, k)] ELSE Default]

Put(q, first, num, vector, c) ==
  /\ first_item' = [first_item EXCEPT ![q] = first]
  /\ num_items'  = [num_items EXCEPT ![q] = num]
  /\ items'      = [items EXCEPT ![q] = vector]
  /\ capacity'   = [capacity EXCEPT ![q] = c]

NoItems == [k \in {} |-> Default]

-----------------------------------------------------------------------------
Init ==
  /\ first_item = [q \in Objects |-> 0]
  /\ num_items = [q \in Objects |-> 0]
  /\ items = [q \in Objects |-> NoItems]
  /\ capacity = [q \in Objects |-> 0]
  /\ popped = Default

(* Queue(initializer_list), assigned to q.  Queue(n, value) lists n times  *)
(* the same, Queue() nothing.                                              *)
Construct(q, n, list) ==
  /\ n <= MaxItems
  /\ Put(q, 0, n, [k \in 0 .. n - 1 |-> list[k + 1]], n)
  /\ UNCHANGED popped

Reserve(q, c) ==
  /\ c > capacity[q]
  /\ Put(q, 0, num_items[q], Relinearised(q, c), c)
  /\ UNCHANGED popped

GrownCapacity(q) == IF capacity[q] = 0 THEN 4 ELSE capacity[q] * 2

(* push_back: a full vector is grown first. *)
PushBack(q, v) ==
  /\ num_items[q] < MaxItems
  /\ IF num_items[q] = capacity[q]
     THEN Put(q, 0, num_items[q] + 1,
              [Relinearised(q, GrownCapacity(q)) EXCEPT ![num_items[q]] = v],
              GrownCapacity(q))
     ELSE Put(q, first_item[q], num_items[q] + 1,
              [items[q] EXCEPT ![Slot(q, num_items[q])] = v],
              capacity[q])
  /\ UNCHANGED popped

(* Faulty variant: first_item runs off the end of the vector. *)
PopWithoutWrap(q) ==
  /\ ~ IsEmpty(q)
  /\ popped' = items[q][first_item[q]]
  /\ Put(q, first_item[q] + 1, num_items[q] - 1,
         [items[q] EXCEPT ![first_item[q]] = Default], capacity[q])

(* pop_front throws on an empty queue. *)
PopFront(q) ==
  /\ ~ IsEmpty(q)
  /\ popped' = items[q][first_item[q]]
  /\ Put(q,
         IF first_item[q] + 1 = capacity[q] THEN 0 ELSE first_item[q] + 1,
         num_items[q] - 1,
         [items[q] EXCEPT ![first_item[q]] = Default],
         capacity[q])

(* front(), back() and at(loc) hand out references; they throw when there  *)
(* is no such item.                                                        *)
AssignAt(q, loc, v) ==
  /\ loc < num_items[q]
  /\ items' = [items EXCEPT ![q] = [@ EXCEPT ![Slot(q, loc)] = v]]
  /\ UNCHANGED <<first_item, num_items, capacity, popped>>

Clear(q) == Put(q, 0, 0, NoItems, 0) /\ UNCHANGED popped

CopyAssign(p, q) ==
  /\ Put(q, first_item[p], num_items[p], items[p], capacity[p])
  /\ UNCHANGED popped

(* The source keeps its first_item, which no longer points into anything.  *)
MoveAssign(p, q) ==
  /\ p # q
  /\ first_item' = [first_item EXCEPT ![q] = first_item[p]]
  /\ num_items'  = [num_items EXCEPT ![q] = num_items[p], ![p] = 0]
  /\ items'      = [items EXCEPT ![q] = items[p], ![p] = NoItems]
  /\ capacity'   = [capacity EXCEPT ![q] = capacity[p], ![p] = 0]
  /\ UNCHANGED popped

Next ==
  \/ \E q \in Objects :
       \/ \E n \in 0 .. MaxItems : \E list \in [1 .. n -> Values] : Construct(q, n, list)
       \/ \E c \in 1 .. MaxItems : Reserve(q, c)
       \/ \E v \in Values : PushBack(q, v)
       \/ PopFront(q)
       \/ \E v \in Values, loc \in 0 .. MaxItems - 1 : AssignAt(q, loc, v)
       \/ Clear(q)
  \/ \E p, q \in Objects : CopyAssign(p, q) \/ MoveAssign(p, q)

Spec == Init /\ [][Next]_vars

-----------------------------------------------------------------------------
TypeOK ==
  /\ first_item \in [Objects -> Nat]
  /\ num_items \in [Objects -> 0 .. MaxItems]
  /\ capacity \in [Objects -> Nat]
  /\ popped \in Values
  /\ DOMAIN items = Objects
  /\ \A q \in Objects : items[q] \in [0 .. capacity[q] - 1 -> Values]

(* Every index the queue computes is inside its vector: the items fit, and *)
(* the front points into it unless there is nothing to point into (a queue *)
(* that was moved from).                                                   *)
RingSound ==
  \A q \in Objects :
    /\ num_items[q] <= capacity[q]
    /\ capacity[q] > 0 => first_item[q] < capacity[q]

AbstractFifo == INSTANCE Fifo WITH
                  content <- [q \in Objects |-> Contents(q)],
                  Sizes   <- 0 .. MaxItems

(* Each operation does to the contents what its counterpart does to a      *)
(* sequence.                                                               *)
LikeSequences ==
  /\ \A q \in Objects :
       /\ \A n \in 0 .. MaxItems : \A list \in [1 .. n -> Values] :
            Construct(q, n, list) => AbstractFifo!Fill(q, list)
       /\ \A c \in 1 .. MaxItems : Reserve(q, c) => UNCHANGED AbstractFifo!fifoVars
       /\ \A v \in Values : PushBack(q, v) => AbstractFifo!Push(q, v)
       /\ PopFront(q) => AbstractFifo!Pop(q)
       /\ \A v \in Values, loc \in 0 .. MaxItems - 1 :
            AssignAt(q, loc, v) => AbstractFifo!Write(q, loc + 1, v)
       /\ Clear(q) => AbstractFifo!Fill(q, <<>>)
  /\ \A p, q \in Objects :
       /\ CopyAssign(p, q) => AbstractFifo!Copy(p, q)
       /\ MoveAssign(p, q) => AbstractFifo!Move(p, q)

(* The ring, however it was grown, wrapped, copied or moved from, is a     *)
(* first-in first-out sequence: it starts as one, and every operation is   *)
(* the step of one that it is meant to be, and reserve none.               *)
ImplementsFifo ==
  /\ AbstractFifo!Init /\ [][AbstractFifo!Next]_(AbstractFifo!fifoVars)
  /\ [][LikeSequences]_vars
=============================================================================
