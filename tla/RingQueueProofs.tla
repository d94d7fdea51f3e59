--------------------------- MODULE RingQueueProofs ---------------------------
(***************************************************************************)
(* Theorems about RingQueue, for any objects, values and MaxItems: its     *)
(* indices stay inside its vector, and it implements Fifo.                 *)
(***************************************************************************)
EXTENDS RingQueue, SequenceTheorems, TLAPS

(* What begin() .. end() runs over, as a function of the members.          *)
Ring(first, num, vector, c) ==
  [i \in 1 .. num |-> vector[VectorIndex(c, first + (i - 1))]]

(* The members of a queue between two operations.                          *)
Sound(first, num, vector, c) ==
  /\ first \in Nat
  /\ num \in Nat
  /\ c \in Nat
  /\ vector \in [0 .. c - 1 -> Values]
  /\ num <= c
  /\ c > 0 => first < c

(* What reserve(newc) puts in the new vector. *)
Linear(first, num, vector, c, newc) ==
  [k \in 0 .. newc - 1 |-> IF k < num THEN vector[VectorIndex(c, first + k)] ELSE Default]

(* The vector after a write to one place, and the place behind first. *)
Stored(vector, place, v) == [vector EXCEPT ![place] = v]
Following(first, c) == IF first + 1 = c THEN 0 ELSE first + 1

-----------------------------------------------------------------------------
(* GetVectorIndex gives a place of the vector for every item.              *)
LEMMA IndexInside ==
  ASSUME NEW c \in Nat, NEW first \in Nat, NEW i \in Nat, first < c, i < c
  PROVE  VectorIndex(c, first + i) \in 0 .. c - 1
BY DEF VectorIndex

(* Different items stand in different places. *)
LEMMA IndexInjective ==
  ASSUME NEW c \in Nat, NEW first \in Nat, NEW i \in Nat, NEW j \in Nat,
         first < c, i < c, j < c, VectorIndex(c, first + i) = VectorIndex(c, first + j)
  PROVE  i = j
BY DEF VectorIndex

(* The items are a sequence. *)
LEMMA RingIsSequence ==
  ASSUME NEW first, NEW num, NEW vector, NEW c, Sound(first, num, vector, c)
  PROVE  /\ Ring(first, num, vector, c) \in Seq(Values)
         /\ Len(Ring(first, num, vector, c)) = num
         /\ DOMAIN Ring(first, num, vector, c) = 1 .. num
         /\ \A i \in 1 .. num :
              /\ Ring(first, num, vector, c)[i] = vector[VectorIndex(c, first + (i - 1))]
              /\ VectorIndex(c, first + (i - 1)) \in 0 .. c - 1
<1>1. ASSUME NEW i \in 1 .. num
      PROVE  /\ VectorIndex(c, first + (i - 1)) \in 0 .. c - 1
             /\ vector[VectorIndex(c, first + (i - 1))] \in Values
  <2>1. c > 0 /\ first < c /\ i - 1 \in Nat /\ i - 1 < c
    BY DEF Sound
  <2>2. VectorIndex(c, first + (i - 1)) \in 0 .. c - 1
    BY <2>1, IndexInside DEF Sound
  <2> QED
    BY <2>2 DEF Sound
<1>2. Ring(first, num, vector, c) \in [1 .. num -> Values]
  BY <1>1 DEF Ring
<1>3. num \in Nat
  BY DEF Sound
<1>4. Ring(first, num, vector, c) \in Seq(Values) /\ Len(Ring(first, num, vector, c)) = num
  BY <1>2, <1>3
<1> QED
  BY <1>1, <1>2, <1>4 DEF Ring

(* Adding behind the last item appends. *)
LEMMA RingAppends ==
  ASSUME NEW first, NEW num, NEW vector, NEW c, Sound(first, num, vector, c),
         num < c, NEW v \in Values
  PROVE  /\ Sound(first, num + 1, Stored(vector, VectorIndex(c, first + num), v), c)
         /\ Ring(first, num + 1, Stored(vector, VectorIndex(c, first + num), v), c)
              = Append(Ring(first, num, vector, c), v)
<1> DEFINE place == VectorIndex(c, first + num)
           longer == Stored(vector, place, v)
           old == Ring(first, num, vector, c)
           new == Ring(first, num + 1, longer, c)
<1>1. c > 0 /\ first < c /\ num \in Nat /\ c \in Nat /\ first \in Nat
  BY DEF Sound
<1>2. place \in 0 .. c - 1
  BY <1>1, IndexInside
<1>3. Sound(first, num + 1, longer, c)
  BY <1>1, <1>2 DEF Sound, Stored
<1>a. \A p \in 0 .. c - 1 : longer[p] = IF p = place THEN v ELSE vector[p]
  BY DEF Sound, Stored
<1> HIDE DEF longer
<1>4. /\ old \in Seq(Values) /\ Len(old) = num
      /\ \A i \in 1 .. num : /\ old[i] = vector[VectorIndex(c, first + (i - 1))]
                             /\ VectorIndex(c, first + (i - 1)) \in 0 .. c - 1
  BY RingIsSequence
<1>5. /\ new \in Seq(Values) /\ Len(new) = num + 1
      /\ \A i \in 1 .. num + 1 : new[i] = longer[VectorIndex(c, first + (i - 1))]
  BY <1>3, RingIsSequence
<1> HIDE DEF new, old
<1>6. new[num + 1] = v
  <2>1. num + 1 \in 1 .. num + 1 /\ (num + 1) - 1 = num
    BY <1>1
  <2>2. new[num + 1] = longer[VectorIndex(c, first + ((num + 1) - 1))]
    BY <1>5, <2>1
  <2> QED
    BY <1>2, <1>a, <2>1, <2>2
<1>7. ASSUME NEW i \in 1 .. num
      PROVE  new[i] = old[i]
  <2>1. VectorIndex(c, first + (i - 1)) # place
    <3>1. i - 1 \in Nat /\ i - 1 < c /\ i - 1 # num
      BY <1>1
    <3> QED
      BY <1>1, <3>1, IndexInjective
  <2>2. longer[VectorIndex(c, first + (i - 1))] = vector[VectorIndex(c, first + (i - 1))]
    BY <1>4, <1>a, <2>1
  <2>3. i \in 1 .. num + 1
    BY <1>1
  <2> QED
    BY <1>4, <1>5, <2>2, <2>3
<1>8. new = Append(old, v)
  <2>1. /\ Append(old, v) \in Seq(Values)
        /\ Len(Append(old, v)) = num + 1
        /\ \A i \in 1 .. num : Append(old, v)[i] = old[i]
        /\ Append(old, v)[num + 1] = v
    BY <1>1, <1>4, AppendProperties
  <2>2. \A i \in 1 .. num + 1 : new[i] = Append(old, v)[i]
    BY <1>1, <1>6, <1>7, <2>1
  <2> QED
    BY <1>5, <2>1, <2>2, SeqEqual
<1> QED
  BY <1>3, <1>8 DEF old, new, longer

(* reserve keeps the items. *)
LEMMA RingReserved ==
  ASSUME NEW first, NEW num, NEW vector, NEW c, Sound(first, num, vector, c),
         NEW newc \in Nat, newc > c
  PROVE  LET linear == Linear(first, num, vector, c, newc)
         IN  /\ Sound(0, num, linear, newc)
             /\ Ring(0, num, linear, newc) = Ring(first, num, vector, c)
<1> DEFINE linear == Linear(first, num, vector, c, newc)
           old == Ring(first, num, vector, c)
           new == Ring(0, num, linear, newc)
<1>1. num \in Nat /\ c \in Nat /\ first \in Nat /\ num <= c /\ num < newc
  BY DEF Sound
<1>2. ASSUME NEW k \in 0 .. newc - 1, k < num
      PROVE  vector[VectorIndex(c, first + k)] \in Values
  <2>1. c > 0 /\ first < c /\ k \in Nat /\ k < c
    BY <1>1, <1>2 DEF Sound
  <2>2. VectorIndex(c, first + k) \in 0 .. c - 1
    BY <1>1, <2>1, IndexInside
  <2> QED
    BY <2>2 DEF Sound
<1>3. linear \in [0 .. newc - 1 -> Values]
  BY <1>2, DefaultAssumption DEF Linear
<1>4. Sound(0, num, linear, newc)
  BY <1>1, <1>3 DEF Sound
<1>5. ASSUME NEW i \in 1 .. num
      PROVE  linear[VectorIndex(newc, 0 + (i - 1))] = vector[VectorIndex(c, first + (i - 1))]
  <2>1. VectorIndex(newc, 0 + (i - 1)) = i - 1
    BY <1>1 DEF VectorIndex
  <2>2. i - 1 \in 0 .. newc - 1 /\ i - 1 < num
    BY <1>1
  <2> QED
    BY <2>1, <2>2 DEF Linear
<1>6. new = old
  BY <1>5 DEF Ring
<1> QED
  BY <1>4, <1>6

(* Popping leaves the tail, and what is popped is the head. *)
LEMMA RingPops ==
  ASSUME NEW first, NEW num, NEW vector, NEW c, Sound(first, num, vector, c), num # 0
  PROVE  /\ Sound(Following(first, c), num - 1, Stored(vector, first, Default), c)
         /\ vector[first] \in Values
         /\ Ring(first, num, vector, c) # <<>>
         /\ vector[first] = Head(Ring(first, num, vector, c))
         /\ Ring(Following(first, c), num - 1, Stored(vector, first, Default), c)
              = Tail(Ring(first, num, vector, c))
<1> DEFINE next == Following(first, c)
           shorter == Stored(vector, first, Default)
           old == Ring(first, num, vector, c)
           new == Ring(next, num - 1, shorter, c)
<1>1. c > 0 /\ first < c /\ num \in Nat /\ num > 0 /\ num <= c /\ c \in Nat /\ first \in Nat
  BY DEF Sound
<1>2. first \in 0 .. c - 1 /\ vector \in [0 .. c - 1 -> Values]
  BY <1>1 DEF Sound
<1>3. shorter \in [0 .. c - 1 -> Values]
  BY <1>2, DefaultAssumption DEF Stored
<1>a. \A p \in 0 .. c - 1 : shorter[p] = IF p = first THEN Default ELSE vector[p]
  BY <1>2 DEF Stored
<1>b. next \in Nat /\ next < c
  BY <1>1 DEF Following
<1>4. Sound(next, num - 1, shorter, c)
  BY <1>1, <1>3, <1>b DEF Sound
<1> HIDE DEF shorter
<1>5. /\ old \in Seq(Values) /\ Len(old) = num
      /\ \A i \in 1 .. num : /\ old[i] = vector[VectorIndex(c, first + (i - 1))]
                             /\ VectorIndex(c, first + (i - 1)) \in 0 .. c - 1
  BY RingIsSequence
<1>c. \A i \in Nat \ {0} : i < c => VectorIndex(c, next + (i - 1)) = VectorIndex(c, first + i)
  BY <1>1 DEF VectorIndex, Following
<1> HIDE DEF next
<1>6. /\ new \in Seq(Values) /\ Len(new) = num - 1
      /\ \A i \in 1 .. num - 1 : new[i] = shorter[VectorIndex(c, next + (i - 1))]
  BY <1>4, RingIsSequence
<1> HIDE DEF new, old
<1>7. old # <<>> /\ Head(old) = old[1]
  BY <1>1, <1>5
<1>8. old[1] = vector[first]
  <2>1. VectorIndex(c, first + (1 - 1)) = first
    BY <1>1 DEF VectorIndex
  <2> QED
    BY <1>1, <1>5, <2>1
<1>9. ASSUME NEW i \in 1 .. num - 1
      PROVE  new[i] = old[i + 1]
  <2>1. i \in 1 .. num /\ i + 1 \in 1 .. num /\ i \in Nat /\ i < c /\ i # 0
    BY <1>1
  <2>2. VectorIndex(c, next + (i - 1)) = VectorIndex(c, first + i)
    BY <1>c, <2>1
  <2>3. VectorIndex(c, first + i) # first
    BY <1>1, <2>1 DEF VectorIndex
  <2>4. VectorIndex(c, first + i) \in 0 .. c - 1
    BY <1>1, <2>1, IndexInside
  <2>5. shorter[VectorIndex(c, first + i)] = vector[VectorIndex(c, first + i)]
    BY <1>a, <2>3, <2>4
  <2>6. old[i + 1] = vector[VectorIndex(c, first + ((i + 1) - 1))]
    BY <1>5, <2>1
  <2>7. (i + 1) - 1 = i
    BY <2>1
  <2> QED
    BY <1>6, <2>2, <2>5, <2>6, <2>7
<1>10. /\ Tail(old) \in Seq(Values)
       /\ Len(Tail(old)) = num - 1
       /\ \A i \in 1 .. num - 1 : Tail(old)[i] = old[i + 1]
  BY <1>1, <1>5, <1>7, HeadTailProperties
<1>11. new = Tail(old)
  BY <1>6, <1>9, <1>10, SeqEqual
<1> QED
  BY <1>2, <1>4, <1>7, <1>8, <1>11 DEF old, new, next, shorter

(* Writing through a reference changes that item only. *)
LEMMA RingWritten ==
  ASSUME NEW first, NEW num, NEW vector, NEW c, Sound(first, num, vector, c),
         NEW loc \in Nat, loc < num, NEW v \in Values
  PROVE  LET written == [vector EXCEPT ![VectorIndex(c, first + loc)] = v]
         IN  /\ Sound(first, num, written, c)
             /\ loc + 1 \in 1 .. num
             /\ Ring(first, num, written, c) = [Ring(first, num, vector, c) EXCEPT ![loc + 1] = v]
<1> DEFINE place == VectorIndex(c, first + loc)
           written == [vector EXCEPT ![place] = v]
           old == Ring(first, num, vector, c)
           new == Ring(first, num, written, c)
<1>1. c > 0 /\ first < c /\ num \in Nat /\ num <= c /\ c \in Nat /\ first \in Nat /\ loc < c
  BY DEF Sound
<1>2. place \in 0 .. c - 1
  BY <1>1, IndexInside
<1>3. Sound(first, num, written, c)
  BY <1>2 DEF Sound
<1>4. loc + 1 \in 1 .. num
  BY <1>1
<1>5. /\ DOMAIN old = 1 .. num
      /\ \A i \in 1 .. num : /\ old[i] = vector[VectorIndex(c, first + (i - 1))]
                             /\ VectorIndex(c, first + (i - 1)) \in 0 .. c - 1
  BY RingIsSequence
<1>a. \A p \in 0 .. c - 1 : written[p] = IF p = place THEN v ELSE vector[p]
  BY DEF Sound
<1> HIDE DEF written
<1>6. \A i \in 1 .. num : new[i] = written[VectorIndex(c, first + (i - 1))]
  BY <1>3, RingIsSequence
<1>7. ASSUME NEW i \in 1 .. num
      PROVE  new[i] = IF i = loc + 1 THEN v ELSE old[i]
  <2>1. i - 1 \in Nat /\ i - 1 < c /\ (i = loc + 1 <=> i - 1 = loc)
    BY <1>1
  <2>2. CASE i - 1 = loc
    <3>1. written[place] = v
      BY <1>2, <1>a
    <3> QED
      BY <1>6, <2>1, <2>2, <3>1
  <2>3. CASE i - 1 # loc
    <3>1. VectorIndex(c, first + (i - 1)) # place
      BY <1>1, <2>1, <2>3, IndexInjective
    <3>2. written[VectorIndex(c, first + (i - 1))] = vector[VectorIndex(c, first + (i - 1))]
      BY <1>5, <1>a, <3>1
    <3> QED
      BY <1>5, <1>6, <2>1, <2>3, <3>2
  <2> QED
    BY <2>2, <2>3
<1>8. new = [old EXCEPT ![loc + 1] = v]
  <2>1. new = [i \in 1 .. num |-> new[i]]
    BY DEF Ring
  <2>2. [old EXCEPT ![loc + 1] = v] = [i \in 1 .. num |-> IF i = loc + 1 THEN v ELSE old[i]]
    BY <1>4, <1>5
  <2> QED
    BY <1>7, <2>1, <2>2
<1> QED
  BY <1>3, <1>4, <1>8 DEF written

-----------------------------------------------------------------------------
(***************************************************************************)
(* The inductive invariant, and what it says of each queue.                *)
(***************************************************************************)
Inv == TypeOK /\ RingSound

Content == [p \in Objects |-> Contents(p)]

LEMMA EachIsSound ==
  ASSUME Inv, NEW q \in Objects
  PROVE  /\ Sound(first_item[q], num_items[q], items[q], capacity[q])
         /\ num_items[q] \in 0 .. MaxItems
         /\ Content[q] = Ring(first_item[q], num_items[q], items[q], capacity[q])
<1>1. /\ first_item[q] \in Nat /\ num_items[q] \in 0 .. MaxItems /\ capacity[q] \in Nat
      /\ items[q] \in [0 .. capacity[q] - 1 -> Values]
      /\ num_items[q] <= capacity[q]
      /\ capacity[q] > 0 => first_item[q] < capacity[q]
  BY DEF Inv, TypeOK, RingSound
<1>2. Sound(first_item[q], num_items[q], items[q], capacity[q])
  BY <1>1, MaxItemsAssumption DEF Sound
<1>3. Content[q] = Ring(first_item[q], num_items[q], items[q], capacity[q])
  BY DEF Content, Contents, Ring, Slot
<1> QED
  BY <1>1, <1>2, <1>3

(* One queue gets sound members: the others keep their items.              *)
LEMMA PutKeepsOthers ==
  ASSUME Inv, NEW q \in Objects, NEW first, NEW num, NEW vector, NEW c,
         Sound(first, num, vector, c), num <= MaxItems,
         Put(q, first, num, vector, c), popped' \in Values
  PROVE  /\ Inv'
         /\ Content' = [Content EXCEPT ![q] = Ring(first, num, vector, c)]
<1>1. /\ first_item \in [Objects -> Nat] /\ num_items \in [Objects -> 0 .. MaxItems]
      /\ capacity \in [Objects -> Nat] /\ DOMAIN items = Objects
  BY DEF Inv, TypeOK
<1>2. /\ first \in Nat /\ num \in 0 .. MaxItems /\ c \in Nat
  BY MaxItemsAssumption DEF Sound
<1>3. /\ first_item' \in [Objects -> Nat] /\ num_items' \in [Objects -> 0 .. MaxItems]
      /\ capacity' \in [Objects -> Nat] /\ DOMAIN items' = Objects
  BY <1>1, <1>2 DEF Put
<1>4. /\ first_item'[q] = first /\ num_items'[q] = num
      /\ items'[q] = vector /\ capacity'[q] = c
  BY <1>1 DEF Put
<1>5. ASSUME NEW r \in Objects, r # q
      PROVE  /\ first_item'[r] = first_item[r] /\ num_items'[r] = num_items[r]
             /\ items'[r] = items[r] /\ capacity'[r] = capacity[r]
  BY <1>1, <1>5 DEF Put
<1>6. ASSUME NEW r \in Objects
      PROVE  Sound(first_item'[r], num_items'[r], items'[r], capacity'[r])
  BY <1>4, <1>5, EachIsSound
<1>7. Inv'
  BY <1>3, <1>6 DEF Inv, TypeOK, RingSound, Sound
<1>8. ASSUME NEW r \in Objects
      PROVE  Contents(r)' = IF r = q THEN Ring(first, num, vector, c) ELSE Contents(r)
  <2>1. Contents(r)' = Ring(first_item'[r], num_items'[r], items'[r], capacity'[r])
    BY DEF Contents, Ring, Slot
  <2>2. Contents(r) = Ring(first_item[r], num_items[r], items[r], capacity[r])
    BY DEF Contents, Ring, Slot
  <2>3. CASE r = q
    BY <1>4, <2>1, <2>3
  <2>4. CASE r # q
    BY <1>5, <2>1, <2>2, <2>4
  <2> QED
    BY <2>3, <2>4
<1>9. Content' = [Content EXCEPT ![q] = Ring(first, num, vector, c)]
  BY <1>8 DEF Content
<1> QED
  BY <1>7, <1>9

-----------------------------------------------------------------------------
(***************************************************************************)
(* Each operation keeps the invariant and is one of Fifo, or a stutter.    *)
(***************************************************************************)
LEMMA ConstructFills ==
  ASSUME Inv, NEW q \in Objects, NEW n \in 0 .. MaxItems, NEW list \in [1 .. n -> Values],
         Construct(q, n, list)
  PROVE  Inv' /\ AbstractFifo!Fill(q, list)
<1> DEFINE vector == [k \in 0 .. n - 1 |-> list[k + 1]]
<1>1. n \in Nat /\ n <= MaxItems
  BY MaxItemsAssumption
<1>2. Sound(0, n, vector, n)
  <2>1. \A k \in 0 .. n - 1 : k + 1 \in 1 .. n
    BY <1>1
  <2>2. vector \in [0 .. n - 1 -> Values]
    BY <2>1
  <2> QED
    BY <1>1, <2>2 DEF Sound
<1>3. popped' = popped /\ popped \in Values
  BY DEF Construct, Inv, TypeOK
<1>4. Inv' /\ Content' = [Content EXCEPT ![q] = Ring(0, n, vector, n)]
  BY <1>1, <1>2, <1>3, PutKeepsOthers DEF Construct
<1>5. Ring(0, n, vector, n) = list
  <2>1. ASSUME NEW i \in 1 .. n
        PROVE  vector[VectorIndex(n, 0 + (i - 1))] = list[i]
    <3>1. /\ VectorIndex(n, 0 + (i - 1)) = i - 1 /\ i - 1 \in 0 .. n - 1
          /\ (i - 1) + 1 = i
      BY <1>1 DEF VectorIndex
    <3> QED
      BY <3>1
  <2> QED
    BY <2>1 DEF Ring
<1> QED
  BY <1>3, <1>4, <1>5 DEF AbstractFifo!Fill, AbstractFifo!Becomes, Content

LEMMA ReserveStutters ==
  ASSUME Inv, NEW q \in Objects, NEW c \in 1 .. MaxItems, Reserve(q, c)
  PROVE  Inv' /\ UNCHANGED AbstractFifo!fifoVars
<1> DEFINE linear == Linear(first_item[q], num_items[q], items[q], capacity[q], c)
<1>1. /\ Sound(first_item[q], num_items[q], items[q], capacity[q])
      /\ num_items[q] <= MaxItems
      /\ Content[q] = Ring(first_item[q], num_items[q], items[q], capacity[q])
  BY EachIsSound, MaxItemsAssumption
<1>2. Relinearised(q, c) = linear
  BY DEF Relinearised, Linear, Slot
<1>3. c \in Nat /\ c > capacity[q]
  BY MaxItemsAssumption DEF Reserve
<1>4. /\ Sound(0, num_items[q], linear, c)
      /\ Ring(0, num_items[q], linear, c) = Content[q]
  BY <1>1, <1>3, RingReserved
<1>5. popped' = popped /\ popped \in Values
  BY DEF Reserve, Inv, TypeOK
<1>6. Put(q, 0, num_items[q], linear, c)
  BY <1>2 DEF Reserve
<1> HIDE DEF linear
<1>7. Inv' /\ Content' = [Content EXCEPT ![q] = Content[q]]
  BY <1>1, <1>4, <1>5, <1>6, PutKeepsOthers
<1>8. Content' = Content
  BY <1>7 DEF Content
<1> QED
  BY <1>5, <1>7, <1>8 DEF AbstractFifo!fifoVars, Content

LEMMA PushBackPushes ==
  ASSUME Inv, NEW q \in Objects, NEW v \in Values, PushBack(q, v)
  PROVE  Inv' /\ AbstractFifo!Push(q, v)
<1> DEFINE first == first_item[q]
           num == num_items[q]
           vector == items[q]
           c == capacity[q]
<1>1. /\ Sound(first, num, vector, c)
      /\ num \in Nat /\ c \in Nat /\ num <= c
      /\ num + 1 <= MaxItems
      /\ Content[q] = Ring(first, num, vector, c)
  BY EachIsSound, MaxItemsAssumption DEF PushBack, Sound
<1>2. popped' = popped /\ popped \in Values
  BY DEF PushBack, Inv, TypeOK
<1>3. Inv' /\ Content' = [Content EXCEPT ![q] = Append(Content[q], v)]
  <2>1. CASE num = c
    <3> DEFINE newc == GrownCapacity(q)
               linear == Linear(first, num, vector, c, newc)
               longer == Stored(linear, num, v)
    <3>1. newc \in Nat /\ newc > c /\ num < newc
      BY <1>1, <2>1 DEF GrownCapacity
    <3>2. Relinearised(q, newc) = linear
      BY DEF Relinearised, Linear, Slot
    <3>3. Put(q, 0, num + 1, longer, newc)
      BY <2>1, <3>2 DEF PushBack, Stored
    <3> HIDE DEF newc
    <3>4. Sound(0, num, linear, newc) /\ Ring(0, num, linear, newc) = Content[q]
      BY <1>1, <3>1, RingReserved
    <3> HIDE DEF linear
    <3>5. VectorIndex(newc, 0 + num) = num
      BY <1>1, <3>1 DEF VectorIndex
    <3>6. /\ Sound(0, num + 1, longer, newc)
          /\ Ring(0, num + 1, longer, newc) = Append(Content[q], v)
      <4>1. /\ Sound(0, num + 1, Stored(linear, VectorIndex(newc, 0 + num), v), newc)
            /\ Ring(0, num + 1, Stored(linear, VectorIndex(newc, 0 + num), v), newc)
                 = Append(Ring(0, num, linear, newc), v)
        BY <3>1, <3>4, RingAppends
      <4> QED
        BY <3>4, <3>5, <4>1
    <3> HIDE DEF longer
    <3> QED
      BY <1>1, <1>2, <3>3, <3>6, PutKeepsOthers
  <2>2. CASE num # c
    <3> DEFINE longer == Stored(vector, VectorIndex(c, first + num), v)
    <3>1. num < c
      BY <1>1, <2>2
    <3>2. Put(q, first, num + 1, longer, c)
      BY <2>2 DEF PushBack, Slot, Stored
    <3>3. /\ Sound(first, num + 1, longer, c)
          /\ Ring(first, num + 1, longer, c) = Append(Content[q], v)
      BY <1>1, <3>1, RingAppends
    <3> HIDE DEF longer
    <3> QED
      BY <1>1, <1>2, <3>2, <3>3, PutKeepsOthers
  <2> QED
    BY <2>1, <2>2
<1> QED
  BY <1>2, <1>3 DEF AbstractFifo!Push, AbstractFifo!Becomes, Content

LEMMA PopFrontPops ==
  ASSUME Inv, NEW q \in Objects, PopFront(q)
  PROVE  Inv' /\ AbstractFifo!Pop(q)
<1> DEFINE first == first_item[q]
           num == num_items[q]
           vector == items[q]
           c == capacity[q]
           next == Following(first, c)
           shorter == Stored(vector, first, Default)
<1>1. /\ Sound(first, num, vector, c)
      /\ num \in Nat /\ num # 0 /\ num - 1 <= MaxItems
      /\ Content[q] = Ring(first, num, vector, c)
  BY EachIsSound, MaxItemsAssumption DEF PopFront, IsEmpty
<1>2. /\ Sound(next, num - 1, shorter, c)
      /\ vector[first] \in Values
      /\ Content[q] # <<>>
      /\ vector[first] = Head(Content[q])
      /\ Ring(next, num - 1, shorter, c) = Tail(Content[q])
  BY <1>1, RingPops
<1>3. Put(q, next, num - 1, shorter, c) /\ popped' = vector[first]
  BY DEF PopFront, Stored, Following
<1> HIDE DEF next, shorter
<1>4. Inv' /\ Content' = [Content EXCEPT ![q] = Tail(Content[q])]
  BY <1>1, <1>2, <1>3, PutKeepsOthers
<1> QED
  BY <1>2, <1>3, <1>4 DEF AbstractFifo!Pop, AbstractFifo!Becomes, Content

LEMMA AssignAtWrites ==
  ASSUME Inv, NEW q \in Objects, NEW v \in Values, NEW loc \in 0 .. MaxItems - 1,
         AssignAt(q, loc, v)
  PROVE  Inv' /\ loc + 1 \in 1 .. Len(Content[q]) /\ AbstractFifo!Write(q, loc + 1, v)
<1> DEFINE first == first_item[q]
           num == num_items[q]
           vector == items[q]
           c == capacity[q]
           written == [vector EXCEPT ![VectorIndex(c, first + loc)] = v]
<1>1. /\ Sound(first, num, vector, c)
      /\ num <= MaxItems
      /\ Content[q] = Ring(first, num, vector, c)
      /\ loc \in Nat /\ loc < num
  BY EachIsSound, MaxItemsAssumption DEF AssignAt
<1>2. /\ Sound(first, num, written, c)
      /\ loc + 1 \in 1 .. num
      /\ Ring(first, num, written, c) = [Content[q] EXCEPT ![loc + 1] = v]
  BY <1>1, RingWritten
<1>3. popped' = popped /\ popped \in Values
  BY DEF AssignAt, Inv, TypeOK
<1>4. Put(q, first, num, written, c)
  <2>1. /\ first_item \in [Objects -> Nat] /\ num_items \in [Objects -> 0 .. MaxItems]
        /\ capacity \in [Objects -> Nat]
    BY DEF Inv, TypeOK
  <2>2. items' = [items EXCEPT ![q] = written]
    BY DEF AssignAt, Slot, Inv, TypeOK
  <2> QED
    BY <2>1, <2>2 DEF Put, AssignAt
<1>5. Len(Content[q]) = num
  BY <1>1, RingIsSequence
<1> HIDE DEF written
<1>6. Inv' /\ Content' = [Content EXCEPT ![q] = [Content[q] EXCEPT ![loc + 1] = v]]
  BY <1>1, <1>2, <1>3, <1>4, PutKeepsOthers
<1> QED
  BY <1>2, <1>3, <1>5, <1>6 DEF AbstractFifo!Write, AbstractFifo!Becomes, Content

LEMMA ClearFills ==
  ASSUME Inv, NEW q \in Objects, Clear(q)
  PROVE  Inv' /\ AbstractFifo!Fill(q, <<>>)
<1>1. NoItems \in [0 .. 0 - 1 -> Values]
  BY DEF NoItems
<1>2. Sound(0, 0, NoItems, 0)
  BY <1>1 DEF Sound
<1>3. popped' = popped /\ popped \in Values /\ 0 <= MaxItems
  BY MaxItemsAssumption DEF Clear, Inv, TypeOK
<1>4. Inv' /\ Content' = [Content EXCEPT ![q] = Ring(0, 0, NoItems, 0)]
  BY <1>2, <1>3, PutKeepsOthers DEF Clear
<1>5. Ring(0, 0, NoItems, 0) = <<>>
  BY DEF Ring
<1> QED
  BY <1>3, <1>4, <1>5 DEF AbstractFifo!Fill, AbstractFifo!Becomes, Content

LEMMA CopyAssignCopies ==
  ASSUME Inv, NEW p \in Objects, NEW q \in Objects, CopyAssign(p, q)
  PROVE  Inv' /\ AbstractFifo!Copy(p, q)
<1>1. /\ Sound(first_item[p], num_items[p], items[p], capacity[p])
      /\ num_items[p] <= MaxItems
      /\ Content[p] = Ring(first_item[p], num_items[p], items[p], capacity[p])
  BY EachIsSound, MaxItemsAssumption
<1>2. popped' = popped /\ popped \in Values
  BY DEF CopyAssign, Inv, TypeOK
<1>3. Inv' /\ Content' = [Content EXCEPT ![q] = Content[p]]
  BY <1>1, <1>2, PutKeepsOthers DEF CopyAssign
<1> QED
  BY <1>2, <1>3 DEF AbstractFifo!Copy, AbstractFifo!Becomes, Content

(* The queue moved from is sound too: its front points nowhere, which the  *)
(* invariant allows of a queue without a vector.                           *)
LEMMA MoveAssignMoves ==
  ASSUME Inv, NEW p \in Objects, NEW q \in Objects, MoveAssign(p, q)
  PROVE  Inv' /\ AbstractFifo!Move(p, q)
<1>1. p # q /\ popped' = popped /\ popped \in Values
  BY DEF MoveAssign, Inv, TypeOK
<1>2. /\ first_item \in [Objects -> Nat] /\ num_items \in [Objects -> 0 .. MaxItems]
      /\ capacity \in [Objects -> Nat] /\ DOMAIN items = Objects
  BY DEF Inv, TypeOK
<1>3. /\ first_item' \in [Objects -> Nat] /\ num_items' \in [Objects -> 0 .. MaxItems]
      /\ capacity' \in [Objects -> Nat] /\ DOMAIN items' = Objects
  BY <1>2, MaxItemsAssumption DEF MoveAssign
<1>4. /\ first_item'[q] = first_item[p] /\ num_items'[q] = num_items[p]
      /\ items'[q] = items[p] /\ capacity'[q] = capacity[p]
      /\ first_item'[p] = first_item[p] /\ num_items'[p] = 0
      /\ items'[p] = NoItems /\ capacity'[p] = 0
  BY <1>1, <1>2 DEF MoveAssign
<1>5. ASSUME NEW r \in Objects, r # p, r # q
      PROVE  /\ first_item'[r] = first_item[r] /\ num_items'[r] = num_items[r]
             /\ items'[r] = items[r] /\ capacity'[r] = capacity[r]
  BY <1>2, <1>5 DEF MoveAssign
<1>6. Sound(first_item[p], 0, NoItems, 0)
  <2>1. NoItems \in [0 .. 0 - 1 -> Values]
    BY DEF NoItems
  <2> QED
    BY <1>2, <2>1 DEF Sound
<1>7. ASSUME NEW r \in Objects
      PROVE  Sound(first_item'[r], num_items'[r], items'[r], capacity'[r])
  BY <1>4, <1>5, <1>6, EachIsSound
<1>8. Inv'
  BY <1>1, <1>3, <1>7 DEF Inv, TypeOK, RingSound, Sound
<1>9. ASSUME NEW r \in Objects
      PROVE  Contents(r)' = IF r = p THEN <<>> ELSE IF r = q THEN Contents(p) ELSE Contents(r)
  <2>1. Contents(r)' = Ring(first_item'[r], num_items'[r], items'[r], capacity'[r])
    BY DEF Contents, Ring, Slot
  <2>2. /\ Contents(r) = Ring(first_item[r], num_items[r], items[r], capacity[r])
        /\ Contents(p) = Ring(first_item[p], num_items[p], items[p], capacity[p])
    BY DEF Contents, Ring, Slot
  <2>3. CASE r = p
    <3>1. Ring(first_item[p], 0, NoItems, 0) = <<>>
      BY DEF Ring
    <3> QED
      BY <1>4, <2>1, <2>3, <3>1
  <2>4. CASE r = q
    BY <1>1, <1>4, <2>1, <2>2, <2>4
  <2>5. CASE r # p /\ r # q
    BY <1>5, <2>1, <2>2, <2>5
  <2> QED
    BY <2>3, <2>4, <2>5
<1>10. Content' = [Content EXCEPT ![q] = Content[p], ![p] = <<>>]
  BY <1>1, <1>9 DEF Content
<1> QED
  BY <1>1, <1>8, <1>10 DEF AbstractFifo!Move, Content

-----------------------------------------------------------------------------
LEMMA InitInv == Init => Inv /\ AbstractFifo!Init
<1> SUFFICES ASSUME Init PROVE Inv /\ AbstractFifo!Init
  OBVIOUS
<1>1. NoItems \in [0 .. 0 - 1 -> Values]
  BY DEF NoItems
<1>2. Inv
  BY <1>1, MaxItemsAssumption, DefaultAssumption DEF Init, Inv, TypeOK, RingSound
<1>3. ASSUME NEW q \in Objects
      PROVE  Contents(q) = <<>>
  BY DEF Init, Contents
<1> QED
  BY <1>2, <1>3, DefaultAssumption DEF Init, AbstractFifo!Init

LEMMA NextInv ==
  Inv /\ [Next]_vars => Inv' /\ [AbstractFifo!Next]_(AbstractFifo!fifoVars)
<1> SUFFICES ASSUME Inv, [Next]_vars
             PROVE  Inv' /\ [AbstractFifo!Next]_(AbstractFifo!fifoVars)
  OBVIOUS
<1>1. ASSUME NEW q \in Objects, NEW n \in 0 .. MaxItems, NEW list \in [1 .. n -> Values],
             Construct(q, n, list)
      PROVE  Inv' /\ AbstractFifo!Next
  BY <1>1, ConstructFills DEF AbstractFifo!Next
<1>2. ASSUME NEW q \in Objects, NEW c \in 1 .. MaxItems, Reserve(q, c)
      PROVE  Inv' /\ UNCHANGED AbstractFifo!fifoVars
  BY <1>2, ReserveStutters
<1>3. ASSUME NEW q \in Objects, NEW v \in Values, PushBack(q, v)
      PROVE  Inv' /\ AbstractFifo!Next
  BY <1>3, PushBackPushes DEF AbstractFifo!Next
<1>4. ASSUME NEW q \in Objects, PopFront(q)
      PROVE  Inv' /\ AbstractFifo!Next
  BY <1>4, PopFrontPops DEF AbstractFifo!Next
<1>5. ASSUME NEW q \in Objects, NEW v \in Values, NEW loc \in 0 .. MaxItems - 1,
             AssignAt(q, loc, v)
      PROVE  Inv' /\ AbstractFifo!Next
  BY <1>5, AssignAtWrites DEF AbstractFifo!Next, Content
<1>6. ASSUME NEW q \in Objects, Clear(q)
      PROVE  Inv' /\ AbstractFifo!Next
  <2>1. 0 \in 0 .. MaxItems /\ <<>> \in [1 .. 0 -> Values]
    BY MaxItemsAssumption
  <2> QED
    BY <1>6, <2>1, ClearFills DEF AbstractFifo!Next
<1>7. ASSUME NEW p \in Objects, NEW q \in Objects, CopyAssign(p, q)
      PROVE  Inv' /\ AbstractFifo!Next
  BY <1>7, CopyAssignCopies DEF AbstractFifo!Next
<1>8. ASSUME NEW p \in Objects, NEW q \in Objects, MoveAssign(p, q)
      PROVE  Inv' /\ AbstractFifo!Next
  BY <1>8, MoveAssignMoves DEF AbstractFifo!Next
<1>9. CASE UNCHANGED vars
  BY <1>9 DEF vars, Inv, TypeOK, RingSound, AbstractFifo!fifoVars, Contents, Slot
<1> QED
  BY <1>1, <1>2, <1>3, <1>4, <1>5, <1>6, <1>7, <1>8, <1>9 DEF Next

(* Every index is inside the vector, after any sequence of operations on   *)
(* any number of queues, moved-from ones included.                         *)
THEOREM IndicesStayInside == Spec => []RingSound
<1>1. Inv => RingSound
  BY DEF Inv
<1> QED
  BY InitInv, NextInv, <1>1, PTL DEF Spec

(* The ring is a first-in first-out sequence: push_back, pop_front, writing *)
(* through references, copying, moving and clearing do to it what they     *)
(* would do to a sequence, and growing the vector does nothing.            *)
THEOREM RingIsFifo == Spec => ImplementsFifo
<1>1. Inv => LikeSequences
  <2> SUFFICES ASSUME Inv PROVE LikeSequences
    OBVIOUS
  <2>1. ASSUME NEW q \in Objects
        PROVE  /\ \A n \in 0 .. MaxItems : \A list \in [1 .. n -> Values] :
                    Construct(q, n, list) => AbstractFifo!Fill(q, list)
               /\ \A c \in 1 .. MaxItems : Reserve(q, c) => UNCHANGED AbstractFifo!fifoVars
               /\ \A v \in Values : PushBack(q, v) => AbstractFifo!Push(q, v)
    BY ConstructFills, ReserveStutters, PushBackPushes
  <2>2. ASSUME NEW q \in Objects
        PROVE  /\ PopFront(q) => AbstractFifo!Pop(q)
               /\ \A v \in Values, loc \in 0 .. MaxItems - 1 :
                    AssignAt(q, loc, v) => AbstractFifo!Write(q, loc + 1, v)
               /\ Clear(q) => AbstractFifo!Fill(q, <<>>)
    BY PopFrontPops, AssignAtWrites, ClearFills
  <2>3. ASSUME NEW p \in Objects, NEW q \in Objects
        PROVE  /\ CopyAssign(p, q) => AbstractFifo!Copy(p, q)
               /\ MoveAssign(p, q) => AbstractFifo!Move(p, q)
    BY CopyAssignCopies, MoveAssignMoves
  <2> QED
    BY <2>1, <2>2, <2>3 DEF LikeSequences
<1> QED
  BY InitInv, NextInv, <1>1, PTL DEF Spec, ImplementsFifo
=============================================================================
