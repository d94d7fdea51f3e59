---------------------------- MODULE SplitsProofs -----------------------------
(***************************************************************************)
(* Lemmas about get_splits: its spans follow each other without a gap,     *)
(* none is empty, and together they are the whole range.                   *)
(***************************************************************************)
EXTENDS Splits, TLAPS

(* What the division gives, under names for the provers. *)
LEMMA BaseAndRest ==
  ASSUME NEW total \in Nat, NEW num_splits \in Nat \ {0}, num_splits <= total
  PROVE  /\ BaseSpanSize(total, num_splits) \in Nat \ {0}
         /\ NumLargerSpans(total, num_splits) \in 0 .. num_splits - 1
         /\ total = num_splits * BaseSpanSize(total, num_splits)
                      + NumLargerSpans(total, num_splits)
<1> DEFINE base == total \div num_splits
           larger == total % num_splits
<1>1. base \in Int /\ larger \in 0 .. num_splits - 1 /\ total = num_splits * base + larger
  OBVIOUS
<1>2. base \in Nat \ {0}
  <2>1. SUFFICES ASSUME base <= 0 PROVE FALSE
    BY <1>1
  <2> HIDE DEF base, larger
  <2>2. num_splits * base <= 0
    BY <1>1, <2>1
  <2> QED
    BY <1>1, <2>2
<1> QED
  BY <1>1, <1>2 DEF BaseSpanSize, NumLargerSpans

(* Every span starts where the one before it ends. *)
LEMMA SpansAdjacent ==
  ASSUME NEW total \in Nat, NEW num_splits \in Nat \ {0}, num_splits <= total,
         NEW i \in 0 .. num_splits - 1
  PROVE  /\ SpanStart(total, num_splits, i) \in Nat
         /\ SpanSize(total, num_splits, i) \in Nat \ {0}
         /\ SpanStart(total, num_splits, i + 1)
              = SpanStart(total, num_splits, i) + SpanSize(total, num_splits, i)
<1> DEFINE base == BaseSpanSize(total, num_splits)
           larger == NumLargerSpans(total, num_splits)
<1>1. base \in Nat \ {0} /\ larger \in 0 .. num_splits - 1
  BY BaseAndRest
<1> HIDE DEF base, larger
<1>2. i * base \in Nat /\ (i + 1) * base = i * base + base
  BY <1>1
<1> QED
  BY <1>1, <1>2 DEF SpanStart, SpanSize, base, larger

(* Spans with a higher number start behind those with a lower one. *)
LEMMA SpansOrdered ==
  ASSUME NEW total \in Nat, NEW num_splits \in Nat \ {0}, num_splits <= total,
         NEW i \in 0 .. num_splits - 1, NEW j \in 0 .. num_splits, i < j
  PROVE  SpanStart(total, num_splits, i) + SpanSize(total, num_splits, i)
           <= SpanStart(total, num_splits, j)
<1> DEFINE base == BaseSpanSize(total, num_splits)
           larger == NumLargerSpans(total, num_splits)
<1>1. base \in Nat \ {0} /\ larger \in 0 .. num_splits - 1
  BY BaseAndRest
<1> HIDE DEF base, larger
<1>2. i * base \in Nat /\ j * base \in Nat /\ i * base + base <= j * base
  <2>1. j * base = (i + 1) * base + (j - (i + 1)) * base
    BY <1>1
  <2>2. (j - (i + 1)) \in Nat /\ (j - (i + 1)) * base \in Nat
    BY <1>1
  <2>3. (i + 1) * base = i * base + base /\ i * base \in Nat
    BY <1>1
  <2> QED
    BY <1>1, <2>1, <2>2, <2>3
<1> QED
  BY <1>1, <1>2 DEF SpanStart, SpanSize, base, larger

(* The first span starts at 0 and the last one ends at total. *)
LEMMA SpansFit ==
  ASSUME NEW total \in Nat, NEW num_splits \in Nat \ {0}, num_splits <= total
  PROVE  /\ SpanStart(total, num_splits, 0) = 0
         /\ SpanStart(total, num_splits, num_splits) = total
<1> DEFINE base == BaseSpanSize(total, num_splits)
           larger == NumLargerSpans(total, num_splits)
<1>1. base \in Nat \ {0} /\ larger \in 0 .. num_splits - 1 /\ total = num_splits * base + larger
  BY BaseAndRest
<1> HIDE DEF base, larger
<1>2. 0 * base = 0
  BY <1>1
<1> QED
  BY <1>1, <1>2 DEF SpanStart, base, larger

LEMMA SpanInside ==
  ASSUME NEW total \in Nat, NEW num_splits \in Nat \ {0}, num_splits <= total,
         NEW i \in 0 .. num_splits - 1
  PROVE  SpanStart(total, num_splits, i) + SpanSize(total, num_splits, i) <= total
<1>1. SpanStart(total, num_splits, i) + SpanSize(total, num_splits, i)
        <= SpanStart(total, num_splits, num_splits)
  BY SpansOrdered
<1> QED
  BY <1>1, SpansFit

(* No item is in two spans. *)
LEMMA SpansApart ==
  ASSUME NEW total \in Nat, NEW num_splits \in Nat \ {0}, num_splits <= total,
         NEW i \in 0 .. num_splits - 1, NEW j \in 0 .. num_splits - 1,
         NEW k \in 0 .. SpanSize(total, num_splits, i) - 1,
         NEW m \in 0 .. SpanSize(total, num_splits, j) - 1,
         SpanStart(total, num_splits, i) + k = SpanStart(total, num_splits, j) + m
  PROVE  i = j /\ k = m
<1>1. /\ SpanStart(total, num_splits, i) \in Nat /\ SpanSize(total, num_splits, i) \in Nat
      /\ SpanStart(total, num_splits, j) \in Nat /\ SpanSize(total, num_splits, j) \in Nat
  BY SpansAdjacent
<1>2. i < j => SpanStart(total, num_splits, i) + SpanSize(total, num_splits, i)
                 <= SpanStart(total, num_splits, j)
  BY SpansOrdered
<1>3. j < i => SpanStart(total, num_splits, j) + SpanSize(total, num_splits, j)
                 <= SpanStart(total, num_splits, i)
  BY SpansOrdered
<1> QED
  BY <1>1, <1>2, <1>3

(* A quotient by size and its rest. *)
LEMMA Quotient ==
  ASSUME NEW e \in Nat, NEW size \in Nat \ {0}
  PROVE  \E q \in Nat, rest \in 0 .. size - 1 : e = q * size + rest
<1>1. e \div size \in Int /\ e % size \in 0 .. size - 1
  OBVIOUS
<1>2. e = size * (e \div size) + (e % size)
  OBVIOUS
<1>3. PICK q \in Int, rest \in 0 .. size - 1 : e = size * q + rest
  BY <1>1, <1>2
<1>4. q >= 0
  <2>1. SUFFICES ASSUME q <= -1 PROVE FALSE
    BY <1>3
  <2>2. size * q <= -size
    BY <1>3, <2>1
  <2> QED
    BY <1>3, <2>2
<1>5. size * q = q * size
  BY <1>3
<1> QED
  BY <1>3, <1>4, <1>5

(* Every item is in some span: the larger spans come first. *)
LEMMA SpansCover ==
  ASSUME NEW total \in Nat, NEW num_splits \in Nat \ {0}, num_splits <= total,
         NEW e \in 0 .. total - 1
  PROVE  \E i \in 0 .. num_splits - 1, k \in Nat :
           /\ k < SpanSize(total, num_splits, i)
           /\ e = SpanStart(total, num_splits, i) + k
<1> DEFINE base == BaseSpanSize(total, num_splits)
           larger == NumLargerSpans(total, num_splits)
           inLarger == larger * (base + 1)
<1>1. base \in Nat \ {0} /\ larger \in 0 .. num_splits - 1 /\ total = num_splits * base + larger
  BY BaseAndRest
<1>2. \A i \in 0 .. num_splits - 1 :
        /\ SpanSize(total, num_splits, i) = base + (IF i < larger THEN 1 ELSE 0)
        /\ SpanStart(total, num_splits, i) = i * base + (IF i < larger THEN i ELSE larger)
  BY DEF SpanSize, SpanStart
<1> HIDE DEF base, larger
<1>3. inLarger \in Nat /\ inLarger = larger * base + larger
  BY <1>1
<1>4. CASE e < inLarger
  <2> DEFINE size == base + 1
  <2>a. size \in Nat \ {0} /\ e \in Nat
    BY <1>1
  <2> HIDE DEF size
  <2>b. PICK i \in Nat, k \in 0 .. size - 1 : e = i * size + k
    BY <2>a, Quotient
  <2>1. k \in 0 .. base /\ e = i * (base + 1) + k
    BY <1>1, <2>b DEF size
  <2>2. i < larger
    <3>1. SUFFICES ASSUME i >= larger PROVE FALSE
      BY <1>1, <2>1
    <3>2. i * (base + 1) = larger * (base + 1) + (i - larger) * (base + 1)
      BY <1>1, <2>1
    <3>3. (i - larger) * (base + 1) \in Nat
      BY <1>1, <2>1, <3>1
    <3> QED
      BY <1>1, <1>3, <1>4, <2>1, <3>2, <3>3
  <2>3. i \in 0 .. num_splits - 1 /\ i * (base + 1) = i * base + i
    BY <1>1, <2>1, <2>2
  <2>4. SpanSize(total, num_splits, i) = base + 1 /\ SpanStart(total, num_splits, i) = i * base + i
    BY <1>1, <1>2, <2>2, <2>3
  <2>5. k \in Nat /\ k < base + 1 /\ e = (i * base + i) + k
    BY <1>1, <2>1, <2>3
  <2> QED
    BY <2>3, <2>4, <2>5
<1>5. CASE e >= inLarger
  <2> DEFINE d == e - inLarger
  <2>1. d \in Nat
    BY <1>1, <1>3, <1>5
  <2>2. PICK j \in Nat, k \in 0 .. base - 1 : d = j * base + k
    BY <1>1, <2>1, Quotient
  <2> DEFINE i == larger + j
  <2>3. i \in Nat /\ i * base = larger * base + j * base
    BY <1>1, <2>2
  <2>4. i < num_splits
    <3>1. SUFFICES ASSUME i >= num_splits PROVE FALSE
      BY <1>1, <2>3
    <3>2. i * base = num_splits * base + (i - num_splits) * base
      BY <1>1, <2>3
    <3>3. (i - num_splits) * base \in Nat
      BY <1>1, <2>3, <3>1
    <3> QED
      BY <1>1, <1>3, <2>1, <2>2, <2>3, <3>2, <3>3
  <2>5. e = i * base + larger + k
    BY <1>1, <1>3, <2>2, <2>3
  <2>6. i \in 0 .. num_splits - 1 /\ ~ (i < larger)
    BY <1>1, <2>2, <2>4
  <2>7. SpanSize(total, num_splits, i) = base /\ SpanStart(total, num_splits, i) = i * base + larger
    BY <1>1, <1>2, <2>6
  <2>8. k \in Nat /\ k < base
    BY <1>1
  <2> QED
    BY <2>5, <2>6, <2>7, <2>8
<1> QED
  BY <1>1, <1>3, <1>4, <1>5
=============================================================================
