----------------------- MODULE ActionSelectionProofs -----------------------
(***************************************************************************)
(* Theorems about ActionSelection, for any allowed actions, any answer of  *)
(* the policy, any returns and any number M of replications.               *)
(*                                                                         *)
(* SelectionInv is the inductive invariant.  Its hardest parts say that    *)
(* halving ends when one action is left and not before (Schedule: the      *)
(* rounds to go are those the number left needs), that who is dismissed    *)
(* lost to each that is left on the results both have (Beaten), and that   *)
(* the rounds so far have spent at most their shares (Spent).              *)
(* The number of rounds counts the powers of two below a number, since the *)
(* provers have no theory of exponents; halving a number, rounded up,      *)
(* takes one off (RoundsOfHalf).  A sum of results is a fold: that it is a *)
(* number at all (SumIsNumber) is proved with the least counterexample of  *)
(* FirstFailure, the form of induction that these provers can use.         *)
(***************************************************************************)
EXTENDS ActionSelection, FiniteSetTheorems, WellFoundedInduction, TLAPS

-----------------------------------------------------------------------------
(***************************************************************************)
(* Operators.                                                              *)
(***************************************************************************)
(* A non-empty set of naturals has a least member, so that what fails for  *)
(* some number fails for a first one.                                      *)
LEMMA FirstFailure ==
  ASSUME NEW S, S \subseteq Nat, S # {}
  PROVE  \E x \in S : \A y \in S : x <= y
<1> DEFINE Lt == {p \in Nat \X Nat : p[1] < p[2]}
<1>1. OpToRel(<, Nat) = Lt
  BY DEF OpToRel
<1>2. IsWellFoundedOn(Lt, Nat)
  BY <1>1, NatLessThanWellFounded
<1> HIDE DEF Lt
<1>3. PICK x \in S : \A y \in S : ~(<<y, x>> \in Lt)
  BY <1>2, WFMin
<1>4. ASSUME NEW y \in S PROVE x <= y
  <2>1. x \in Nat /\ y \in Nat /\ <<y, x>> \notin Lt
    BY <1>3
  <2>2. y < x => <<y, x>> \in Lt
    BY <2>1 DEF Lt
  <2> QED
    BY <2>1, <2>2
<1>5. QED
  BY <1>4

LEMMA UpTo ==
  ASSUME NEW n \in Nat
  PROVE  IsFiniteSet(1 .. n) /\ Cardinality(1 .. n) = n
<1>1. 1 \in Int /\ n \in Int /\ (1 > n => n = 0) /\ n - 1 + 1 = n
  OBVIOUS
<1> QED
  BY <1>1, FS_Interval

(* The largest of a finite set of numbers. *)
LEMMA MaxIsMember ==
  ASSUME NEW n \in Nat, NEW s \in SUBSET (1 .. n), s # {}
  PROVE  Max(s) \in s
<1> DEFINE up == {m \in Nat : \A x \in s : x <= m}
<1>1. n \in up
  OBVIOUS
<1>2. PICK m \in up : \A y \in up : m <= y
  <2> HIDE DEF up
  <2>1. up \subseteq Nat
    BY DEF up
  <2> QED
    BY <1>1, <2>1, FirstFailure
<1>3. m \in s
  <2> SUFFICES ASSUME m \notin s PROVE FALSE
    OBVIOUS
  <2>1. \A x \in s : x <= m - 1
    BY <1>2
  <2>2. m \in Nat /\ m >= 1
    <3>1. PICK x \in s : TRUE
      OBVIOUS
    <3>2. m \in Nat /\ x \in 1 .. n /\ x <= m
      BY <1>2, <3>1
    <3> QED
      BY <3>2
  <2>3. m - 1 \in up
    BY <2>1, <2>2
  <2> HIDE DEF up
  <2> QED
    BY <1>2, <2>2, <2>3
<1>4. QED
  BY <1>2, <1>3 DEF Max

(* What Sum folds. *)
Partial(r, f) ==
  f = [s \in SUBSET DOMAIN r |-> IF s = {} THEN 0 ELSE f[s \ {Max(s)}] + r[Max(s)].return]

LEMMA SumUnfolded ==
  ASSUME NEW r
  PROVE  Sum(r) = (CHOOSE f : Partial(r, f))[DOMAIN r]
BY DEF Sum, FoldLeft, MapThenFoldSet, Partial

(* The fold is defined: on the sets of at most n positions, for every n.   *)
LEMMA PartialExists ==
  ASSUME NEW r, NEW N \in Nat, DOMAIN r = 1 .. N, \A i \in 1 .. N : r[i].return \in Int
  PROVE  \E f \in [SUBSET (1 .. N) -> Int] : Partial(r, f)
<1> DEFINE Small(n) == {s \in SUBSET (1 .. N) : Cardinality(s) <= n}
           Fold(n, f) == \A s \in Small(n) :
                           f[s] = IF s = {} THEN 0 ELSE f[s \ {Max(s)}] + r[Max(s)].return
           Bad == {n \in Nat : ~ \E f \in [Small(n) -> Int] : Fold(n, f)}
<1>1. \A s \in SUBSET (1 .. N) : IsFiniteSet(s) /\ Cardinality(s) \in Nat /\ Cardinality(s) <= N
  BY UpTo, FS_Subset, FS_CardinalityType
<1>2. ASSUME NEW s \in SUBSET (1 .. N), s # {}
      PROVE  /\ s \ {Max(s)} \in SUBSET (1 .. N) /\ r[Max(s)].return \in Int
             /\ Cardinality(s \ {Max(s)}) = Cardinality(s) - 1
  BY <1>1, <1>2, MaxIsMember, FS_RemoveElement
<1>3. Bad = {}
  <2> SUFFICES ASSUME Bad # {} PROVE FALSE
    OBVIOUS
  <2>1. PICK n \in Bad : \A m \in Bad : n <= m
    <3>1. Bad \subseteq Nat
      OBVIOUS
    <3> HIDE DEF Bad
    <3> QED
      BY <3>1, FirstFailure
  <2>2. n # 0
    <3> SUFFICES ASSUME n = 0 PROVE FALSE
      OBVIOUS
    <3>1. Small(0) = {{}}
      <4>1. \A s \in Small(0) : s = {}
        BY <1>1, FS_EmptySet
      <4>2. {} \in Small(0)
        BY FS_EmptySet
      <4> HIDE DEF Small
      <4> QED
        BY <4>1, <4>2
    <3>2. [s \in Small(0) |-> 0] \in [Small(0) -> Int] /\ Fold(0, [s \in Small(0) |-> 0])
      <4> HIDE DEF Small
      <4> QED BY <3>1
    <3> QED
      BY <3>2
  <2>3. PICK g \in [Small(n - 1) -> Int] : Fold(n - 1, g)
    <3>1. n - 1 \in Nat /\ n - 1 \notin Bad
      <4>1. n \in Nat /\ n - 1 \in Nat /\ ~(n <= n - 1)
        BY <2>2
      <4> HIDE DEF Bad
      <4> QED
        BY <2>1, <4>1
    <3> QED
      BY <3>1
  <2> DEFINE h == [s \in Small(n) |->
                     IF s = {} THEN 0 ELSE g[s \ {Max(s)}] + r[Max(s)].return]
  <2>4. n \in Nat /\ n - 1 \in Nat
    BY <2>2
  <2>5. ASSUME NEW s \in Small(n), s # {}
        PROVE  s \ {Max(s)} \in Small(n - 1) /\ r[Max(s)].return \in Int
    <3>1. Cardinality(s) \in Nat /\ Cardinality(s) <= n
      BY <1>1
    <3>2. /\ s \ {Max(s)} \in SUBSET (1 .. N) /\ r[Max(s)].return \in Int
          /\ Cardinality(s \ {Max(s)}) = Cardinality(s) - 1
      BY <1>2, <2>5
    <3>3. Cardinality(s \ {Max(s)}) <= n - 1
      BY <2>4, <3>1, <3>2
    <3> QED
      BY <3>2, <3>3
  <2>6. h \in [Small(n) -> Int]
    <3> HIDE DEF Small
    <3> QED BY <2>3, <2>5
  <2>7. ASSUME NEW s \in Small(n - 1) PROVE s \in Small(n) /\ h[s] = g[s]
    <3>1. s \in Small(n)
      BY <1>1, <2>4
    <3>2. g[s] = IF s = {} THEN 0 ELSE g[s \ {Max(s)}] + r[Max(s)].return
      BY <2>3
    <3> HIDE DEF Small
    <3> QED
      BY <3>1, <3>2
  <2>8. Fold(n, h)
    <3> SUFFICES ASSUME NEW s \in Small(n)
                 PROVE  h[s] = IF s = {} THEN 0 ELSE h[s \ {Max(s)}] + r[Max(s)].return
      OBVIOUS
    <3>1. CASE s = {}
      <4> HIDE DEF Small
      <4> QED BY <3>1
    <3>2. CASE s # {}
      <4>1. h[s] = g[s \ {Max(s)}] + r[Max(s)].return
        <5> HIDE DEF Small
        <5> QED BY <3>2
      <4>2. h[s \ {Max(s)}] = g[s \ {Max(s)}]
        BY <2>5, <2>7, <3>2
      <4> QED
        BY <3>2, <4>1, <4>2
    <3> QED
      BY <3>1, <3>2
  <2> HIDE DEF h, Small, Fold
  <2> QED
    BY <2>6, <2>8
<1>4. PICK f \in [Small(N) -> Int] : Fold(N, f)
  BY <1>3
<1>5. Small(N) = SUBSET (1 .. N)
  BY <1>1
<1>6. f \in [SUBSET (1 .. N) -> Int]
  BY <1>5
<1>7. f = [s \in SUBSET (1 .. N) |-> IF s = {} THEN 0 ELSE f[s \ {Max(s)}] + r[Max(s)].return]
  <2>1. \A s \in SUBSET (1 .. N) :
          f[s] = IF s = {} THEN 0 ELSE f[s \ {Max(s)}] + r[Max(s)].return
    BY <1>4, <1>5
  <2> QED
    BY <1>6, <2>1
<1>8. QED
  BY <1>6, <1>7 DEF Partial

(* Whatever function the fold is, it is a number everywhere. *)
LEMMA SumIsNumber ==
  ASSUME NEW r, NEW N \in Nat, DOMAIN r = 1 .. N, \A i \in 1 .. N : r[i].return \in Int
  PROVE  Sum(r) \in Int
<1> DEFINE f == CHOOSE f : Partial(r, f)
<1>1. Partial(r, f)
  BY PartialExists
<1> HIDE DEF f
<1> DEFINE Bad == {n \in Nat : \E s \in SUBSET (1 .. N) : Cardinality(s) = n /\ f[s] \notin Int}
<1>2. \A s \in SUBSET (1 .. N) : IsFiniteSet(s) /\ Cardinality(s) \in Nat
  BY UpTo, FS_Subset, FS_CardinalityType
<1>3. \A s \in SUBSET (1 .. N) : f[s] = IF s = {} THEN 0 ELSE f[s \ {Max(s)}] + r[Max(s)].return
  BY <1>1 DEF Partial
<1>4. Bad = {}
  <2> SUFFICES ASSUME Bad # {} PROVE FALSE
    OBVIOUS
  <2>1. PICK n \in Bad : \A m \in Bad : n <= m
    <3>1. Bad \subseteq Nat
      OBVIOUS
    <3> HIDE DEF Bad
    <3> QED
      BY <3>1, FirstFailure
  <2>2. PICK s \in SUBSET (1 .. N) : Cardinality(s) = n /\ f[s] \notin Int
    OBVIOUS
  <2>3. s # {}
    <3>1. s = {} => f[s] = 0
      BY <1>3
    <3>2. 0 \in Int
      OBVIOUS
    <3> QED
      BY <2>2, <3>1, <3>2, Zenon
  <2> DEFINE t == s \ {Max(s)}
  <2>4. /\ t \in SUBSET (1 .. N) /\ r[Max(s)].return \in Int
        /\ Cardinality(t) = Cardinality(s) - 1
    BY <1>2, <2>3, MaxIsMember, FS_RemoveElement
  <2>5. f[s] = f[t] + r[Max(s)].return
    BY <1>3, <2>3
  <2> HIDE DEF t
  <2>6. f[t] \notin Int
    BY <2>2, <2>4, <2>5
  <2>7. Cardinality(t) \in Nat /\ Cardinality(t) \in Bad
    BY <1>2, <2>4, <2>6
  <2>8. n <= Cardinality(t) /\ n \in Nat /\ Cardinality(t) = n - 1
    BY <2>1, <2>2, <2>4, <2>7
  <2> HIDE DEF Bad
  <2> QED
    BY <2>7, <2>8
<1>5. f[1 .. N] \in Int
  <2>1. 1 .. N \in SUBSET (1 .. N)
    OBVIOUS
  <2>2. Cardinality(1 .. N) \in Nat
    BY <1>2, <2>1
  <2> QED
    BY <1>4, <2>1, <2>2
<1>6. QED
  BY <1>5, SumUnfolded DEF f

-----------------------------------------------------------------------------
(* A product of naturals that is positive is at least each factor. *)
LEMMA FactorsBelow ==
  ASSUME NEW d \in Nat \ {0}, NEW e \in Nat \ {0}
  PROVE  d <= d * e /\ e <= d * e /\ d * e \in Nat \ {0}
<1>1. e - 1 \in Nat /\ d - 1 \in Nat
  OBVIOUS
<1>2. d * (e - 1) >= 0 /\ e * (d - 1) >= 0
  BY <1>1
<1>3. d * (e - 1) = d * e - d /\ e * (d - 1) = d * e - e
  OBVIOUS
<1>4. d * e \in Int
  OBVIOUS
<1>5. QED
  BY <1>2, <1>3, <1>4

(* Every number is even or odd. *)
LEMMA EvenOrOdd ==
  ASSUME NEW n \in Nat
  PROVE  /\ n % 2 = 0 \/ n % 2 = 1
         /\ n % 2 = 0 <=> \E h \in Nat : n = 2 * h
         /\ n % 2 = 1 <=> \E h \in Nat : n = 2 * h + 1
<1>1. n \div 2 \in Nat /\ n % 2 \in 0 .. 1 /\ n = 2 * (n \div 2) + (n % 2)
  OBVIOUS
<1>2. ASSUME NEW h \in Nat, n = 2 * h PROVE n % 2 = 0
  BY <1>2
<1>3. ASSUME NEW h \in Nat, n = 2 * h + 1 PROVE n % 2 = 1
  BY <1>3
<1>4. QED
  BY <1>1, <1>2, <1>3

LEMMA OnePower == PowerOfTwo(1)
BY DEF PowerOfTwo

(* The double of a power of two is one: an odd factor of the double would  *)
(* be a factor of the power.                                               *)
LEMMA DoublePower ==
  ASSUME NEW q \in Nat \ {0}, PowerOfTwo(q)
  PROVE  PowerOfTwo(2 * q)
<1> SUFFICES ASSUME NEW d \in 1 .. 2 * q, NEW e \in 1 .. 2 * q, 2 * q = d * e, d % 2 # 0
             PROVE  d = 1
  BY DEF PowerOfTwo
<1>1. d \in Nat \ {0} /\ e \in Nat \ {0}
  OBVIOUS
<1>2. PICK c \in Nat : d = 2 * c + 1
  BY <1>1, EvenOrOdd
<1>3. d * e = 2 * (c * e) + e /\ c * e \in Nat
  BY <1>1, <1>2
<1>4. e = 2 * (q - c * e)
  BY <1>1, <1>3
<1>5. PICK h \in Nat \ {0} : e = 2 * h
  <2>1. q - c * e \in Nat \ {0}
    BY <1>1, <1>3, <1>4
  <2> QED
    BY <1>4, <2>1
<1>6. q = d * h
  <2>1. d * e = 2 * (d * h) /\ d * h \in Nat
    BY <1>1, <1>5
  <2> QED
    BY <2>1
<1>7. d \in 1 .. q /\ h \in 1 .. q
  BY <1>1, <1>5, <1>6, FactorsBelow
<1>8. QED
  BY <1>6, <1>7 DEF PowerOfTwo

(* Any power of two but the first is the double of one. *)
LEMMA HalfPower ==
  ASSUME NEW p \in Nat \ {0, 1}, PowerOfTwo(p)
  PROVE  \E q \in Nat \ {0} : p = 2 * q /\ PowerOfTwo(q)
<1>1. p % 2 = 0
  <2>1. p \in 1 .. p /\ 1 \in 1 .. p /\ p = p * 1
    OBVIOUS
  <2> QED
    BY <2>1 DEF PowerOfTwo
<1>2. PICK q \in Nat : p = 2 * q
  BY <1>1, EvenOrOdd
<1>3. q \in Nat \ {0}
  BY <1>2
<1>4. ASSUME NEW d \in 1 .. q, NEW e \in 1 .. q, q = d * e
      PROVE  d = 1 \/ d % 2 = 0
  <2>1. d \in Nat \ {0} /\ e \in Nat \ {0} /\ 2 * e \in Nat \ {0}
    OBVIOUS
  <2>2. p = d * (2 * e)
    BY <1>2, <1>4, <2>1
  <2>3. d \in 1 .. p /\ 2 * e \in 1 .. p
    BY <2>1, <2>2, FactorsBelow
  <2> QED
    BY <2>2, <2>3 DEF PowerOfTwo
<1>5. QED
  BY <1>2, <1>3, <1>4 DEF PowerOfTwo

(* The powers of two below n. *)
PowersBelow(n) == {p \in 1 .. n - 1 : PowerOfTwo(p)}

LEMMA PowersBelowFinite ==
  ASSUME NEW n \in Nat \ {0}
  PROVE  IsFiniteSet(PowersBelow(n)) /\ Rounds(n) = Cardinality(PowersBelow(n)) /\ Rounds(n) \in Nat
<1>1. n - 1 \in Nat /\ PowersBelow(n) \subseteq 1 .. n - 1
  BY DEF PowersBelow
<1>2. IsFiniteSet(PowersBelow(n))
  BY <1>1, UpTo, FS_Subset
<1>3. QED
  BY <1>2, FS_CardinalityType DEF Rounds, PowersBelow

LEMMA TopMBounds ==
  ASSUME NEW n \in Nat \ {0}
  PROVE  /\ TopM(n) \in Nat \ {0} /\ TopM(n) <= n
         /\ n > 1 => TopM(n) < n
         /\ \A q \in Nat : q < TopM(n) <=> 2 * q < n
BY DEF TopM

(* Each halving, rounded up, takes one round off. *)
LEMMA RoundsOfHalf ==
  ASSUME NEW n \in Nat \ {0, 1}
  PROVE  Rounds(n) = Rounds(TopM(n)) + 1
<1> DEFINE P == PowersBelow(n)
           Q == PowersBelow(TopM(n))
           f == [q \in Q |-> 2 * q]
<1>1. TopM(n) \in Nat \ {0} /\ \A q \in Nat : q < TopM(n) <=> 2 * q < n
  BY TopMBounds
<1>2. /\ \A p : p \in P <=> p \in Nat \ {0} /\ p < n /\ PowerOfTwo(p)
      /\ \A q : q \in Q <=> q \in Nat \ {0} /\ q < TopM(n) /\ PowerOfTwo(q)
  BY <1>1 DEF PowersBelow
<1>3. 1 \in P
  BY <1>2, OnePower
<1>4. ASSUME NEW q \in Q PROVE 2 * q \in P \ {1}
  <2>1. q \in Nat \ {0} /\ 2 * q < n /\ PowerOfTwo(q)
    BY <1>1, <1>2
  <2>2. PowerOfTwo(2 * q)
    BY <2>1, DoublePower
  <2>3. 2 * q \in Nat \ {0} /\ 2 * q # 1
    BY <2>1
  <2> HIDE DEF P
  <2> QED
    BY <1>2, <2>1, <2>2, <2>3
<1>5. ASSUME NEW p \in P \ {1} PROVE \E q \in Q : p = 2 * q
  <2>1. p \in Nat \ {0, 1} /\ p < n /\ PowerOfTwo(p)
    BY <1>2
  <2>2. PICK q \in Nat \ {0} : p = 2 * q /\ PowerOfTwo(q)
    BY <2>1, HalfPower
  <2>3. q \in Q
    BY <1>1, <1>2, <2>1, <2>2
  <2> QED
    BY <2>2, <2>3
<1> HIDE DEF P, Q
<1>6. f \in Bijection(Q, P \ {1})
  <2>1. f \in [Q -> P \ {1}]
    BY <1>4
  <2>2. \A a, b \in Q : f[a] = f[b] => a = b
    BY <1>2
  <2>3. \A p \in P \ {1} : \E q \in Q : f[q] = p
    BY <1>5
  <2> QED
    BY <2>1, <2>2, <2>3 DEF Bijection, Injection, Surjection, IsInjective
<1>7. /\ IsFiniteSet(P) /\ IsFiniteSet(Q) /\ Rounds(n) = Cardinality(P)
      /\ Rounds(TopM(n)) = Cardinality(Q) /\ Cardinality(P) \in Nat /\ Cardinality(Q) \in Nat
  BY <1>1, PowersBelowFinite, FS_CardinalityType DEF P, Q
<1>8. Cardinality(Q) = Cardinality(P \ {1})
  <2>1. ExistsBijection(Q, P \ {1})
    BY <1>6 DEF ExistsBijection
  <2> QED
    BY <1>7, <2>1, FS_Bijection, FS_Subset
<1>9. Cardinality(P \ {1}) = Cardinality(P) - 1
  BY <1>3, <1>7, FS_RemoveElement
<1>10. QED
  BY <1>7, <1>8, <1>9

(* One action needs no round, more need some. *)
LEMMA RoundsOfOne ==
  ASSUME NEW n \in Nat \ {0}
  PROVE  Rounds(n) \in Nat /\ (Rounds(n) = 0 <=> n = 1)
<1>1. Rounds(n) \in Nat
  BY PowersBelowFinite
<1>2. CASE n = 1
  <2>1. PowersBelow(1) = {}
    BY DEF PowersBelow
  <2>2. Rounds(1) = Cardinality(PowersBelow(1))
    BY PowersBelowFinite
  <2> QED
    BY <1>1, <1>2, <2>1, <2>2, FS_EmptySet
<1>3. CASE n # 1
  <2>1. Rounds(n) = Rounds(TopM(n)) + 1
    BY <1>3, RoundsOfHalf
  <2>2. TopM(n) \in Nat \ {0}
    BY TopMBounds
  <2>3. Rounds(TopM(n)) \in Nat
    BY <2>2, PowersBelowFinite
  <2> QED
    BY <1>1, <1>3, <2>1, <2>3
<1>4. QED
  BY <1>1, <1>2, <1>3

-----------------------------------------------------------------------------
(***************************************************************************)
(* The actions and their results.                                          *)
(***************************************************************************)
Result == [seed : Nat, return : Int]

(* The results stored of an action bear the seeds from 0 up, in order. *)
SeedsInOrder(t) == \A a \in Actions : \A k \in 1 .. Len(t[a]) : t[a][k].seed = k - 1

(* The actions allowed stand in ascending order, each at its position. *)
LEMMA Roots ==
  ASSUME root_actions \in RootActions
  PROVE  /\ Size \in Nat /\ root_actions \in [1 .. Size -> Nat] /\ Actions \subseteq Nat
         /\ \A i, j \in 1 .. Size : i < j => root_actions[i] < root_actions[j]
         /\ \A i \in 1 .. Size : root_actions[i] \in Actions /\ Position(root_actions[i]) = i - 1
         /\ \A a \in Actions : /\ Position(a) \in 0 .. Size - 1
                               /\ root_actions[Position(a) + 1] = a
                               /\ Size > 0 /\ a <= root_actions[Size]
<1>1. /\ Size \in Nat /\ root_actions \in [1 .. Size -> Nat]
      /\ \A i, j \in 1 .. Size : i < j => root_actions[i] < root_actions[j]
  BY SelectionAssumption DEF Size
<1>2. \A a : a \in Actions <=> \E i \in 1 .. Size : root_actions[i] = a
  BY <1>1 DEF Actions, ToSet
<1>3. ASSUME NEW i \in 1 .. Size, NEW j \in 1 .. Size, root_actions[i] = root_actions[j]
      PROVE  i = j
  <2>1. i \in Nat /\ j \in Nat /\ root_actions[i] \in Nat /\ root_actions[j] \in Nat
    BY <1>1
  <2>2. ~(i < j) /\ ~(j < i)
    BY <1>1, <1>3, <2>1
  <2> QED
    BY <2>1, <2>2
<1>4. ASSUME NEW i \in 1 .. Size PROVE Position(root_actions[i]) = i - 1
  <2>1. (CHOOSE j \in 1 .. Size : root_actions[j] = root_actions[i]) = i
    BY <1>3
  <2> QED
    BY <2>1 DEF Position
<1>5. ASSUME NEW a \in Actions
      PROVE  /\ Position(a) \in 0 .. Size - 1
             /\ root_actions[Position(a) + 1] = a
             /\ Size > 0 /\ a <= root_actions[Size]
  <2>1. PICK i \in 1 .. Size : root_actions[i] = a
    BY <1>2
  <2>2. Position(a) = i - 1
    BY <1>4, <2>1
  <2>3. i \in Nat /\ Size \in 1 .. Size /\ Position(a) + 1 = i /\ Position(a) \in 0 .. Size - 1
    BY <1>1, <2>2
  <2>4. root_actions[i] \in Nat /\ root_actions[Size] \in Nat
        /\ (i < Size => root_actions[i] < root_actions[Size])
    BY <1>1, <2>3
  <2>5. a <= root_actions[Size]
    BY <1>1, <2>1, <2>3, <2>4
  <2> QED
    BY <1>1, <2>1, <2>3, <2>5
<1>6. Actions \subseteq Nat
  BY <1>1, <1>2
<1>7. QED
  BY <1>1, <1>2, <1>4, <1>5, <1>6

LEMMA ActionsCounted ==
  ASSUME root_actions \in RootActions
  PROVE  IsFiniteSet(Actions) /\ Cardinality(Actions) = Size
<1>1. root_actions \in Bijection(1 .. Size, Actions)
  <2>1. root_actions \in [1 .. Size -> Actions]
    BY Roots
  <2>2. \A a \in Actions : \E i \in 1 .. Size : root_actions[i] = a
    <3>1. \A a \in Actions : Position(a) + 1 \in 1 .. Size /\ root_actions[Position(a) + 1] = a
      BY Roots
    <3> QED
      BY <3>1
  <2>3. \A i, j \in 1 .. Size : root_actions[i] = root_actions[j] => i = j
    <3>1. \A i \in 1 .. Size : i = Position(root_actions[i]) + 1
      BY Roots
    <3> QED
      BY <3>1
  <2> QED
    BY <2>1, <2>2, <2>3 DEF Bijection, Injection, Surjection, IsInjective
<1>2. ExistsBijection(1 .. Size, Actions)
  BY <1>1 DEF ExistsBijection
<1>3. QED
  BY <1>2, Roots, UpTo, FS_Bijection

(* A list of distinct actions has as many as it is long. *)
LEMMA DistinctCounted ==
  ASSUME NEW s, NEW n \in Nat, s \in [1 .. n -> Actions], IsInjective(s)
  PROVE  IsFiniteSet(ToSet(s)) /\ Cardinality(ToSet(s)) = n /\ ToSet(s) \subseteq Actions
<1>1. s \in Bijection(1 .. n, ToSet(s))
  BY DEF Bijection, Injection, Surjection, ToSet
<1>2. ExistsBijection(1 .. n, ToSet(s))
  BY <1>1 DEF ExistsBijection
<1>3. QED
  BY <1>2, UpTo, FS_Bijection DEF ToSet

(* Appending results leaves those there were. *)
LEMMA Extended ==
  ASSUME NEW s \in Seq(Result), NEW t \in Seq(Result), NEW m \in 0 .. Len(s)
  PROVE  SubSeq(s \o t, 1, m) = SubSeq(s, 1, m)
OBVIOUS

LEMMA WholePrefix ==
  ASSUME NEW s \in Seq(Result)
  PROVE  SubSeq(s, 1, Len(s)) = s
OBVIOUS

LEMMA SumTyped ==
  ASSUME NEW s \in Seq(Result)
  PROVE  Sum(s) \in Int
<1>1. Len(s) \in Nat /\ DOMAIN s = 1 .. Len(s) /\ \A i \in 1 .. Len(s) : s[i] \in Result
  OBVIOUS
<1>2. \A i \in 1 .. Len(s) : s[i].return \in Int
  BY <1>1 DEF Result
<1>3. QED
  BY <1>1, <1>2, SumIsNumber

LEMMA Appended ==
  ASSUME NEW s \in Seq(Result), NEW t \in Seq(Result)
  PROVE  /\ s \o t \in Seq(Result) /\ Len(s \o t) = Len(s) + Len(t)
         /\ \A k \in 1 .. Len(s) : (s \o t)[k] = s[k]
         /\ \A i \in 1 .. Len(t) : (s \o t)[Len(s) + i] = t[i]
<1>1. ASSUME NEW i \in 1 .. Len(t) PROVE (s \o t)[Len(s) + i] = t[i]
  <2>1. Len(s) \in Nat /\ Len(t) \in Nat
    OBVIOUS
  <2>2. Len(s) + i \in 1 .. Len(s) + Len(t) /\ ~(Len(s) + i <= Len(s)) /\ Len(s) + i - Len(s) = i
    BY <2>1
  <2> QED
    BY <2>1, <2>2
<1>2. QED
  BY <1>1

(* What n rollouts of each of some actions add. *)
Rolled(as, first, n, t) ==
  /\ t \in [Actions -> Seq(Result)]
  /\ \A a \in Actions \ as : t[a] = trajectory_costs[a]
  /\ \A a \in as :
       /\ Len(t[a]) = Len(trajectory_costs[a]) + n
       /\ \A k \in 1 .. Len(trajectory_costs[a]) : t[a][k] = trajectory_costs[a][k]
       /\ \A i \in 1 .. n : t[a][Len(trajectory_costs[a]) + i].seed = first + i - 1
  /\ \A a \in Actions : \E more \in Seq(Result) : t[a] = trajectory_costs[a] \o more

LEMMA RolledOut ==
  ASSUME root_actions \in RootActions, trajectory_costs \in [Actions -> Seq(Result)],
         NEW as, as \subseteq Actions, NEW first \in Nat, NEW n \in Nat,
         NEW t, t \in Results(as, first, n)
  PROVE  Rolled(as, first, n, t)
<1> DEFINE More(drawn, a) == [i \in 1 .. n |-> [seed |-> first + i - 1, return |-> drawn[a][i]]]
<1>1. PICK drawn \in [as -> [1 .. n -> Returns]] :
        t = [a \in Actions |->
               trajectory_costs[a] \o IF a \in as THEN More(drawn, a) ELSE <<>>]
  BY DEF Results
<1>2. ASSUME NEW a \in as
      PROVE  /\ More(drawn, a) \in Seq(Result) /\ Len(More(drawn, a)) = n
             /\ \A i \in 1 .. n : More(drawn, a)[i].seed = first + i - 1
  <2>1. \A i \in 1 .. n : drawn[a][i] \in Int
    BY SelectionAssumption
  <2>2. \A i \in 1 .. n : first + i - 1 \in Nat
    OBVIOUS
  <2>3. More(drawn, a) \in [1 .. n -> Result]
    BY <2>1, <2>2 DEF Result
  <2> QED
    BY <2>3
<1>3. ASSUME NEW a \in as PROVE t[a] = trajectory_costs[a] \o More(drawn, a)
  BY <1>1
<1>4. ASSUME NEW a \in Actions \ as PROVE t[a] = trajectory_costs[a] \o <<>>
  BY <1>1
<1> HIDE DEF More
<1>5. ASSUME NEW a \in as
      PROVE  /\ t[a] \in Seq(Result)
             /\ Len(t[a]) = Len(trajectory_costs[a]) + n
             /\ \A k \in 1 .. Len(trajectory_costs[a]) : t[a][k] = trajectory_costs[a][k]
             /\ \A i \in 1 .. n : t[a][Len(trajectory_costs[a]) + i].seed = first + i - 1
             /\ \E more \in Seq(Result) : t[a] = trajectory_costs[a] \o more
  <2> DEFINE s == trajectory_costs[a]
             m == More(drawn, a)
  <2>1. s \in Seq(Result) /\ m \in Seq(Result) /\ Len(m) = n /\ t[a] = s \o m
        /\ \A i \in 1 .. n : m[i].seed = first + i - 1
    BY <1>2, <1>3
  <2> HIDE DEF s, m
  <2>2. /\ s \o m \in Seq(Result) /\ Len(s \o m) = Len(s) + n
        /\ \A k \in 1 .. Len(s) : (s \o m)[k] = s[k]
        /\ \A i \in 1 .. n : (s \o m)[Len(s) + i] = m[i]
    BY <2>1, Appended
  <2>3. /\ t[a] \in Seq(Result) /\ Len(t[a]) = Len(s) + n
        /\ \A k \in 1 .. Len(s) : t[a][k] = s[k]
        /\ \A i \in 1 .. n : t[a][Len(s) + i].seed = first + i - 1
        /\ \E more \in Seq(Result) : t[a] = s \o more
    BY <2>1, <2>2, Zenon
  <2> QED
    BY <2>3 DEF s
<1>6. ASSUME NEW a \in Actions \ as
      PROVE  /\ t[a] = trajectory_costs[a] /\ t[a] \in Seq(Result)
             /\ \E more \in Seq(Result) : t[a] = trajectory_costs[a] \o more
  <2>1. trajectory_costs[a] \in Seq(Result) /\ <<>> \in Seq(Result)
    OBVIOUS
  <2>2. trajectory_costs[a] \o <<>> = trajectory_costs[a]
    BY <2>1
  <2> QED
    BY <1>4, <2>1, <2>2
<1>7. t = [a \in Actions |-> t[a]]
  BY <1>1
<1>8. \A a \in Actions : t[a] \in Seq(Result)
  BY <1>5, <1>6
<1>9. t \in [Actions -> Seq(Result)]
  BY <1>7, <1>8
<1>10. QED
  BY <1>5, <1>6, <1>9 DEF Rolled

(* Of any numbers, the first largest and the first smallest. *)
LEMMA FirstLargestExists ==
  ASSUME NEW N \in Nat \ {0}, NEW f \in [1 .. N -> Int]
  PROVE  \E i \in 1 .. N : \A j \in 1 .. N : f[j] < f[i] \/ (f[j] = f[i] /\ i <= j)
<1> DEFINE Best(n, i) == \A j \in 1 .. n : f[j] < f[i] \/ (f[j] = f[i] /\ i <= j)
           Bad == {n \in 1 .. N : ~ \E i \in 1 .. n : Best(n, i)}
<1>1. Bad = {}
  <2> SUFFICES ASSUME Bad # {} PROVE FALSE
    OBVIOUS
  <2>1. PICK n \in Bad : \A m \in Bad : n <= m
    <3>1. Bad \subseteq Nat
      OBVIOUS
    <3> HIDE DEF Bad
    <3> QED
      BY <3>1, FirstFailure
  <2>2. n \in 1 .. N /\ ~ \E i \in 1 .. n : Best(n, i)
    OBVIOUS
  <2>3. n # 1
    BY <2>2
  <2>4. n - 1 \in 1 .. N /\ n \in Nat
    BY <2>2, <2>3
  <2>5. n - 1 \notin Bad
    <3>1. ~(n <= n - 1)
      BY <2>4
    <3> HIDE DEF Bad
    <3> QED
      BY <2>1, <3>1
  <2>6. PICK i \in 1 .. n - 1 : Best(n - 1, i)
    BY <2>4, <2>5
  <2>7. \A j \in 1 .. n : j \in 1 .. n - 1 \/ j = n
    BY <2>4
  <2>8. CASE f[n] > f[i]
    <3>1. n \in 1 .. n /\ f[n] \in Int /\ f[i] \in Int
      BY <2>2, <2>4
    <3>2. ASSUME NEW j \in 1 .. n PROVE f[j] < f[n] \/ (f[j] = f[n] /\ n <= j)
      <4>1. CASE j = n
        BY <2>4, <4>1
      <4>2. CASE j \in 1 .. n - 1
        <5>1. j \in 1 .. N /\ f[j] \in Int
          BY <2>4, <4>2
        <5>2. f[j] < f[i] \/ f[j] = f[i]
          BY <2>6, <4>2
        <5>3. f[j] <= f[i]
          BY <3>1, <5>1, <5>2
        <5> QED
          BY <2>8, <3>1, <5>1, <5>3
      <4> QED
        BY <2>7, <4>1, <4>2
    <3> HIDE DEF Bad
    <3> QED
      BY <2>2, <3>1, <3>2
  <2>9. CASE ~(f[n] > f[i])
    <3>1. f[n] \in Int /\ f[i] \in Int /\ i <= n /\ i \in 1 .. n
      BY <2>2, <2>4
    <3>2. Best(n, i)
      BY <2>6, <2>7, <2>9, <3>1
    <3> QED
      BY <2>2, <3>1, <3>2
  <2> QED
    BY <2>8, <2>9
<1>2. N \in 1 .. N /\ N \notin Bad
  <2> HIDE DEF Bad
  <2> QED BY <1>1
<1>3. QED
  BY <1>2

-----------------------------------------------------------------------------
(***************************************************************************)
(* The inductive invariant.  Every competing action has the same results,  *)
(* under the same seeds; who has been dismissed has fewer, and lost on     *)
(* them to each that is left; the rounds that are left are those that the  *)
(* number left needs; and each round spends at most its share.             *)
(***************************************************************************)
Stages == {"dispatch", "taken", "uniform", "compare", "halving", "halve", "fill", "labelled",
           "threw"}

SelectionTypeOK ==
  /\ root_actions \in RootActions
  /\ prescribed_action_allowed \in BOOLEAN
  /\ pc \in Stages
  /\ iter \in Nat
  /\ competing_actions \in Seq(Actions) /\ IsInjective(competing_actions)
  /\ trajectory_costs \in [Actions -> Seq(Result)]

Selecting == pc \notin {"dispatch", "taken"}
Decided   == pc \in {"fill", "labelled", "threw"}
InHalving == pc \in {"halving", "halve"} \/ iter > 0
Round     == IF pc = "halve" THEN iter + 1 ELSE iter

(* A selector is only asked for two actions or more. *)
Started == Selecting => Size > 1

NotStarted ==
  pc \in {"dispatch", "uniform", "taken"} =>
    /\ iter = 0 /\ competing_actions = root_actions
    /\ \A a \in Actions : trajectory_costs[a] = <<>>

Uniformly ==
  (~InHalving /\ pc \in {"compare", "fill", "labelled", "threw"}) =>
    \A a \in Actions : Len(trajectory_costs[a]) = M

Schedule ==
  /\ M > TotalRounds
  /\ pc \in {"halving", "halve"} \/ Decided
  /\ competing_actions # <<>> /\ Len(competing_actions) <= Size
  /\ iter + Rounds(Len(competing_actions)) = TotalRounds
  /\ Decided <=> Rounds(Len(competing_actions)) = 0
  /\ iter = 0 => competing_actions = root_actions

Evenly(t, c) ==
  /\ \A a \in ToSet(c) : Len(t[a]) = Len(t[c[1]])
  /\ \A a \in Actions  : Len(t[a]) <= Len(t[c[1]])

UsedPerAction == Len(trajectory_costs[competing_actions[1]])

(* The code's own count of the results each that competes has. *)
Counted ==
  pc \in {"dispatch", "halving", "halve"} =>
    \A a \in ToSet(competing_actions) : Len(trajectory_costs[a]) = total_budget_used_per_action

Tried(t) == \A a \in Actions : Len(t[a]) >= ActionBudget(Size)

Beaten(t, c) ==
  \A a \in Actions \ ToSet(c), b \in ToSet(c) : Sum(SubSeq(t[b], 1, Len(t[a]))) >= Sum(t[a])

ResultsOf(t)  == UNION {{a} \X (1 .. Len(t[a])) : a \in Actions}
Spent(t, round) == /\ IsFiniteSet(ResultsOf(t))
                   /\ TotalRounds * Cardinality(ResultsOf(t)) <= round * (M * Size)

Competition ==
  InHalving =>
    /\ Schedule
    /\ Evenly(trajectory_costs, competing_actions)
    /\ Round > 0 => Tried(trajectory_costs)
    /\ Beaten(trajectory_costs, competing_actions)
    /\ Spent(trajectory_costs, Round)

Labels ==
  Decided =>
    IF iter > 0 THEN competing_actions = <<NextAction>>
                ELSE /\ NextAction \in Actions
                     /\ \A a \in Actions : AccumulatedReward(a) <= AccumulatedReward(NextAction)

Worst(a) == \A b \in Actions : AccumulatedReward(a) <= AccumulatedReward(b)

Prescribed ==
  Selecting =>
    /\ prescribed_action_allowed <=> answer \in Actions
    /\ prescribed_action_allowed => prescribed_action_initial_policy = Position(answer)
    /\ (~prescribed_action_allowed /\ iter > 0) => prescribed_action_initial_policy \in Actions
    /\ (~prescribed_action_allowed /\ Decided /\ iter = 0) =>
         \E a \in Actions : prescribed_action_initial_policy = Position(a) /\ Worst(a)

Thrown == pc = "threw" => prescribed_action_initial_policy \notin 0 .. Size - 1

SelectionInv ==
  /\ SelectionTypeOK /\ SeedsInOrder(trajectory_costs) /\ Started /\ NotStarted
  /\ Uniformly /\ Competition /\ Labels /\ Prescribed /\ Thrown

LEMMA RewardTyped ==
  ASSUME SelectionTypeOK, NEW a \in Actions
  PROVE  AccumulatedReward(a) \in Int
BY SumTyped DEF AccumulatedReward, SelectionTypeOK

LEMMA RoundsTyped ==
  ASSUME root_actions \in RootActions
  PROVE  /\ Size > 0 => TotalRounds \in Nat /\ (TotalRounds = 0 <=> Size = 1)
         /\ M * Size \in Nat /\ Size \in Nat /\ M \in Nat \ {0}
<1>1. Size \in Nat /\ M \in Nat \ {0}
  BY Roots, SelectionAssumption
<1>2. Size > 0 => TotalRounds \in Nat /\ (TotalRounds = 0 <=> Size = 1)
  BY <1>1, RoundsOfOne DEF TotalRounds
<1>3. M * Size \in Nat
  BY <1>1
<1>4. QED
  BY <1>1, <1>2, <1>3

(* Nothing else depends on the root than through these. *)
LEMMA SameRoot ==
  ASSUME UNCHANGED root_actions
  PROVE  Actions' = Actions /\ Size' = Size /\ TotalRounds' = TotalRounds
         /\ \A a : Position(a)' = Position(a)
BY DEF Actions, Size, TotalRounds, Position

LEMMA InitSelection == Init => SelectionInv
<1> SUFFICES ASSUME Init PROVE SelectionInv
  OBVIOUS
<1>1. root_actions \in RootActions /\ pc = "dispatch" /\ iter = 0
      /\ competing_actions = root_actions /\ trajectory_costs = [a \in Actions |-> <<>>]
      /\ prescribed_action_allowed = FALSE
  BY DEF Init
<1>2. \A a \in Actions : trajectory_costs[a] = <<>> /\ Len(trajectory_costs[a]) = 0
  BY <1>1
<1>3. competing_actions \in Seq(Actions) /\ IsInjective(competing_actions)
  <2>1. /\ Size \in Nat /\ root_actions \in [1 .. Size -> Nat]
        /\ \A i \in 1 .. Size : root_actions[i] \in Actions /\ Position(root_actions[i]) = i - 1
    BY <1>1, Roots
  <2>2. root_actions \in [1 .. Size -> Actions]
    BY <2>1
  <2>3. \A i, j \in 1 .. Size : root_actions[i] = root_actions[j] => i = j
    <3>1. \A i \in 1 .. Size : i = Position(root_actions[i]) + 1
      BY <2>1
    <3> QED
      BY <3>1
  <2> QED
    BY <1>1, <2>1, <2>2, <2>3 DEF IsInjective
<1>4. trajectory_costs \in [Actions -> Seq(Result)]
  BY <1>1
<1>5. SelectionTypeOK
  BY <1>1, <1>3, <1>4 DEF SelectionTypeOK, Stages
<1>6. SeedsInOrder(trajectory_costs)
  BY <1>2 DEF SeedsInOrder
<1>7. NotStarted
  BY <1>1, <1>2 DEF NotStarted
<1>8. ~InHalving /\ ~Decided /\ ~Selecting
  BY <1>1 DEF InHalving, Decided, Selecting
<1>9. QED
  BY <1>1, <1>5, <1>6, <1>7, <1>8
     DEF SelectionInv, Started, Uniformly, Competition, Labels, Prescribed, Thrown

-----------------------------------------------------------------------------
LEMMA TrivialStep == SelectionInv /\ Trivial => SelectionInv'
<1> SUFFICES ASSUME SelectionInv, Trivial PROVE SelectionInv'
  OBVIOUS
<1>1. /\ pc = "dispatch" /\ pc' = "taken" /\ UNCHANGED root_actions
      /\ UNCHANGED <<prescribed_action_allowed, iter, competing_actions, trajectory_costs>>
  BY DEF Trivial, rootVars
<1>2. Actions' = Actions
  BY <1>1, SameRoot
<1>3. SelectionTypeOK' /\ SeedsInOrder(trajectory_costs)' /\ NotStarted'
  BY <1>1, <1>2 DEF SelectionInv, SelectionTypeOK, Stages, SeedsInOrder, NotStarted
<1>4. iter' = 0
  BY <1>1 DEF SelectionInv, NotStarted
<1>5. ~InHalving' /\ ~Decided' /\ ~Selecting'
  BY <1>1, <1>4 DEF InHalving, Decided, Selecting
<1>6. QED
  BY <1>1, <1>3, <1>5
     DEF SelectionInv, Started, Uniformly, Competition, Labels, Prescribed, Thrown

(* Before the first result all actions compete, with none. *)
LEMMA NothingYet ==
  ASSUME SelectionTypeOK, NotStarted, pc = "dispatch", Size > 1
  PROVE  /\ Evenly(trajectory_costs, root_actions) /\ Beaten(trajectory_costs, root_actions)
         /\ Spent(trajectory_costs, 0)
<1>1. root_actions \in RootActions /\ \A a \in Actions : trajectory_costs[a] = <<>>
  BY DEF SelectionTypeOK, NotStarted
<1>2. \A a \in Actions : Len(trajectory_costs[a]) = 0
  BY <1>1
<1>3. ToSet(root_actions) = Actions /\ root_actions[1] \in Actions
  <2>1. 1 \in 1 .. Size
    BY <1>1, Roots
  <2> QED
    BY <1>1, <2>1, Roots DEF Actions
<1>4. ResultsOf(trajectory_costs) = {}
  <2>1. \A a \in Actions : 1 .. Len(trajectory_costs[a]) = {}
    BY <1>2
  <2> QED
    BY <2>1 DEF ResultsOf
<1>5. TotalRounds \in Nat /\ M * Size \in Nat
  BY <1>1, RoundsTyped
<1>6. Spent(trajectory_costs, 0)
  <2>1. TotalRounds * 0 <= 0 * (M * Size)
    BY <1>5
  <2> QED
    BY <1>4, <2>1, FS_EmptySet DEF Spent
<1>7. QED
  BY <1>2, <1>3, <1>6 DEF Evenly, Beaten

LEMMA DispatchStep == SelectionInv /\ Dispatch => SelectionInv'
<1> SUFFICES ASSUME SelectionInv, Dispatch PROVE SelectionInv'
  OBVIOUS
<1>1. /\ pc = "dispatch" /\ Size > 1 /\ UNCHANGED <<root_actions, answer>>
      /\ UNCHANGED <<iter, competing_actions, trajectory_costs>>
      /\ pc' = IF enable_sequential_halving /\ M > TotalRounds THEN "halving" ELSE "uniform"
      /\ prescribed_action_allowed' = (answer \in Actions)
      /\ prescribed_action_initial_policy' = AsIndex(answer)
  BY DEF Dispatch
<1>2. Actions' = Actions /\ Size' = Size /\ TotalRounds' = TotalRounds /\ (\A a : Position(a)' = Position(a))
  BY <1>1, SameRoot
<1>3. SelectionTypeOK /\ SeedsInOrder(trajectory_costs) /\ NotStarted
  BY DEF SelectionInv
<1>4. /\ iter = 0 /\ competing_actions = root_actions
      /\ \A a \in Actions : trajectory_costs[a] = <<>>
  BY <1>1, <1>3 DEF NotStarted
<1>5. SelectionTypeOK'
  BY <1>1, <1>2, <1>3 DEF SelectionTypeOK, Stages
<1>6. SeedsInOrder(trajectory_costs)'
  BY <1>1, <1>2, <1>3 DEF SeedsInOrder
<1>7. NotStarted'
  BY <1>1, <1>2, <1>4 DEF NotStarted
<1>8. Started' /\ Uniformly' /\ Labels' /\ Thrown' /\ ~Decided'
  BY <1>1, <1>2 DEF Started, Uniformly, Labels, Thrown, Decided
<1>9. Prescribed'
  <2>1. prescribed_action_allowed' => prescribed_action_initial_policy' = Position(answer)
    BY <1>1 DEF AsIndex
  <2>2. Position(answer)' = Position(answer)
    BY <1>1 DEF Position, Size
  <2>3. prescribed_action_allowed' <=> (answer \in Actions)'
    BY <1>1, <1>2
  <2>4. ~(iter > 0)'
    BY <1>1, <1>4
  <2> QED
    BY <1>8, <2>1, <2>2, <2>3, <2>4 DEF Prescribed
<1>10. Competition'
  <2>1. CASE pc' = "uniform"
    BY <1>1, <1>4, <2>1 DEF Competition, InHalving
  <2>2. CASE pc' = "halving"
    <3>1. M > TotalRounds
      BY <1>1, <2>2
    <3>2. TotalRounds \in Nat /\ TotalRounds # 0 /\ Size \in Nat
      BY <1>1, <1>3, RoundsTyped DEF SelectionTypeOK
    <3>3. Rounds(Len(root_actions)) = TotalRounds /\ Len(root_actions) = Size
      BY DEF TotalRounds, Size
    <3>4. root_actions # <<>>
      BY <1>1, <3>3
    <3>5. Schedule'
      <4>1. Rounds(Len(competing_actions))' = Rounds(Size) /\ Len(competing_actions)' = Size
        BY <1>1, <1>4, <3>3
      <4> QED
        BY <1>1, <1>2, <1>4, <1>8, <2>2, <3>1, <3>2, <3>3, <3>4, <4>1 DEF Schedule
    <3>6. Round' = 0
      BY <1>1, <1>4, <2>2 DEF Round
    <3>7. /\ Evenly(trajectory_costs, root_actions) /\ Beaten(trajectory_costs, root_actions)
          /\ Spent(trajectory_costs, 0)
      BY <1>1, <1>3, NothingYet
    <3>8. Evenly(trajectory_costs, competing_actions)' /\ Beaten(trajectory_costs, competing_actions)'
      BY <1>1, <1>2, <1>4, <3>7 DEF Evenly, Beaten
    <3>9. Spent(trajectory_costs, Round)'
      BY <1>1, <1>2, <3>6, <3>7 DEF Spent, ResultsOf
    <3> QED
      BY <3>5, <3>6, <3>8, <3>9 DEF Competition
  <2> QED
    BY <1>1, <2>1, <2>2
<1>11. QED
  BY <1>5, <1>6, <1>7, <1>8, <1>9, <1>10 DEF SelectionInv

(* New results continue the seeds. *)
LEMMA SeedsGoOn ==
  ASSUME SelectionTypeOK, SeedsInOrder(trajectory_costs),
         NEW as, as \subseteq Actions, NEW first \in Nat, NEW n \in Nat,
         \A a \in as : Len(trajectory_costs[a]) = first,
         NEW t, t \in Results(as, first, n)
  PROVE  SeedsInOrder(t)
<1>1. Rolled(as, first, n, t)
  BY RolledOut DEF SelectionTypeOK
<1>2. ASSUME NEW a \in as, NEW k \in 1 .. Len(t[a]) PROVE t[a][k].seed = k - 1
  <2>1. Len(trajectory_costs[a]) = first /\ Len(t[a]) = first + n /\ k \in Nat
    <3>1. Len(trajectory_costs[a]) = first
      OBVIOUS
    <3>2. Len(t[a]) = first + n
      BY <1>1, <3>1 DEF Rolled
    <3>3. k \in Nat
      BY <3>2
    <3> QED
      BY <3>1, <3>2, <3>3
  <2>2. CASE k <= first
    <3>1. k \in 1 .. Len(trajectory_costs[a])
      BY <2>1, <2>2
    <3> QED
      BY <1>1, <3>1 DEF SeedsInOrder, Rolled
  <2>3. CASE ~(k <= first)
    <3>1. k - first \in 1 .. n /\ first + (k - first) = k /\ first + (k - first) - 1 = k - 1
      BY <2>1, <2>3
    <3>2. t[a][first + (k - first)].seed = first + (k - first) - 1
      BY <1>1, <2>1, <3>1 DEF Rolled
    <3> QED
      BY <3>1, <3>2
  <2> QED
    BY <2>2, <2>3
<1>3. QED
  BY <1>1, <1>2 DEF SeedsInOrder, Rolled

LEMMA RollOutAllStep == SelectionInv /\ RollOutAll => SelectionInv'
<1> SUFFICES ASSUME SelectionInv, RollOutAll PROVE SelectionInv'
  OBVIOUS
<1>1. /\ pc = "uniform" /\ pc' = "compare" /\ UNCHANGED <<root_actions, answer>>
      /\ trajectory_costs' \in Results(Actions, 0, M)
      /\ UNCHANGED <<prescribed_action_allowed, prescribed_action_initial_policy, iter,
                     competing_actions>>
  BY DEF RollOutAll, rootVars
<1>2. Actions' = Actions /\ Size' = Size /\ Position(answer)' = Position(answer)
  BY <1>1, SameRoot DEF Position, Size
<1>3. SelectionTypeOK /\ SeedsInOrder(trajectory_costs) /\ NotStarted /\ Prescribed
  BY DEF SelectionInv
<1>4. iter = 0 /\ \A a \in Actions : Len(trajectory_costs[a]) = 0
  BY <1>1, <1>3 DEF NotStarted
<1>5. M \in Nat /\ 0 \in Nat
  BY SelectionAssumption
<1>6. SeedsInOrder(trajectory_costs')
  BY <1>1, <1>3, <1>4, <1>5, SeedsGoOn
<1>7. /\ trajectory_costs' \in [Actions -> Seq(Result)]
      /\ \A a \in Actions : Len(trajectory_costs'[a]) = M
  <2>1. root_actions \in RootActions /\ trajectory_costs \in [Actions -> Seq(Result)]
    BY <1>3 DEF SelectionTypeOK
  <2>2. Rolled(Actions, 0, M, trajectory_costs')
    BY <1>1, <1>5, <2>1, RolledOut
  <2> QED
    BY <1>4, <1>5, <2>2 DEF Rolled
<1>8. SelectionTypeOK'
  BY <1>1, <1>2, <1>3, <1>7 DEF SelectionTypeOK, Stages
<1>9. SeedsInOrder(trajectory_costs)'
  BY <1>2, <1>6 DEF SeedsInOrder
<1>10. Size > 1
  BY <1>1 DEF SelectionInv, Started, Selecting
<1>11. Started' /\ NotStarted' /\ Uniformly' /\ Competition' /\ Labels' /\ Thrown' /\ ~Decided'
  BY <1>1, <1>2, <1>4, <1>7, <1>10
     DEF Started, NotStarted, Uniformly, Competition, InHalving, Labels, Decided, Thrown
<1>12. Prescribed'
  BY <1>1, <1>2, <1>3, <1>4, <1>11 DEF Prescribed, Selecting
<1>13. QED
  BY <1>8, <1>9, <1>11, <1>12 DEF SelectionInv

-----------------------------------------------------------------------------
(* There is a best action and a worst. *)
LEMMA BestAndWorst ==
  ASSUME SelectionTypeOK, Size > 0
  PROVE  /\ FirstBest \in Actions
         /\ \A a \in Actions : AccumulatedReward(a) <= AccumulatedReward(FirstBest)
         /\ FirstWorst \in Actions /\ Worst(FirstWorst)
<1> DEFINE f == [i \in 1 .. Size |-> AccumulatedReward(root_actions[i])]
           g == [i \in 1 .. Size |-> - AccumulatedReward(root_actions[i])]
<1>1. root_actions \in RootActions
  BY DEF SelectionTypeOK
<1>2. /\ Size \in Nat \ {0}
      /\ \A i \in 1 .. Size : root_actions[i] \in Actions /\ Position(root_actions[i]) = i - 1
      /\ \A a \in Actions : Position(a) + 1 \in 1 .. Size /\ root_actions[Position(a) + 1] = a
                            /\ Position(a) \in Nat
  <2>1. Size \in Nat
    BY <1>1, Roots
  <2>2. \A a \in Actions : Position(a) \in 0 .. Size - 1 /\ root_actions[Position(a) + 1] = a
    BY <1>1, Roots
  <2>3. \A i \in 1 .. Size : root_actions[i] \in Actions /\ Position(root_actions[i]) = i - 1
    BY <1>1, Roots
  <2> QED
    BY <2>1, <2>2, <2>3
<1>3. \A a \in Actions : AccumulatedReward(a) \in Int
  BY RewardTyped
<1>4. f \in [1 .. Size -> Int] /\ g \in [1 .. Size -> Int]
  BY <1>2, <1>3
<1>5. \E a \in Actions : \A b \in Actions :
        \/ AccumulatedReward(b) < AccumulatedReward(a)
        \/ AccumulatedReward(b) = AccumulatedReward(a) /\ Position(a) <= Position(b)
  <2>1. PICK i \in 1 .. Size : \A j \in 1 .. Size : f[j] < f[i] \/ (f[j] = f[i] /\ i <= j)
    <3> HIDE DEF f
    <3> QED BY <1>2, <1>4, FirstLargestExists
  <2>2. ASSUME NEW b \in Actions
        PROVE  \/ AccumulatedReward(b) < AccumulatedReward(root_actions[i])
               \/ /\ AccumulatedReward(b) = AccumulatedReward(root_actions[i])
                  /\ Position(root_actions[i]) <= Position(b)
    <3>1. Position(b) + 1 \in 1 .. Size /\ Position(b) \in Nat /\ root_actions[Position(b) + 1] = b
      BY <1>2
    <3>2. f[Position(b) + 1] = AccumulatedReward(b) /\ f[i] = AccumulatedReward(root_actions[i])
      BY <3>1
    <3>3. i <= Position(b) + 1 => Position(root_actions[i]) <= Position(b)
      BY <1>2, <3>1
    <3> HIDE DEF f
    <3> QED
      BY <2>1, <3>1, <3>2, <3>3
  <2> QED
    BY <1>2, <2>2
<1>6. \E a \in Actions : \A b \in Actions :
        \/ AccumulatedReward(b) > AccumulatedReward(a)
        \/ AccumulatedReward(b) = AccumulatedReward(a) /\ Position(a) <= Position(b)
  <2>1. PICK i \in 1 .. Size : \A j \in 1 .. Size : g[j] < g[i] \/ (g[j] = g[i] /\ i <= j)
    <3> HIDE DEF g
    <3> QED BY <1>2, <1>4, FirstLargestExists
  <2>2. ASSUME NEW b \in Actions
        PROVE  \/ AccumulatedReward(b) > AccumulatedReward(root_actions[i])
               \/ /\ AccumulatedReward(b) = AccumulatedReward(root_actions[i])
                  /\ Position(root_actions[i]) <= Position(b)
    <3>1. Position(b) + 1 \in 1 .. Size /\ Position(b) \in Nat /\ root_actions[Position(b) + 1] = b
      BY <1>2
    <3>2. g[Position(b) + 1] = - AccumulatedReward(b) /\ g[i] = - AccumulatedReward(root_actions[i])
      BY <3>1
    <3>3. i <= Position(b) + 1 => Position(root_actions[i]) <= Position(b)
      BY <1>2, <3>1
    <3>4. AccumulatedReward(b) \in Int /\ AccumulatedReward(root_actions[i]) \in Int
      BY <1>2, <1>3
    <3> HIDE DEF g
    <3>5. g[Position(b) + 1] < g[i] \/ (g[Position(b) + 1] = g[i] /\ i <= Position(b) + 1)
      BY <2>1, <3>1
    <3> QED
      BY <3>2, <3>3, <3>4, <3>5
  <2> QED
    BY <1>2, <2>2
<1>7. /\ FirstBest \in Actions
      /\ \A b \in Actions : \/ AccumulatedReward(b) < AccumulatedReward(FirstBest)
                            \/ AccumulatedReward(b) = AccumulatedReward(FirstBest)
  BY <1>5 DEF FirstBest
<1>8. /\ FirstWorst \in Actions
      /\ \A b \in Actions : \/ AccumulatedReward(b) > AccumulatedReward(FirstWorst)
                            \/ AccumulatedReward(b) = AccumulatedReward(FirstWorst)
  BY <1>6 DEF FirstWorst
<1>9. \A a \in Actions : AccumulatedReward(a) <= AccumulatedReward(FirstBest)
  BY <1>3, <1>7
<1>10. Worst(FirstWorst)
  BY <1>3, <1>8 DEF Worst
<1>11. QED
  BY <1>7, <1>8, <1>9, <1>10

LEMMA CompareStep == SelectionInv /\ Compare => SelectionInv'
<1> SUFFICES ASSUME SelectionInv, Compare PROVE SelectionInv'
  OBVIOUS
<1>1. /\ pc = "compare" /\ pc' = "fill" /\ UNCHANGED <<root_actions, answer>>
      /\ UNCHANGED <<prescribed_action_allowed, iter, competing_actions, trajectory_costs>>
      /\ NextAction' = FirstBest
      /\ prescribed_action_initial_policy' =
           IF prescribed_action_allowed THEN prescribed_action_initial_policy
                                        ELSE Position(FirstWorst)
  BY DEF Compare, rootVars
<1>2. Actions' = Actions /\ Size' = Size /\ Position(answer)' = Position(answer)
  BY <1>1, SameRoot DEF Position, Size
<1>3. SelectionTypeOK /\ SeedsInOrder(trajectory_costs) /\ Prescribed /\ Uniformly /\ Competition
  BY DEF SelectionInv
<1>4. iter = 0
  <2>1. iter \in Nat
    BY <1>3 DEF SelectionTypeOK
  <2>2. ~(iter > 0)
    BY <1>1, <1>3 DEF Competition, InHalving, Schedule, Decided
  <2> QED
    BY <2>1, <2>2
<1>5. Size > 1
  BY <1>1 DEF SelectionInv, Started, Selecting
<1>6. \A a \in Actions : Len(trajectory_costs[a]) = M
  BY <1>1, <1>3, <1>4 DEF Uniformly, InHalving
<1>7. SelectionTypeOK' /\ SeedsInOrder(trajectory_costs)'
  BY <1>1, <1>2, <1>3 DEF SelectionTypeOK, Stages, SeedsInOrder
<1>8. Started' /\ NotStarted' /\ Uniformly' /\ Competition' /\ Thrown'
  BY <1>1, <1>2, <1>4, <1>5, <1>6
     DEF Started, NotStarted, Uniformly, Competition, InHalving, Thrown
<1>9. \A a \in Actions : AccumulatedReward(a)' = AccumulatedReward(a)
  BY <1>1 DEF AccumulatedReward
<1>10. /\ FirstBest \in Actions /\ FirstWorst \in Actions /\ Worst(FirstWorst)
       /\ \A a \in Actions : AccumulatedReward(a) <= AccumulatedReward(FirstBest)
  <2>1. Size \in Nat
    BY <1>3, Roots DEF SelectionTypeOK
  <2>2. Size > 0
    BY <1>5, <2>1
  <2> QED
    BY <1>3, <2>2, BestAndWorst
<1>11. Labels'
  <2>1. ~(iter > 0)'
    BY <1>1, <1>4
  <2>2. NextAction' \in Actions' /\ AccumulatedReward(NextAction)' = AccumulatedReward(FirstBest)
    BY <1>1, <1>2, <1>10 DEF AccumulatedReward
  <2>3. \A a \in Actions' : AccumulatedReward(a)' <= AccumulatedReward(NextAction)'
    BY <1>2, <1>9, <1>10, <2>2
  <2> QED
    BY <2>1, <2>2, <2>3 DEF Labels
<1>12. Prescribed'
  <2>1. ~(iter > 0)' /\ Selecting
    BY <1>1, <1>4 DEF Selecting
  <2>2. /\ prescribed_action_allowed <=> answer \in Actions
        /\ prescribed_action_allowed => prescribed_action_initial_policy = Position(answer)
    BY <1>3, <2>1 DEF Prescribed
  <2>3. /\ prescribed_action_allowed' <=> (answer \in Actions)'
        /\ prescribed_action_allowed' => prescribed_action_initial_policy' = Position(answer)'
    BY <1>1, <1>2, <2>2
  <2>4. PICK w \in Actions : w = FirstWorst /\ Worst(w)
    BY <1>10
  <2>5. Worst(w)' /\ Position(w)' = Position(w) /\ w \in Actions'
    <3>1. \A b \in Actions : AccumulatedReward(w) <= AccumulatedReward(b)
      BY <2>4 DEF Worst
    <3>2. \A b \in Actions' : AccumulatedReward(w)' <= AccumulatedReward(b)'
      BY <1>2, <1>9, <3>1
    <3>3. Position(w)' = Position(w)
      BY <1>1 DEF Position, Size
    <3> QED
      BY <1>2, <3>2, <3>3 DEF Worst
  <2>6. ~prescribed_action_allowed' => prescribed_action_initial_policy' = Position(w)'
    BY <1>1, <2>4, <2>5
  <2> QED
    BY <2>1, <2>3, <2>5, <2>6 DEF Prescribed
<1>13. QED
  BY <1>7, <1>8, <1>11, <1>12 DEF SelectionInv

(* The budget of an action in a round with c competing. *)
LEMMA BudgetOfRound ==
  ASSUME root_actions \in RootActions, Size > 1, M > TotalRounds, NEW c \in 1 .. Size
  PROVE  /\ ActionBudget(c) \in Nat \ {0}
         /\ TotalRounds * (c * ActionBudget(c)) <= M * Size
<1>1. /\ Size \in Nat \ {0} /\ M \in Nat \ {0} /\ M * Size \in Nat /\ c \in Nat \ {0}
      /\ TotalRounds \in Nat \ {0}
  BY RoundsTyped
<1> DEFINE d == c * TotalRounds
           b == (M * Size) \div d
<1>2. d \in Nat \ {0}
  BY <1>1, FactorsBelow
<1>3. d <= M * Size
  <2>1. c * TotalRounds <= Size * TotalRounds
    <3>1. Size - c \in Nat
      BY <1>1
    <3>2. (Size - c) * TotalRounds >= 0
      BY <1>1, <3>1
    <3>3. (Size - c) * TotalRounds = Size * TotalRounds - c * TotalRounds
      BY <1>1
    <3> QED
      BY <1>1, <3>2, <3>3
  <2>2. Size * TotalRounds <= M * Size
    <3>1. M - TotalRounds \in Nat
      BY <1>1
    <3>2. Size * (M - TotalRounds) >= 0
      BY <1>1, <3>1
    <3>3. Size * (M - TotalRounds) = M * Size - Size * TotalRounds
      BY <1>1
    <3> QED
      BY <1>1, <3>2, <3>3
  <2> QED
    BY <1>1, <2>1, <2>2
<1> HIDE DEF d
<1> DEFINE r == (M * Size) % d
<1>4. b \in Int /\ r \in 0 .. d - 1 /\ M * Size = d * b + r
  <2> DEFINE budget == M * Size
  <2>1. budget \in Nat
    BY <1>1
  <2> HIDE DEF budget
  <2>2. budget \div d \in Int /\ budget % d \in 0 .. d - 1
        /\ budget = d * (budget \div d) + (budget % d)
    BY <1>2, <2>1
  <2> QED
    BY <2>2 DEF budget
<1> HIDE DEF b, r
<1>5. b > 0
  <2> SUFFICES ASSUME b <= 0 PROVE FALSE
    BY <1>4
  <2>1. d * (- b) >= 0
    BY <1>2, <1>4
  <2>2. d * (- b) = - (d * b)
    BY <1>2, <1>4
  <2> QED
    BY <1>1, <1>2, <1>3, <1>4, <2>1, <2>2
<1>6. d * b <= M * Size
  BY <1>1, <1>2, <1>4
<1>7. d * b = TotalRounds * (c * b)
  BY <1>1, <1>4 DEF d
<1>8. ActionBudget(c) = b
  BY DEF ActionBudget, b, d
<1>9. QED
  BY <1>4, <1>5, <1>6, <1>7, <1>8

LEMMA FillSampleStep == SelectionInv /\ FillSample => SelectionInv'
<1> SUFFICES ASSUME SelectionInv, FillSample PROVE SelectionInv'
  OBVIOUS
<1>1. /\ pc = "fill" /\ UNCHANGED <<root_actions, answer>>
      /\ pc' = (IF StatisticsThrow THEN "threw" ELSE "labelled")
      /\ UNCHANGED <<prescribed_action_allowed, prescribed_action_initial_policy, iter,
                     competing_actions, trajectory_costs, NextAction>>
  BY DEF FillSample, rootVars
<1>2. /\ Actions' = Actions /\ Size' = Size /\ TotalRounds' = TotalRounds
      /\ \A a : Position(a)' = Position(a)
  BY <1>1, SameRoot
<1>3. /\ SelectionTypeOK /\ SeedsInOrder(trajectory_costs) /\ Prescribed /\ Uniformly
      /\ Competition /\ Labels /\ Started
  BY DEF SelectionInv
<1>4. Decided /\ Decided' /\ (InHalving <=> iter > 0) /\ (InHalving' <=> InHalving)
      /\ Round = iter /\ Round' = iter /\ Selecting /\ Selecting'
  BY <1>1 DEF Decided, InHalving, Round, Selecting
<1>5. SelectionTypeOK' /\ SeedsInOrder(trajectory_costs)'
  BY <1>1, <1>2, <1>3 DEF SelectionTypeOK, Stages, SeedsInOrder
<1>6. Started' /\ NotStarted' /\ Uniformly'
  BY <1>1, <1>2, <1>3, <1>4 DEF Started, NotStarted, Uniformly
<1>7. Competition'
  <2> SUFFICES ASSUME InHalving' PROVE
        /\ Schedule'
        /\ Evenly(trajectory_costs, competing_actions)'
        /\ Round' > 0 => Tried(trajectory_costs)'
        /\ Beaten(trajectory_costs, competing_actions)'
        /\ Spent(trajectory_costs, Round)'
    BY DEF Competition
  <2>1. /\ Schedule /\ Evenly(trajectory_costs, competing_actions)
        /\ Round > 0 => Tried(trajectory_costs)
        /\ Beaten(trajectory_costs, competing_actions)
        /\ Spent(trajectory_costs, Round)
    BY <1>3, <1>4 DEF Competition
  <2>2. Schedule'
    BY <1>1, <1>2, <1>4, <2>1 DEF Schedule
  <2>3. Evenly(trajectory_costs, competing_actions)' /\ Beaten(trajectory_costs, competing_actions)'
    BY <1>1, <1>2, <2>1 DEF Evenly, Beaten
  <2>4. Round' > 0 => Tried(trajectory_costs)'
    BY <1>1, <1>2, <1>4, <2>1 DEF Tried, ActionBudget
  <2>5. Spent(trajectory_costs, Round)'
    BY <1>1, <1>2, <1>4, <2>1 DEF Spent, ResultsOf
  <2> QED
    BY <2>2, <2>3, <2>4, <2>5
<1>8. \A a : AccumulatedReward(a)' = AccumulatedReward(a)
  BY <1>1 DEF AccumulatedReward
<1>9. Labels'
  BY <1>1, <1>2, <1>3, <1>4, <1>8 DEF Labels, AccumulatedReward
<1>10. Prescribed'
  BY <1>1, <1>2, <1>3, <1>4, <1>8 DEF Prescribed, Worst
<1>11. Thrown'
  <2>1. ~ \E a \in Actions : Len(trajectory_costs[a]) < IF LeastBudget > 1 THEN 2 ELSE 1
    <3> SUFFICES ASSUME NEW a \in Actions
                 PROVE  ~(Len(trajectory_costs[a]) < IF LeastBudget > 1 THEN 2 ELSE 1)
      OBVIOUS
    <3>1. Len(trajectory_costs[a]) \in Nat
      BY <1>3 DEF SelectionTypeOK
    <3>2. Len(trajectory_costs[a]) >= LeastBudget /\ LeastBudget \in Nat \ {0}
      <4>1. CASE iter > 0
        <5>1. Schedule /\ Tried(trajectory_costs)
          BY <1>3, <1>4, <4>1 DEF Competition
        <5>2. Size > 1 /\ Size \in Nat /\ root_actions \in RootActions
          BY <1>3, <1>4, Roots DEF Started, SelectionTypeOK
        <5>3. ActionBudget(Size) \in Nat \ {0}
          BY <5>1, <5>2, BudgetOfRound DEF Schedule
        <5> QED
          BY <4>1, <5>1, <5>3 DEF Tried, LeastBudget
      <4>2. CASE ~(iter > 0)
        <5>1. Len(trajectory_costs[a]) = M
          BY <1>1, <1>3, <1>4, <4>2 DEF Uniformly
        <5> QED
          BY <4>2, <5>1, SelectionAssumption DEF LeastBudget
      <4> QED
        BY <4>1, <4>2
    <3> QED
      BY <3>1, <3>2
  <2>2. pc' = "threw" => prescribed_action_initial_policy \notin 0 .. Size - 1
    BY <1>1, <2>1 DEF StatisticsThrow
  <2> QED
    BY <1>1, <1>2, <2>2 DEF Thrown
<1>12. QED
  BY <1>5, <1>6, <1>7, <1>9, <1>10, <1>11 DEF SelectionInv

LEMMA SelectionStutter == SelectionInv /\ UNCHANGED vars => SelectionInv'
<1> SUFFICES ASSUME SelectionInv, UNCHANGED vars PROVE SelectionInv'
  OBVIOUS
<1>1. /\ UNCHANGED <<root_actions, answer, prescribed_action_initial_policy, pc>>
      /\ UNCHANGED <<prescribed_action_allowed, iter, competing_actions, trajectory_costs>>
      /\ UNCHANGED NextAction
  BY DEF vars
<1>2. /\ Actions' = Actions /\ Size' = Size /\ TotalRounds' = TotalRounds
      /\ \A a : Position(a)' = Position(a)
  BY <1>1, SameRoot
<1>3. \A a : AccumulatedReward(a)' = AccumulatedReward(a)
  BY <1>1 DEF AccumulatedReward
<1>4. Decided' = Decided /\ InHalving' = InHalving /\ Round' = Round /\ Selecting' = Selecting
  BY <1>1 DEF Decided, InHalving, Round, Selecting
<1>5. SelectionTypeOK' /\ SeedsInOrder(trajectory_costs)' /\ Started' /\ NotStarted' /\ Uniformly'
  BY <1>1, <1>2, <1>4
     DEF SelectionInv, SelectionTypeOK, SeedsInOrder, Started, NotStarted, Uniformly
<1>6. Competition'
  BY <1>1, <1>2, <1>4
     DEF SelectionInv, Competition, Schedule, Evenly, Tried, ActionBudget, Beaten, Spent, ResultsOf
<1>7. Labels'
  BY <1>1, <1>2, <1>3, <1>4 DEF SelectionInv, Labels, AccumulatedReward
<1>8. Prescribed' /\ Thrown'
  BY <1>1, <1>2, <1>3, <1>4 DEF SelectionInv, Prescribed, Worst, Thrown
<1>9. QED
  BY <1>5, <1>6, <1>7, <1>8 DEF SelectionInv

-----------------------------------------------------------------------------
(* Those that compete are distinct actions. *)
LEMMA Competitors ==
  ASSUME SelectionTypeOK, Schedule
  PROVE  /\ Len(competing_actions) \in 1 .. Size /\ Size \in Nat
         /\ competing_actions \in [1 .. Len(competing_actions) -> Actions]
         /\ ToSet(competing_actions) \subseteq Actions
         /\ competing_actions[1] \in ToSet(competing_actions)
         /\ IsFiniteSet(ToSet(competing_actions))
         /\ Cardinality(ToSet(competing_actions)) = Len(competing_actions)
<1> DEFINE n == Len(competing_actions)
<1>1. /\ competing_actions \in Seq(Actions) /\ IsInjective(competing_actions)
      /\ competing_actions # <<>> /\ n <= Size /\ Size \in Nat
  BY Roots DEF SelectionTypeOK, Schedule
<1>2. /\ n \in Nat \ {0} /\ competing_actions \in [1 .. n -> Actions]
      /\ DOMAIN competing_actions = 1 .. n
  BY <1>1
<1>3. 1 \in 1 .. n /\ n \in 1 .. Size
  BY <1>1, <1>2
<1>4. competing_actions[1] \in ToSet(competing_actions)
  BY <1>2, <1>3 DEF ToSet
<1> HIDE DEF n
<1>5. QED
  BY <1>1, <1>2, <1>3, <1>4, DistinctCounted DEF n

(* What a round adds to the results stored. *)
LEMMA ResultsAdded ==
  ASSUME SelectionTypeOK, Schedule, Evenly(trajectory_costs, competing_actions),
         IsFiniteSet(ResultsOf(trajectory_costs)),
         NEW n \in Nat, NEW t, Rolled(ToSet(competing_actions), UsedPerAction, n, t)
  PROVE  /\ IsFiniteSet(ResultsOf(t))
         /\ Cardinality(ResultsOf(t)) =
              Cardinality(ResultsOf(trajectory_costs)) + Len(competing_actions) * n
<1> DEFINE C == ToSet(competing_actions)
           u == UsedPerAction
           R == ResultsOf(trajectory_costs)
           N == C \X (u + 1 .. u + n)
<1>1. C \subseteq Actions /\ IsFiniteSet(C) /\ Cardinality(C) = Len(competing_actions)
      /\ competing_actions[1] \in C
  BY Competitors
<1>2. \A a \in Actions : Len(trajectory_costs[a]) \in Nat
  BY DEF SelectionTypeOK
<1>3. u \in Nat /\ \A a \in C : Len(trajectory_costs[a]) = u
  BY <1>1, <1>2 DEF Evenly, UsedPerAction
<1>4. /\ \A a \in C : Len(t[a]) = u + n
      /\ \A a \in Actions \ C : Len(t[a]) = Len(trajectory_costs[a])
  BY <1>3 DEF Rolled
<1>5. \A a, k : <<a, k>> \in R <=> a \in Actions /\ k \in 1 .. Len(trajectory_costs[a])
  BY DEF ResultsOf
<1>6. \A a, k : <<a, k>> \in ResultsOf(t) <=> a \in Actions /\ k \in 1 .. Len(t[a])
  BY DEF ResultsOf
<1>7. /\ \A p \in R : \E a, k : p = <<a, k>>
      /\ \A p \in ResultsOf(t) : \E a, k : p = <<a, k>>
      /\ \A p \in N : \E a, k : p = <<a, k>>
  BY DEF ResultsOf
<1> HIDE DEF C, u, R
<1>8. \A a, k : <<a, k>> \in N <=> a \in C /\ k \in u + 1 .. u + n
  OBVIOUS
<1> HIDE DEF N
<1>9. ASSUME NEW a, NEW k
      PROVE  <<a, k>> \in ResultsOf(t) <=> <<a, k>> \in R \/ <<a, k>> \in N
  <2>1. CASE a \in C
    <3>1. Len(t[a]) = u + n /\ Len(trajectory_costs[a]) = u /\ a \in Actions
      BY <1>1, <1>3, <1>4, <2>1
    <3>2. k \in 1 .. u + n <=> k \in 1 .. u \/ k \in u + 1 .. u + n
      BY <1>3
    <3> QED
      BY <1>5, <1>6, <1>8, <2>1, <3>1, <3>2
  <2>2. CASE a \notin C
    BY <1>4, <1>5, <1>6, <1>8, <2>2
  <2> QED
    BY <2>1, <2>2
<1>10. ResultsOf(t) = R \cup N
  <2>1. ASSUME NEW p \in ResultsOf(t) PROVE p \in R \cup N
    <3>1. PICK a, k : p = <<a, k>>
      BY <1>7
    <3> QED
      BY <1>9, <2>1, <3>1
  <2>2. ASSUME NEW p \in R \cup N PROVE p \in ResultsOf(t)
    <3>1. PICK a, k : p = <<a, k>>
      BY <1>7
    <3> QED
      BY <1>9, <2>2, <3>1
  <2> QED
    BY <2>1, <2>2, Zenon
<1>11. R \cap N = {}
  <2>1. ASSUME NEW a, NEW k, <<a, k>> \in R, <<a, k>> \in N PROVE FALSE
    <3>1. a \in C /\ k \in u + 1 .. u + n /\ k \in 1 .. Len(trajectory_costs[a])
      BY <1>5, <1>8, <2>1
    <3> QED
      BY <1>3, <3>1
  <2>2. ASSUME NEW p, p \in R, p \in N PROVE FALSE
    <3>1. PICK a, k : p = <<a, k>>
      BY <1>7, <2>2
    <3> QED
      BY <2>1, <2>2, <3>1
  <2> QED
    BY <2>2, Zenon
<1>12. IsFiniteSet(N) /\ Cardinality(N) = Len(competing_actions) * n
  <2>1. IsFiniteSet(u + 1 .. u + n) /\ Cardinality(u + 1 .. u + n) = n
    <3> DEFINE lo == u + 1
               hi == u + n
    <3>1. lo \in Int /\ hi \in Int /\ (lo > hi => n = 0) /\ (lo <= hi => hi - lo + 1 = n)
      BY <1>3
    <3>2. IsFiniteSet(lo .. hi) /\ Cardinality(lo .. hi) = n
      <4> HIDE DEF lo, hi
      <4>1. IsFiniteSet(lo .. hi)
            /\ Cardinality(lo .. hi) = IF lo > hi THEN 0 ELSE hi - lo + 1
        BY <3>1, FS_Interval
      <4>2. lo > hi \/ lo <= hi
        BY <3>1
      <4> QED
        BY <3>1, <4>1, <4>2
    <3> QED
      BY <3>2
  <2> QED
    BY <1>1, <2>1, FS_Product DEF N
<1>13. IsFiniteSet(R) /\ Cardinality(R) \in Nat
  BY FS_CardinalityType DEF R
<1>14. /\ IsFiniteSet(R \cup N)
       /\ Cardinality(R \cup N) = Cardinality(R) + Cardinality(N) - Cardinality(R \cap N)
  BY <1>12, <1>13, FS_Union
<1>15. Cardinality(R \cap N) = 0
  BY <1>11, FS_EmptySet
<1>16. Cardinality(N) \in Nat
  BY <1>12, FS_CardinalityType
<1>17. Cardinality(R \cup N) = Cardinality(R) + Cardinality(N)
  BY <1>13, <1>14, <1>15, <1>16
<1>18. QED
  BY <1>10, <1>12, <1>14, <1>17 DEF R

LEMMA RollOutRoundStep == SelectionInv /\ Counted /\ RollOutRound => SelectionInv' /\ Counted'
<1> SUFFICES ASSUME SelectionInv, Counted, RollOutRound PROVE SelectionInv' /\ Counted'
  OBVIOUS
<1> DEFINE n == ActionBudget(Len(competing_actions))
           C == ToSet(competing_actions)
<1>1. /\ pc = "halving" /\ UNCHANGED <<root_actions, answer>>
      /\ UNCHANGED <<prescribed_action_allowed, prescribed_action_initial_policy, iter,
                     competing_actions>>
      /\ n # 0 => /\ trajectory_costs' \in Results(C, FirstSeed, n) /\ pc' = "halve"
                  /\ total_budget_used_per_action' = total_budget_used_per_action + n
  BY DEF RollOutRound, rootVars
<1>2. /\ Actions' = Actions /\ Size' = Size /\ TotalRounds' = TotalRounds
      /\ Position(answer)' = Position(answer)
  BY <1>1, SameRoot DEF Position, Size
<1>3. /\ SelectionTypeOK /\ SeedsInOrder(trajectory_costs) /\ Prescribed /\ Started
      /\ Schedule /\ Evenly(trajectory_costs, competing_actions)
      /\ Round > 0 => Tried(trajectory_costs)
      /\ Beaten(trajectory_costs, competing_actions)
      /\ Spent(trajectory_costs, Round)
  BY <1>1 DEF SelectionInv, Competition, InHalving
<1>4. /\ root_actions \in RootActions /\ trajectory_costs \in [Actions -> Seq(Result)]
      /\ iter \in Nat /\ Size > 1
  BY <1>1, <1>3 DEF SelectionTypeOK, Started, Selecting
<1>5. /\ Len(competing_actions) \in 1 .. Size /\ C \subseteq Actions /\ competing_actions[1] \in C
  BY <1>3, Competitors
<1>6. n \in Nat \ {0} /\ TotalRounds * (Len(competing_actions) * n) <= M * Size
  BY <1>3, <1>4, <1>5, BudgetOfRound DEF Schedule
<1>7. /\ trajectory_costs' \in Results(C, FirstSeed, n) /\ pc' = "halve"
      /\ total_budget_used_per_action' = total_budget_used_per_action + n
  BY <1>1, <1>6
<1> HIDE DEF n, C
<1>8. \A a \in Actions : Len(trajectory_costs[a]) \in Nat
  BY <1>4
<1>9. /\ UsedPerAction \in Nat /\ FirstSeed = UsedPerAction
      /\ \A a \in C : Len(trajectory_costs[a]) = UsedPerAction
      /\ \A a \in Actions : Len(trajectory_costs[a]) <= UsedPerAction
  <2>1. FirstSeed = UsedPerAction
    BY <1>1, <1>5 DEF FirstSeed, UsedPerAction, Counted, C
  <2> QED
    BY <1>3, <1>5, <1>8, <2>1 DEF UsedPerAction, Evenly, C
<1>10. Rolled(C, UsedPerAction, n, trajectory_costs')
  BY <1>4, <1>5, <1>6, <1>7, <1>9, RolledOut
<1>11. SeedsInOrder(trajectory_costs')
  BY <1>3, <1>5, <1>6, <1>7, <1>9, SeedsGoOn
<1>12. /\ trajectory_costs' \in [Actions -> Seq(Result)]
       /\ \A a \in Actions \ C : trajectory_costs'[a] = trajectory_costs[a]
       /\ \A a \in C : Len(trajectory_costs'[a]) = UsedPerAction + n
  BY <1>9, <1>10 DEF Rolled
<1>13. SelectionTypeOK' /\ SeedsInOrder(trajectory_costs)'
  <2>1. SelectionTypeOK'
    BY <1>1, <1>2, <1>3, <1>7, <1>12 DEF SelectionTypeOK, Stages
  <2>2. SeedsInOrder(trajectory_costs)'
    BY <1>2, <1>11 DEF SeedsInOrder
  <2> QED
    BY <2>1, <2>2
<1>14. Started' /\ NotStarted' /\ Uniformly' /\ Labels' /\ Thrown' /\ ~Decided'
  BY <1>1, <1>2, <1>4, <1>7 DEF Started, NotStarted, Uniformly, Labels, Decided, Thrown
<1>15. Prescribed'
  BY <1>1, <1>2, <1>3, <1>14 DEF Prescribed, Selecting
<1>16. Competition'
  <2>1. Schedule'
    <3>1. ~Decided
      BY <1>1 DEF Decided
    <3>2. Rounds(Len(competing_actions))' = Rounds(Len(competing_actions))
      BY <1>1
    <3> QED
      BY <1>1, <1>2, <1>3, <1>7, <1>14, <3>1, <3>2 DEF Schedule
  <2>2. Evenly(trajectory_costs, competing_actions)'
    <3>1. \A a \in C : Len(trajectory_costs'[a]) = Len(trajectory_costs'[competing_actions[1]])
      BY <1>5, <1>12
    <3>2. ASSUME NEW a \in Actions
          PROVE  Len(trajectory_costs'[a]) <= Len(trajectory_costs'[competing_actions[1]])
      <4>1. Len(trajectory_costs'[competing_actions[1]]) = UsedPerAction + n
        BY <1>5, <1>12
      <4>2. CASE a \in C
        BY <1>6, <1>9, <1>12, <4>1, <4>2
      <4>3. CASE a \notin C
        <5>1. Len(trajectory_costs'[a]) = Len(trajectory_costs[a])
          BY <1>12, <4>3
        <5> QED
          BY <1>6, <1>8, <1>9, <4>1, <5>1
      <4> QED
        BY <4>2, <4>3
    <3> QED
      BY <1>1, <1>2, <3>1, <3>2 DEF Evenly, C
  <2>3. Round = iter /\ Round' = iter + 1
    BY <1>1, <1>7 DEF Round
  <2>4. Tried(trajectory_costs)'
    <3>1. ASSUME NEW a \in Actions PROVE Len(trajectory_costs'[a]) >= ActionBudget(Size)
      <4>1. CASE iter = 0
        <5>1. competing_actions = root_actions /\ a \in C
          BY <1>3, <4>1 DEF Schedule, C, Actions
        <5>2. n = ActionBudget(Size)
          BY <5>1 DEF n, Size
        <5> QED
          BY <1>6, <1>9, <1>12, <5>1, <5>2
      <4>2. CASE iter # 0
        <5>1. Len(trajectory_costs[a]) >= ActionBudget(Size)
          BY <1>3, <1>4, <2>3, <4>2 DEF Tried
        <5>2. Size \in 1 .. Size
          <6>1. Size \in Nat
            BY <1>4, Roots
          <6> QED
            BY <1>4, <6>1
        <5>3. ActionBudget(Size) \in Nat
          BY <1>3, <1>4, <5>2, BudgetOfRound DEF Schedule
        <5>4. CASE a \in C
          BY <1>6, <1>9, <1>12, <5>1, <5>3, <5>4
        <5>5. CASE a \notin C
          BY <1>12, <5>1, <5>5
        <5> QED
          BY <5>4, <5>5
      <4> QED
        BY <4>1, <4>2
    <3> QED
      BY <1>1, <1>2, <3>1 DEF Tried, ActionBudget
  <2>5. Beaten(trajectory_costs, competing_actions)'
    <3>1. ASSUME NEW a \in Actions \ C, NEW b \in C
          PROVE  Sum(SubSeq(trajectory_costs'[b], 1, Len(trajectory_costs'[a])))
                   >= Sum(trajectory_costs'[a])
      <4>1. trajectory_costs'[a] = trajectory_costs[a]
        BY <1>12
      <4>2. PICK more \in Seq(Result) : trajectory_costs'[b] = trajectory_costs[b] \o more
        BY <1>5, <1>10 DEF Rolled
      <4>3. Len(trajectory_costs[a]) \in 0 .. Len(trajectory_costs[b])
        BY <1>5, <1>8, <1>9
      <4>4. trajectory_costs[b] \in Seq(Result)
        BY <1>4, <1>5
      <4>5. SubSeq(trajectory_costs'[b], 1, Len(trajectory_costs[a]))
              = SubSeq(trajectory_costs[b], 1, Len(trajectory_costs[a]))
        BY <4>2, <4>3, <4>4, Extended
      <4> QED
        BY <1>3, <4>1, <4>5 DEF Beaten, C
    <3> QED
      BY <1>1, <1>2, <3>1 DEF Beaten, C
  <2>6. Spent(trajectory_costs, Round)'
    <3>1. /\ IsFiniteSet(ResultsOf(trajectory_costs))
          /\ TotalRounds * Cardinality(ResultsOf(trajectory_costs)) <= iter * (M * Size)
      BY <1>3, <2>3 DEF Spent
    <3>2. /\ IsFiniteSet(ResultsOf(trajectory_costs'))
          /\ Cardinality(ResultsOf(trajectory_costs'))
               = Cardinality(ResultsOf(trajectory_costs)) + Len(competing_actions) * n
      BY <1>3, <1>6, <1>10, <3>1, ResultsAdded DEF C
    <3> DEFINE card == Cardinality(ResultsOf(trajectory_costs))
               adds == Len(competing_actions) * n
               budget == M * Size
    <3>3. card \in Nat /\ adds \in Nat /\ budget \in Nat /\ TotalRounds \in Nat
      <4>1. Len(competing_actions) \in Nat /\ Size \in Nat
        BY <1>3, <1>5, Competitors
      <4> QED
        BY <1>4, <1>6, <3>1, <4>1, FS_CardinalityType, RoundsTyped
    <3>4. TotalRounds * card <= iter * budget /\ TotalRounds * adds <= budget
      BY <1>6, <3>1
    <3> HIDE DEF card, adds, budget
    <3>5. TotalRounds * (card + adds) <= (iter + 1) * budget
      <4>1. TotalRounds * (card + adds) = TotalRounds * card + TotalRounds * adds
        BY <3>3
      <4>2. (iter + 1) * budget = iter * budget + budget
        BY <1>4, <3>3
      <4>3. TotalRounds * card \in Nat /\ TotalRounds * adds \in Nat /\ iter * budget \in Nat
        BY <1>4, <3>3
      <4> QED
        BY <3>3, <3>4, <4>1, <4>2, <4>3
    <3>6. ResultsOf(trajectory_costs)' = ResultsOf(trajectory_costs')
      BY <1>2 DEF ResultsOf
    <3> QED
      BY <1>2, <2>3, <3>2, <3>5, <3>6 DEF Spent, card, adds, budget
  <2> QED
    BY <2>1, <2>2, <2>4, <2>5, <2>6 DEF Competition
<1>17. Counted'
  <2>1. total_budget_used_per_action' = UsedPerAction + n
    BY <1>7, <1>9 DEF FirstSeed
  <2> QED
    BY <1>1, <1>12, <2>1 DEF Counted, C
<1>18. QED
  BY <1>13, <1>14, <1>15, <1>16, <1>17 DEF SelectionInv

-----------------------------------------------------------------------------
(* A ranking lists each that competes once. *)
LEMMA Rankings ==
  ASSUME SelectionTypeOK, Schedule, NEW ranking \in SetToSeqs(ToSet(competing_actions))
  PROVE  /\ ranking \in [1 .. Len(competing_actions) -> ToSet(competing_actions)]
         /\ IsInjective(ranking) /\ ToSet(ranking) = ToSet(competing_actions)
<1> DEFINE n == Len(competing_actions)
           C == ToSet(competing_actions)
<1>1. n \in Nat /\ C \subseteq Actions /\ IsFiniteSet(C) /\ Cardinality(C) = n
  BY Competitors
<1>2. ranking \in [1 .. n -> C] /\ \A i, j \in 1 .. n : i # j => ranking[i] # ranking[j]
  BY <1>1 DEF SetToSeqs
<1> HIDE DEF n, C
<1>3. IsInjective(ranking)
  BY <1>2 DEF IsInjective
<1>4. ranking \in [1 .. n -> Actions]
  BY <1>1, <1>2
<1>5. IsFiniteSet(ToSet(ranking)) /\ Cardinality(ToSet(ranking)) = n
  BY <1>1, <1>3, <1>4, DistinctCounted
<1>6. ToSet(ranking) \subseteq C
  BY <1>2 DEF ToSet
<1>7. ToSet(ranking) = C
  BY <1>1, <1>5, <1>6, FS_Subset
<1>8. QED
  BY <1>2, <1>3, <1>7 DEF n, C

(* Who is kept of a ranking, and who is not. *)
TopOf(C, ranking, n, m, s) ==
  /\ s \in Seq(Actions) /\ IsInjective(s) /\ Len(s) = m /\ s[1] = ranking[1]
  /\ ranking[1] \in ToSet(s) /\ ToSet(s) \subseteq C
  /\ \A b \in ToSet(s) : \E i \in 1 .. m : ranking[i] = b
  /\ \A a \in C \ ToSet(s) : \E j \in m + 1 .. n : ranking[j] = a

LEMMA TopOfRanking ==
  ASSUME NEW n \in Nat, NEW m \in 1 .. n, NEW C, C \subseteq Actions,
         NEW ranking \in [1 .. n -> C], IsInjective(ranking), ToSet(ranking) = C
  PROVE  TopOf(C, ranking, n, m, SubSeq(ranking, 1, m))
<1> DEFINE s == SubSeq(ranking, 1, m)
<1>1. /\ 1 \in 1 .. m /\ 1 .. m \subseteq 1 .. n /\ m \in Nat
      /\ ranking \in Seq(C)
  OBVIOUS
<1>2. s \in Seq(C) /\ Len(s) = m /\ \A i \in 1 .. m : s[i] = ranking[i]
  BY <1>1
<1> HIDE DEF s
<1>3. DOMAIN s = 1 .. m /\ s \in [1 .. m -> C]
  BY <1>2
<1>4. IsInjective(s)
  BY <1>1, <1>2, <1>3 DEF IsInjective
<1>5. ToSet(s) = {ranking[i] : i \in 1 .. m}
  BY <1>2, <1>3 DEF ToSet
<1>6. ASSUME NEW a \in C \ ToSet(s) PROVE \E j \in m + 1 .. n : ranking[j] = a
  <2>1. PICK j \in 1 .. n : ranking[j] = a
    BY <1>6 DEF ToSet
  <2>2. j \notin 1 .. m
    BY <1>5, <1>6, <2>1
  <2>3. j \in m + 1 .. n
    BY <1>1, <2>1, <2>2
  <2> QED
    BY <2>1, <2>3
<1>7. s \in Seq(Actions)
  BY <1>3, <1>1
<1>8. \A b \in ToSet(s) : b \in C /\ \E i \in 1 .. m : ranking[i] = b
  BY <1>1, <1>5
<1>9. TopOf(C, ranking, n, m, s)
  BY <1>1, <1>2, <1>4, <1>5, <1>6, <1>7, <1>8 DEF TopOf
<1>10. QED
  BY <1>9 DEF s

(* Who is dismissed has lost to each that is left. *)
LEMMA DismissedAreBeaten ==
  ASSUME SelectionTypeOK, Schedule, Evenly(trajectory_costs, competing_actions),
         Beaten(trajectory_costs, competing_actions),
         NEW ranking \in SetToSeqs(ToSet(competing_actions)), Ranked(ranking),
         NEW m \in 1 .. Len(competing_actions)
  PROVE  Beaten(trajectory_costs, SubSeq(ranking, 1, m))
<1> DEFINE n == Len(competing_actions)
           C == ToSet(competing_actions)
           K == ToSet(SubSeq(ranking, 1, m))
<1>1. n \in Nat /\ C \subseteq Actions /\ competing_actions[1] \in C
  BY Competitors
<1>2. ranking \in [1 .. n -> C] /\ IsInjective(ranking) /\ ToSet(ranking) = C /\ m \in 1 .. n
  BY Rankings
<1>3. /\ K \subseteq C
      /\ \A b \in K : \E i \in 1 .. m : ranking[i] = b
      /\ \A a \in C \ K : \E j \in m + 1 .. n : ranking[j] = a
  <2> HIDE DEF n, C
  <2>1. TopOf(C, ranking, n, m, SubSeq(ranking, 1, m))
    BY <1>1, <1>2, TopOfRanking
  <2> QED
    BY <2>1 DEF TopOf
<1>4. \A a, b \in C : Len(trajectory_costs[a]) = Len(trajectory_costs[b])
  BY DEF Evenly
<1>5. \A a \in Actions \ C, b \in C :
        Sum(SubSeq(trajectory_costs[b], 1, Len(trajectory_costs[a]))) >= Sum(trajectory_costs[a])
  BY DEF Beaten
<1>6. \A a \in Actions : trajectory_costs[a] \in Seq(Result)
  BY DEF SelectionTypeOK
<1> HIDE DEF n, C, K
<1>7. ASSUME NEW a \in Actions \ K, NEW b \in K
      PROVE  Sum(SubSeq(trajectory_costs[b], 1, Len(trajectory_costs[a])))
               >= Sum(trajectory_costs[a])
  <2>1. CASE a \notin C
    BY <1>3, <1>5, <2>1
  <2>2. CASE a \in C
    <3>1. PICK i \in 1 .. m : ranking[i] = b
      BY <1>3
    <3>2. PICK j \in m + 1 .. n : ranking[j] = a
      BY <1>3, <2>2
    <3>3. i \in 1 .. n /\ j \in 1 .. n /\ i < j
      BY <1>1, <1>2, <3>1, <3>2
    <3>4. AccumulatedReward(b) >= AccumulatedReward(a)
      BY <1>2, <3>1, <3>2, <3>3 DEF Ranked
    <3>5. Len(trajectory_costs[b]) = Len(trajectory_costs[a]) /\ trajectory_costs[b] \in Seq(Result)
      BY <1>1, <1>3, <1>4, <1>6, <2>2
    <3>6. SubSeq(trajectory_costs[b], 1, Len(trajectory_costs[a])) = trajectory_costs[b]
      BY <3>5, WholePrefix
    <3> QED
      BY <3>4, <3>6 DEF AccumulatedReward
  <2> QED
    BY <2>1, <2>2
<1>8. QED
  BY <1>7 DEF Beaten, K

LEMMA HalveStep == SelectionInv /\ Halve => SelectionInv'
<1> SUFFICES ASSUME SelectionInv, Halve PROVE SelectionInv'
  OBVIOUS
<1> DEFINE n == Len(competing_actions)
           m == TopM(n)
           C == ToSet(competing_actions)
           c == competing_actions'
<1>1. /\ pc = "halve" /\ UNCHANGED <<root_actions, answer>>
      /\ UNCHANGED <<prescribed_action_allowed, trajectory_costs>>
      /\ iter' = iter + 1
      /\ pc' = IF iter + 1 = TotalRounds THEN "fill" ELSE "halving"
      /\ prescribed_action_initial_policy' =
           IF iter = 0 /\ ~prescribed_action_allowed
           THEN competing_actions[n] ELSE prescribed_action_initial_policy
  BY DEF Halve, rootVars
<1>2. PICK ranking \in SetToSeqs(C) :
        /\ Ranked(ranking)
        /\ competing_actions' = SubSeq(ranking, 1, m)
        /\ NextAction' = IF iter + 1 = TotalRounds THEN ranking[1] ELSE None
  BY DEF Halve
<1>3. /\ Actions' = Actions /\ Size' = Size /\ TotalRounds' = TotalRounds
      /\ Position(answer)' = Position(answer)
  BY <1>1, SameRoot DEF Position, Size
<1>4. /\ SelectionTypeOK /\ SeedsInOrder(trajectory_costs) /\ Prescribed /\ Started
      /\ Schedule /\ Evenly(trajectory_costs, competing_actions)
      /\ Tried(trajectory_costs)
      /\ Beaten(trajectory_costs, competing_actions)
      /\ Spent(trajectory_costs, iter + 1)
  <2>1. Round = iter + 1 /\ iter \in Nat /\ SelectionTypeOK
    BY <1>1 DEF Round, SelectionInv, SelectionTypeOK
  <2>2. Round > 0
    BY <2>1
  <2> QED
    BY <1>1, <2>1, <2>2 DEF SelectionInv, Competition, InHalving
<1>5. /\ root_actions \in RootActions /\ iter \in Nat /\ Size > 1 /\ M > TotalRounds
      /\ iter + Rounds(n) = TotalRounds /\ Rounds(n) # 0
  BY <1>1, <1>4 DEF SelectionTypeOK, Started, Selecting, Schedule, Decided
<1>6. /\ n \in 1 .. Size /\ Size \in Nat /\ C \subseteq Actions /\ competing_actions[1] \in C
      /\ competing_actions \in [1 .. n -> Actions]
  BY <1>4, Competitors
<1>7. n \in Nat \ {0, 1} /\ n <= Size
  <2>1. n \in Nat \ {0} /\ n <= Size
    BY <1>6
  <2>2. n # 1
    BY <1>5, <2>1, RoundsOfOne
  <2> QED
    BY <2>1, <2>2
<1>8. /\ m \in 1 .. n /\ m \in Nat \ {0} /\ m <= Size
      /\ Rounds(n) = Rounds(m) + 1 /\ Rounds(m) \in Nat /\ (Rounds(m) = 0 <=> m = 1)
  <2>1. m \in Nat \ {0} /\ m <= n /\ Rounds(n) = Rounds(m) + 1
    BY <1>7, TopMBounds, RoundsOfHalf
  <2>2. Rounds(m) \in Nat /\ (Rounds(m) = 0 <=> m = 1)
    BY <2>1, RoundsOfOne
  <2>3. m \in 1 .. n /\ m <= Size
    BY <1>6, <1>7, <2>1
  <2> QED
    BY <2>1, <2>2, <2>3
<1>9. /\ ranking \in [1 .. n -> C] /\ IsInjective(ranking) /\ ToSet(ranking) = C
  BY <1>4, Rankings
<1>10. Beaten(trajectory_costs, SubSeq(ranking, 1, m))
  BY <1>2, <1>4, <1>8, DismissedAreBeaten
<1> HIDE DEF n, m, C
<1>11. /\ c \in Seq(Actions) /\ IsInjective(c) /\ Len(c) = m /\ c[1] = ranking[1]
       /\ ranking[1] \in ToSet(c) /\ ToSet(c) \subseteq C
  <2>1. n \in Nat
    BY <1>7
  <2>2. TopOf(C, ranking, n, m, SubSeq(ranking, 1, m))
    BY <1>6, <1>8, <1>9, <2>1, TopOfRanking
  <2> QED
    BY <1>2, <2>2 DEF TopOf
<1> HIDE DEF c
<1>12. iter + 1 = TotalRounds <=> m = 1
  BY <1>5, <1>8
<1>13. iter' \in Nat /\ iter' > 0 /\ iter' # 0
  BY <1>1, <1>5
<1>14. /\ pc' = IF m = 1 THEN "fill" ELSE "halving"
       /\ Decided' <=> m = 1
  <2>1. pc' = IF m = 1 THEN "fill" ELSE "halving"
    BY <1>1, <1>12
  <2> QED
    BY <2>1 DEF Decided
<1>15. SelectionTypeOK' /\ SeedsInOrder(trajectory_costs)'
  <2>1. competing_actions' \in Seq(Actions) /\ IsInjective(competing_actions')
    BY <1>11 DEF c
  <2>2. SelectionTypeOK'
    BY <1>1, <1>3, <1>4, <1>13, <1>14, <2>1 DEF SelectionTypeOK, Stages
  <2>3. SeedsInOrder(trajectory_costs)'
    BY <1>1, <1>3, <1>4 DEF SeedsInOrder
  <2> QED
    BY <2>2, <2>3
<1>16. Started' /\ NotStarted' /\ Uniformly' /\ Thrown'
  <2>1. InHalving'
    BY <1>13 DEF InHalving
  <2> QED
    BY <1>3, <1>5, <1>14, <2>1 DEF Started, NotStarted, Uniformly, Thrown
<1>17. Labels'
  <2>1. CASE m = 1
    <3>1. c = <<ranking[1]>>
      BY <1>11, <2>1
    <3>2. competing_actions' = <<NextAction'>>
      BY <1>2, <1>12, <2>1, <3>1 DEF c
    <3> QED
      BY <1>13, <3>2 DEF Labels
  <2>2. CASE m # 1
    BY <1>14, <2>2 DEF Labels
  <2> QED
    BY <2>1, <2>2
<1>18. Prescribed'
  <2>1. Selecting' /\ Selecting
    BY <1>1, <1>14 DEF Selecting
  <2>2. competing_actions[n] \in Actions
    BY <1>6, <1>7
  <2>3. /\ prescribed_action_allowed <=> answer \in Actions
        /\ prescribed_action_allowed => prescribed_action_initial_policy = Position(answer)
        /\ (~prescribed_action_allowed /\ iter > 0) =>
             prescribed_action_initial_policy \in Actions
    BY <1>4, <2>1 DEF Prescribed
  <2>4. iter = 0 \/ iter > 0
    BY <1>5
  <2>5. /\ prescribed_action_allowed =>
             prescribed_action_initial_policy' = prescribed_action_initial_policy
        /\ ~prescribed_action_allowed => prescribed_action_initial_policy' \in Actions
    BY <1>1, <2>2, <2>3, <2>4
  <2> QED
    BY <1>1, <1>3, <1>13, <2>1, <2>3, <2>5 DEF Prescribed
<1>19. Competition'
  <2>1. Schedule'
    <3>1. Rounds(Len(competing_actions))' = Rounds(m)
      BY <1>11 DEF c
    <3>2. iter' + Rounds(m) = TotalRounds
      BY <1>1, <1>5, <1>8
    <3>3. competing_actions' # <<>> /\ Len(competing_actions') <= Size
      BY <1>8, <1>11 DEF c
    <3>4. pc' \in {"halving", "halve"} \/ Decided'
      BY <1>14
    <3>5. Decided' <=> Rounds(m) = 0
      BY <1>8, <1>14
    <3> QED
      BY <1>3, <1>5, <1>13, <3>1, <3>2, <3>3, <3>4, <3>5 DEF Schedule
  <2>2. Evenly(trajectory_costs, competing_actions)'
    <3>1. /\ \A a \in C : Len(trajectory_costs[a]) = Len(trajectory_costs[competing_actions[1]])
          /\ \A a \in Actions :
               Len(trajectory_costs[a]) <= Len(trajectory_costs[competing_actions[1]])
      BY <1>4 DEF Evenly, C
    <3>2. c[1] \in ToSet(c) /\ c[1] \in C
      BY <1>11
    <3>3. /\ \A a \in ToSet(c) : Len(trajectory_costs[a]) = Len(trajectory_costs[c[1]])
          /\ \A a \in Actions : Len(trajectory_costs[a]) <= Len(trajectory_costs[c[1]])
      BY <1>11, <3>1, <3>2
    <3> QED
      BY <1>1, <1>3, <3>3 DEF Evenly, c
  <2>3. Round' = iter + 1
    BY <1>1, <1>14 DEF Round
  <2>4. Tried(trajectory_costs)'
    BY <1>1, <1>3, <1>4 DEF Tried, ActionBudget
  <2>5. Beaten(trajectory_costs, competing_actions)'
    BY <1>1, <1>2, <1>3, <1>10 DEF Beaten
  <2>6. Spent(trajectory_costs, Round)'
    <3>1. ResultsOf(trajectory_costs)' = ResultsOf(trajectory_costs)
      BY <1>1, <1>3 DEF ResultsOf
    <3> QED
      BY <1>3, <1>4, <2>3, <3>1 DEF Spent
  <2> QED
    BY <2>1, <2>2, <2>4, <2>5, <2>6 DEF Competition
<1>20. QED
  BY <1>4, <1>15, <1>16, <1>17, <1>18, <1>19 DEF SelectionInv

(* The other steps do not count, and who is left of those that compete     *)
(* competed before.                                                        *)
LEMMA OthersDoNotCount ==
  ASSUME SelectionInv, Counted,
         Trivial \/ Dispatch \/ RollOutAll \/ Compare \/ Halve \/ FillSample \/ UNCHANGED vars
  PROVE  Counted'
<1>1. CASE Trivial
  BY <1>1 DEF Trivial, Counted
<1>2. CASE Dispatch
  <2>1. /\ pc = "dispatch"
        /\ UNCHANGED <<competing_actions, trajectory_costs, total_budget_used_per_action>>
    BY <1>2 DEF Dispatch
  <2> QED
    BY <2>1 DEF Counted
<1>3. CASE RollOutAll
  BY <1>3 DEF RollOutAll, Counted
<1>4. CASE Compare
  BY <1>4 DEF Compare, Counted
<1>5. CASE Halve
  <2> DEFINE C == ToSet(competing_actions)
             n == Len(competing_actions)
             m == TopM(n)
  <2>1. /\ pc = "halve" /\ SelectionTypeOK /\ Schedule
        /\ UNCHANGED <<trajectory_costs, total_budget_used_per_action>>
    BY <1>5 DEF Halve, SelectionInv, Competition, InHalving
  <2>2. PICK ranking \in SetToSeqs(C) : competing_actions' = SubSeq(ranking, 1, m)
    BY <1>5 DEF Halve
  <2>3. ranking \in [1 .. n -> C] /\ IsInjective(ranking) /\ ToSet(ranking) = C
    BY <2>1, <2>2, Rankings
  <2>4. C \subseteq Actions /\ n \in Nat \ {0} /\ m \in 1 .. n
    <3>1. n \in Nat \ {0} /\ C \subseteq Actions
      BY <2>1, Competitors DEF Schedule
    <3> QED
      BY <3>1, TopMBounds
  <2>5. ToSet(competing_actions)' \subseteq C
    <3> HIDE DEF n, m, C
    <3>1. TopOf(C, ranking, n, m, SubSeq(ranking, 1, m))
      BY <2>3, <2>4, TopOfRanking
    <3>2. ToSet(competing_actions)' = ToSet(SubSeq(ranking, 1, m))
      BY <2>2 DEF ToSet
    <3> QED
      BY <3>1, <3>2 DEF TopOf
  <2> QED
    BY <2>1, <2>5 DEF Counted
<1>6. CASE FillSample
  BY <1>6 DEF FillSample, Counted
<1>7. CASE UNCHANGED vars
  BY <1>7 DEF vars, Counted
<1>8. QED
  BY <1>1, <1>2, <1>3, <1>4, <1>5, <1>6, <1>7

LEMMA NextSelection == SelectionInv /\ Counted /\ [Next]_vars => SelectionInv' /\ Counted'
<1> SUFFICES ASSUME SelectionInv, Counted, [Next]_vars PROVE SelectionInv' /\ Counted'
  OBVIOUS
<1>1. CASE Trivial
  BY <1>1, TrivialStep, OthersDoNotCount
<1>2. CASE Dispatch
  BY <1>2, DispatchStep, OthersDoNotCount
<1>3. CASE RollOutAll
  BY <1>3, RollOutAllStep, OthersDoNotCount
<1>4. CASE Compare
  BY <1>4, CompareStep, OthersDoNotCount
<1>5. CASE RollOutRound
  BY <1>5, RollOutRoundStep
<1>6. CASE Halve
  BY <1>6, HalveStep, OthersDoNotCount
<1>7. CASE FillSample
  BY <1>7, FillSampleStep, OthersDoNotCount
<1>8. CASE UNCHANGED vars
  BY <1>8, SelectionStutter, OthersDoNotCount
<1>9. CASE Ended
  BY <1>8, <1>9 DEF Ended
<1>10. QED
  BY <1>1, <1>2, <1>3, <1>4, <1>5, <1>6, <1>7, <1>8, <1>9 DEF Next

(* SelectAction of both selectors, at every point of it. *)
THEOREM SelectionSound == Spec => []SelectionInv
<1>1. Init => SelectionInv /\ Counted
  <2>1. ASSUME Init PROVE Counted
    <3>1. \A a \in Actions : Len(trajectory_costs[a]) = total_budget_used_per_action
      BY <2>1 DEF Init
    <3>2. ToSet(competing_actions) = Actions
      BY <2>1 DEF Init, Actions
    <3> QED
      BY <3>1, <3>2 DEF Counted
  <2> QED
    BY <2>1, InitSelection
<1>2. SelectionInv /\ Counted /\ [Next]_vars => SelectionInv' /\ Counted'
  BY NextSelection
<1>3. QED
  BY <1>1, <1>2, PTL DEF Spec

-----------------------------------------------------------------------------
(***************************************************************************)
(* What follows from it.                                                   *)
(***************************************************************************)

(* What holds once an action is decided on. *)
LEMMA AtTheEnd ==
  ASSUME SelectionInv, Labelled
  PROVE  /\ root_actions \in RootActions /\ Size > 1 /\ Size \in Nat /\ iter \in Nat
         /\ iter > 0 => /\ M > TotalRounds /\ iter = TotalRounds
                        /\ Tried(trajectory_costs) /\ Spent(trajectory_costs, TotalRounds)
                        /\ Beaten(trajectory_costs, competing_actions)
                        /\ competing_actions = <<NextAction>> /\ NextAction \in Actions
         /\ iter = 0 => /\ \A a \in Actions : Len(trajectory_costs[a]) = M
                        /\ NextAction \in Actions
                        /\ \A a \in Actions : AccumulatedReward(a) <= AccumulatedReward(NextAction)
<1>1. /\ pc \in {"fill", "labelled"} /\ SelectionTypeOK /\ Started /\ Uniformly /\ Competition
      /\ Labels
  BY DEF SelectionInv, Labelled
<1>2. root_actions \in RootActions /\ Size > 1 /\ iter \in Nat
  BY <1>1 DEF SelectionTypeOK, Started, Selecting
<1>3. Size \in Nat
  BY <1>2, Roots
<1>4. ASSUME iter > 0
      PROVE  /\ M > TotalRounds /\ iter = TotalRounds
             /\ Tried(trajectory_costs) /\ Spent(trajectory_costs, TotalRounds)
             /\ Beaten(trajectory_costs, competing_actions)
             /\ competing_actions = <<NextAction>> /\ NextAction \in Actions
  <2>1. /\ Schedule /\ Round = iter /\ Tried(trajectory_costs) /\ Spent(trajectory_costs, iter)
        /\ Beaten(trajectory_costs, competing_actions)
    BY <1>1, <1>4 DEF Competition, InHalving, Round
  <2>2. M > TotalRounds /\ iter + 0 = TotalRounds
    BY <1>1, <2>1 DEF Schedule, Decided
  <2>3. iter = TotalRounds
    BY <1>2, <2>2
  <2>4. competing_actions = <<NextAction>>
    BY <1>1, <1>4 DEF Labels, Decided
  <2>5. competing_actions[1] \in ToSet(competing_actions)
        /\ ToSet(competing_actions) \subseteq Actions
    BY <1>1, <2>1, Competitors
  <2>6. NextAction \in Actions
    BY <2>4, <2>5
  <2> QED
    BY <2>1, <2>2, <2>3, <2>4, <2>6
<1>5. ASSUME iter = 0
      PROVE  /\ \A a \in Actions : Len(trajectory_costs[a]) = M
             /\ NextAction \in Actions
             /\ \A a \in Actions : AccumulatedReward(a) <= AccumulatedReward(NextAction)
  <2>1. ~InHalving
    BY <1>1, <1>5 DEF InHalving
  <2>2. \A a \in Actions : Len(trajectory_costs[a]) = M
    BY <1>1, <2>1 DEF Uniformly
  <2>3. /\ NextAction \in Actions
        /\ \A a \in Actions : AccumulatedReward(a) <= AccumulatedReward(NextAction)
    BY <1>1, <1>5 DEF Labels, Decided
  <2> QED
    BY <2>2, <2>3
<1>6. QED
  BY <1>2, <1>3, <1>4, <1>5

(* The shares of all rounds together are at most the budget. *)
LEMMA SharesAddUp ==
  ASSUME NEW rounds \in Nat \ {0}, NEW card \in Nat, NEW budget \in Nat,
         rounds * card <= rounds * budget
  PROVE  card <= budget
<1> SUFFICES ASSUME card >= budget + 1 PROVE FALSE
  OBVIOUS
<1>1. rounds * (card - budget) >= rounds
  <2>1. card - budget - 1 \in Nat
    OBVIOUS
  <2>2. rounds * (card - budget - 1) \in Nat
    BY <2>1
  <2> QED
    BY <2>2
<1>2. rounds * (card - budget) = rounds * card - rounds * budget
  OBVIOUS
<1>3. rounds * card \in Nat /\ rounds * budget \in Nat
  OBVIOUS
<1>4. QED
  BY <1>1, <1>2, <1>3

(* Sequential halving never spends more than UniformActionSelector would,  *)
(* and no action goes without a rollout, whatever the actions and M.       *)
THEOREM BudgetIsKept == Spec => []BudgetKept
<1>1. SelectionInv => BudgetKept
  <2> SUFFICES ASSUME SelectionInv, Labelled
               PROVE  /\ Cardinality(Replications) <= M * Size
                      /\ \A a \in Actions : trajectory_costs[a] # <<>>
    BY DEF BudgetKept
  <2>1. /\ root_actions \in RootActions /\ Size > 1 /\ Size \in Nat /\ iter \in Nat
        /\ iter > 0 => /\ M > TotalRounds /\ iter = TotalRounds
                       /\ Tried(trajectory_costs) /\ Spent(trajectory_costs, TotalRounds)
        /\ iter = 0 => \A a \in Actions : Len(trajectory_costs[a]) = M
    BY AtTheEnd
  <2>2. \A a \in Actions : trajectory_costs[a] \in Seq(Result)
    BY DEF SelectionInv, SelectionTypeOK
  <2>3. Replications = ResultsOf(trajectory_costs)
    <3>1. \A a \in Actions : DOMAIN trajectory_costs[a] = 1 .. Len(trajectory_costs[a])
      BY <2>2
    <3> QED
      BY <3>1 DEF Replications, ResultsOf
  <2>4. M \in Nat \ {0} /\ M * Size \in Nat
    BY <2>1, RoundsTyped
  <2>5. CASE iter > 0
    <3>1. /\ IsFiniteSet(ResultsOf(trajectory_costs))
          /\ TotalRounds * Cardinality(ResultsOf(trajectory_costs)) <= TotalRounds * (M * Size)
      BY <2>1, <2>5 DEF Spent
    <3>2. Cardinality(ResultsOf(trajectory_costs)) \in Nat /\ TotalRounds \in Nat \ {0}
      BY <2>1, <2>5, <3>1, FS_CardinalityType
    <3>3. Cardinality(ResultsOf(trajectory_costs)) <= M * Size
      BY <2>4, <3>1, <3>2, SharesAddUp
    <3>4. ActionBudget(Size) \in Nat \ {0}
      <4>1. Size \in 1 .. Size
        BY <2>1
      <4> QED
        BY <2>1, <2>5, <4>1, BudgetOfRound
    <3>5. ASSUME NEW a \in Actions PROVE trajectory_costs[a] # <<>>
      <4>1. Len(trajectory_costs[a]) >= ActionBudget(Size) /\ Len(trajectory_costs[a]) \in Nat
        BY <2>1, <2>2, <2>5 DEF Tried
      <4>2. Len(trajectory_costs[a]) # 0
        BY <3>4, <4>1
      <4> QED
        BY <4>2
    <3> QED
      BY <2>3, <3>3, <3>5
  <2>6. CASE iter = 0
    <3>1. \A a \in Actions : Len(trajectory_costs[a]) = M
      BY <2>1, <2>6
    <3>2. ResultsOf(trajectory_costs) = Actions \X (1 .. M)
      <4>1. ResultsOf(trajectory_costs) = UNION {{a} \X (1 .. M) : a \in Actions}
        BY <3>1 DEF ResultsOf
      <4> QED
        BY <4>1
    <3>3. /\ IsFiniteSet(Actions) /\ Cardinality(Actions) = Size
          /\ IsFiniteSet(1 .. M) /\ Cardinality(1 .. M) = M
      BY <2>1, <2>4, ActionsCounted, UpTo
    <3>4. Cardinality(Actions \X (1 .. M)) = Size * M
      BY <3>3, FS_Product
    <3>5. Cardinality(ResultsOf(trajectory_costs)) <= M * Size
      BY <2>1, <2>4, <3>2, <3>4
    <3>6. \A a \in Actions : trajectory_costs[a] # <<>>
      BY <2>4, <3>1
    <3> QED
      BY <2>3, <3>5, <3>6
  <2> QED
    BY <2>1, <2>5, <2>6
<1>2. QED
  BY <1>1, SelectionSound, PTL

(* The results of any two actions are paired by seed, whatever rounds of   *)
(* halving they were got in: the confidence intervals of DCL use the       *)
(* paired differences.                                                     *)
THEOREM ResultsArePaired == Spec => []PairedBySeed
<1>1. SelectionInv => PairedBySeed
  <2> SUFFICES ASSUME SelectionInv, NEW a \in Actions, NEW b \in Actions,
                      NEW k \in DOMAIN trajectory_costs[a], NEW j \in DOMAIN trajectory_costs[b]
               PROVE  (k = j) <=> (trajectory_costs[a][k].seed = trajectory_costs[b][j].seed)
    BY DEF PairedBySeed
  <2>1. trajectory_costs[a] \in Seq(Result) /\ trajectory_costs[b] \in Seq(Result)
    BY DEF SelectionInv, SelectionTypeOK
  <2>2. k \in 1 .. Len(trajectory_costs[a]) /\ j \in 1 .. Len(trajectory_costs[b])
    BY <2>1
  <2>3. trajectory_costs[a][k].seed = k - 1 /\ trajectory_costs[b][j].seed = j - 1
    BY <2>2 DEF SelectionInv, SeedsInOrder
  <2>4. k \in Nat /\ j \in Nat
    BY <2>1, <2>2
  <2> QED
    BY <2>3, <2>4
<1>2. QED
  BY <1>1, SelectionSound, PTL

(* The label lost to no action on the seeds that one was tried with, not   *)
(* even to one dismissed in the first round.                               *)
THEOREM LabelIsTheBest == Spec => []LabelBeatsTheOthers
<1>1. SelectionInv => LabelBeatsTheOthers
  <2> SUFFICES ASSUME SelectionInv, Labelled, NEW a \in Actions
               PROVE  Sum(SubSeq(trajectory_costs[NextAction], 1, Len(trajectory_costs[a])))
                        >= AccumulatedReward(a)
    BY DEF LabelBeatsTheOthers
  <2>1. /\ iter \in Nat /\ NextAction \in Actions
        /\ iter > 0 => /\ Beaten(trajectory_costs, competing_actions)
                       /\ competing_actions = <<NextAction>>
        /\ iter = 0 => /\ \A b \in Actions : Len(trajectory_costs[b]) = M
                       /\ \A b \in Actions : AccumulatedReward(b) <= AccumulatedReward(NextAction)
    <3>1. iter \in Nat => iter > 0 \/ iter = 0
      OBVIOUS
    <3> QED
      BY <3>1, AtTheEnd
  <2>2. \A b \in Actions : /\ trajectory_costs[b] \in Seq(Result)
                           /\ AccumulatedReward(b) \in Int
    BY RewardTyped DEF SelectionInv, SelectionTypeOK
  <2>3. ASSUME Len(trajectory_costs[NextAction]) = Len(trajectory_costs[a])
        PROVE  Sum(SubSeq(trajectory_costs[NextAction], 1, Len(trajectory_costs[a])))
                 = AccumulatedReward(NextAction)
    BY <2>1, <2>2, <2>3, WholePrefix DEF AccumulatedReward
  <2>4. CASE a = NextAction
    BY <2>1, <2>2, <2>3, <2>4
  <2>5. CASE iter = 0
    BY <2>1, <2>2, <2>3, <2>5
  <2>6. CASE iter > 0 /\ a # NextAction
    <3>1. ToSet(competing_actions) = {NextAction}
      <4>1. competing_actions = <<NextAction>>
        BY <2>1, <2>6
      <4>2. DOMAIN competing_actions = {1} /\ competing_actions[1] = NextAction
        BY <4>1
      <4> QED
        BY <4>2 DEF ToSet
    <3> QED
      BY <2>1, <2>6, <3>1 DEF Beaten, AccumulatedReward
  <2>7. iter = 0 \/ iter > 0
    BY <2>1
  <2> QED
    BY <2>4, <2>5, <2>6, <2>7
<1>2. QED
  BY <1>1, SelectionSound, PTL

(* ceil(log2) rounds, each keeping the better half rounded up, leave just  *)
(* one action, whatever the number there was.                              *)
THEOREM HalvingLeavesOne == Spec => []OneIsLeft
<1>1. SelectionInv => OneIsLeft
  BY AtTheEnd DEF OneIsLeft
<1>2. QED
  BY <1>1, SelectionSound, PTL

(* Statistics are relative to the prescribed action if that is allowed,    *)
(* and to the worst one if it is not and the selector is the uniform one;  *)
(* a selection only throws where halving mistakes an action for an index.  *)
THEOREM RelativeToPrescribed == Spec => []RelativeToThePolicy
<1>1. SelectionInv => RelativeToThePolicy
  <2> SUFFICES ASSUME SelectionInv PROVE RelativeToThePolicy
    OBVIOUS
  <2>1. /\ SelectionTypeOK /\ Started /\ Prescribed /\ Thrown /\ root_actions \in RootActions
        /\ iter \in Nat
    BY DEF SelectionInv, SelectionTypeOK
  <2>2. \A a \in Actions : Position(a) \in 0 .. Size - 1 /\ root_actions[Position(a) + 1] = a
    BY <2>1, Roots
  <2>3. ASSUME pc = "labelled", prescribed_action_allowed
        PROVE  root_actions[prescribed_action_initial_policy + 1] = answer
    BY <2>1, <2>2, <2>3 DEF Prescribed, Selecting
  <2>4. ASSUME pc = "labelled", ~prescribed_action_allowed, iter = 0, NEW a \in Actions
        PROVE  AccumulatedReward(root_actions[prescribed_action_initial_policy + 1])
                 <= AccumulatedReward(a)
    <3>1. \E b \in Actions : prescribed_action_initial_policy = Position(b) /\ Worst(b)
      BY <2>1, <2>4 DEF Prescribed, Selecting, Decided
    <3> QED
      BY <2>2, <3>1 DEF Worst
  <2>5. ASSUME pc = "threw"
        PROVE  ~prescribed_action_allowed /\ iter > 0 /\ root_actions[Size] >= Size
    <3>1. prescribed_action_initial_policy \notin 0 .. Size - 1 /\ Size > 1
      BY <2>1, <2>5 DEF Thrown, Started, Selecting
    <3>2. ~prescribed_action_allowed
      BY <2>1, <2>2, <2>5, <3>1 DEF Prescribed, Selecting
    <3>3. iter > 0
      <4>1. CASE iter = 0
        <5>1. \E b \in Actions : prescribed_action_initial_policy = Position(b)
          BY <2>1, <2>5, <3>2, <4>1 DEF Prescribed, Selecting, Decided
        <5> QED
          BY <2>2, <3>1, <5>1
      <4> QED
        BY <2>1, <4>1
    <3>4. prescribed_action_initial_policy \in Actions
      BY <2>1, <2>5, <3>2, <3>3 DEF Prescribed, Selecting
    <3>5. /\ Size \in Nat /\ prescribed_action_initial_policy \in Nat
          /\ prescribed_action_initial_policy <= root_actions[Size]
          /\ root_actions[Size] \in Nat
      <4>1. Size \in Nat /\ root_actions \in [1 .. Size -> Nat] /\ Actions \subseteq Nat
            /\ \A a \in Actions : a <= root_actions[Size]
        BY <2>1, Roots
      <4>2. Size \in 1 .. Size
        BY <3>1, <4>1
      <4> QED
        BY <3>4, <4>1, <4>2
    <3>6. prescribed_action_initial_policy >= Size
      BY <3>1, <3>5
    <3> QED
      BY <3>2, <3>3, <3>5, <3>6
  <2> QED
    BY <2>3, <2>4, <2>5 DEF RelativeToThePolicy
<1>2. QED
  BY <1>1, SelectionSound, PTL
=============================================================================
