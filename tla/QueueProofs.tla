---------------------------- MODULE QueueProofs -----------------------------
(***************************************************************************)
(* Theorems about the queue_mdp simulator and the heuristics that run on   *)
(* it, for every number of types, pools and servers, every depth and all   *)
(* rates, in both action modes.  In this order:                            *)
(*   1. counting by tokens and the listing of a finite set in an order;    *)
(*      the candidates, the queues and the lines of QueueStatic;           *)
(*   2. types and capacities; lines in order, the incremental arrival      *)
(*      rate and who is revealed; the slots of the event sample;           *)
(*   3. decision epochs: the queue shown is the one of the state, a        *)
(*      decision is about a candidate that may start, a pending refresh    *)
(*      finds its job, the chain implements the multi-skill queue, an      *)
(*      epoch is over after finitely many steps, and no late job waits for *)
(*      a server that a policy made to serve late jobs has left idle;      *)
(*   4. the heuristics: what each answers is allowed, none leaves a server *)
(*      idle that could work, and each serves in its own order.            *)
(***************************************************************************)
EXTENDS QueuePolicies, FiniteSetTheorems, SequenceTheorems, TLAPS

-----------------------------------------------------------------------------
(* The least element of a non-empty set of naturals is one of them.        *)
LEMMA LeastIsMember ==
  ASSUME NEW S, S \subseteq Nat, S # {}
  PROVE  Least(S) \in S /\ \A y \in S : Least(S) <= y
<1> DEFINE Lt == {p \in Nat \X Nat : p[1] < p[2]}
<1>1. OpToRel(<, Nat) = Lt
  BY DEF OpToRel
<1>2. IsWellFoundedOn(Lt, Nat)
  BY <1>1, NatLessThanWellFounded
<1> HIDE DEF Lt
<1>3. PICK x \in S : \A y \in S : ~(<<y, x>> \in Lt)
  BY <1>2, WFMin
<1>4. ASSUME NEW y \in S PROVE x <= y
  <2>1. x \in Nat /\ y \in Nat /\ <<y, x>> \notin Lt
    BY <1>3
  <2>2. y < x => <<y, x>> \in Lt
    BY <2>1 DEF Lt
  <2> QED
    BY <2>1, <2>2
<1>5. QED
  BY <1>4 DEF Least

(* The positions of a sequence are finitely many. *)
LEMMA UpToFinite ==
  ASSUME NEW n \in Nat
  PROVE  IsFiniteSet(1 .. n) /\ Cardinality(1 .. n) = n
<1>1. 1 \in Int /\ n \in Int /\ (1 > n => n = 0) /\ n - 1 + 1 = n
  OBVIOUS
<1>2. QED
  BY <1>1, FS_Interval

(* Counting by tokens is counting: the tokens of finitely many naturals    *)
(* are finitely many.                                                      *)
LEMMA TokensFinite ==
  ASSUME NEW S, IsFiniteSet(S), NEW f, \A x \in S : f[x] \in Nat
  PROVE  IsFiniteSet(Tokens(f, S)) /\ Total(f, S) \in Nat
<1> DEFINE G == [x \in S |-> {x} \X (1 .. f[x])]
           T == {{x} \X (1 .. f[x]) : x \in S}
<1>1. G \in Surjection(S, T)
  BY DEF Surjection
<1>2. IsFiniteSet(T)
  BY <1>1, FS_Surjection
<1>3. ASSUME NEW x \in S PROVE IsFiniteSet({x} \X (1 .. f[x]))
  <2>1. IsFiniteSet({x})
    BY FS_Singleton
  <2>2. f[x] \in Nat
    OBVIOUS
  <2>3. IsFiniteSet(1 .. f[x])
    BY <2>2, UpToFinite
  <2> QED
    BY <2>1, <2>3, FS_Product
<1>4. IsFiniteSet(UNION T)
  <2>1. \A t \in T : IsFiniteSet(t)
    BY <1>3
  <2> HIDE DEF T
  <2> QED
    BY <1>2, <2>1, FS_UNION
<1>5. QED
  BY <1>4, FS_CardinalityType DEF Tokens, Total

(* The tokens of f over S, one by one. *)
LEMMA TokenOf ==
  ASSUME NEW S, NEW f, NEW x, NEW i
  PROVE  <<x, i>> \in Tokens(f, S) <=> x \in S /\ i \in 1 .. f[x]
BY DEF Tokens

(* Tokens are pairs. *)
LEMMA TokenIsPair ==
  ASSUME NEW S, NEW f, NEW t \in Tokens(f, S)
  PROVE  \E x \in S : \E i \in 1 .. f[x] : t = <<x, i>>
BY DEF Tokens

(* Total adds up: one more at one place is one more in total. *)
LEMMA TotalIncrement ==
  ASSUME NEW S, IsFiniteSet(S), NEW f, \A y \in S : f[y] \in Nat,
         NEW g, \A y \in S : g[y] \in Nat,
         NEW x \in S, g[x] = f[x] + 1, \A y \in S \ {x} : g[y] = f[y]
  PROVE  Total(g, S) = Total(f, S) + 1
<1> DEFINE t == <<x, f[x] + 1>>
<1>1. f[x] \in Nat
  OBVIOUS
<1>2. t \notin Tokens(f, S)
  BY <1>1, TokenOf
<1>3. Tokens(g, S) = Tokens(f, S) \cup {t}
  <2>1. ASSUME NEW y, NEW i PROVE <<y, i>> \in Tokens(g, S) <=> <<y, i>> \in Tokens(f, S) \cup {t}
    <3>1. <<y, i>> \in Tokens(g, S) <=> y \in S /\ i \in 1 .. g[y]
      BY TokenOf
    <3>2. <<y, i>> \in Tokens(f, S) <=> y \in S /\ i \in 1 .. f[y]
      BY TokenOf
    <3>3. CASE y = x
      BY <1>1, <3>1, <3>2, <3>3
    <3>4. CASE y # x
      BY <3>1, <3>2, <3>4
    <3> QED
      BY <3>3, <3>4
  <2>2. \A u \in Tokens(g, S) : \E y, i : u = <<y, i>>
    BY TokenIsPair
  <2>3. \A u \in Tokens(f, S) \cup {t} : \E y, i : u = <<y, i>>
    BY TokenIsPair
  <2> QED
    BY <2>1, <2>2, <2>3
<1>4. IsFiniteSet(Tokens(f, S))
  BY TokensFinite
<1>5. QED
  BY <1>2, <1>3, <1>4, FS_AddElement DEF Total

(* The total over one place is what is there. *)
LEMMA TotalSingleton ==
  ASSUME NEW f, NEW x, f[x] \in Nat
  PROVE  Total(f, {x}) = f[x]
<1>1. Tokens(f, {x}) = {x} \X (1 .. f[x])
  BY DEF Tokens
<1>2. IsFiniteSet({x}) /\ Cardinality({x}) = 1
  BY FS_Singleton
<1>3. IsFiniteSet(1 .. f[x]) /\ Cardinality(1 .. f[x]) = f[x]
  BY UpToFinite
<1>4. Cardinality({x} \X (1 .. f[x])) = 1 * f[x]
  <2> DEFINE A == {x}
             B == 1 .. f[x]
  <2>1. IsFiniteSet(A) /\ IsFiniteSet(B) /\ Cardinality(A) = 1 /\ Cardinality(B) = f[x]
    BY <1>2, <1>3
  <2> HIDE DEF A, B
  <2>2. Cardinality(A \X B) = Cardinality(A) * Cardinality(B)
    BY <2>1, FS_Product, Zenon
  <2>3. Cardinality(A \X B) = 1 * f[x]
    BY <2>1, <2>2, Zenon
  <2> QED
    BY <2>3 DEF A, B
<1>5. \A m \in Nat : 1 * m = m
  OBVIOUS
<1>6. QED
  BY <1>1, <1>4, <1>5, Zenon DEF Total

(* Total is monotonic, in the set and in the summands. *)
LEMMA TotalMonotonic ==
  ASSUME NEW S, IsFiniteSet(S), NEW f, \A y \in S : f[y] \in Nat,
         NEW R \in SUBSET S, NEW g, \A y \in R : g[y] \in Nat /\ g[y] <= f[y]
  PROVE  Total(g, R) <= Total(f, S)
<1>1. Tokens(g, R) \subseteq Tokens(f, S)
  <2> SUFFICES ASSUME NEW t \in Tokens(g, R) PROVE t \in Tokens(f, S)
    OBVIOUS
  <2>1. PICK x \in R : \E i \in 1 .. g[x] : t = <<x, i>>
    BY TokenIsPair
  <2>1a. PICK i \in 1 .. g[x] : t = <<x, i>>
    BY <2>1
  <2>2. g[x] \in Nat /\ g[x] <= f[x] /\ f[x] \in Nat /\ x \in S
    OBVIOUS
  <2>3. i \in 1 .. f[x]
    BY <2>2
  <2> QED
    BY <2>1a, <2>2, <2>3, TokenOf
<1>2. QED
  BY <1>1, TokensFinite, FS_Subset DEF Total

-----------------------------------------------------------------------------
(* Adding a place to a total adds what is there. *)
LEMMA TotalAdd ==
  ASSUME NEW S, IsFiniteSet(S), NEW f, \A y \in S : f[y] \in Nat,
         NEW x, x \notin S, f[x] \in Nat
  PROVE  Total(f, S \cup {x}) = Total(f, S) + f[x]
<1>1. Tokens(f, S \cup {x}) = Tokens(f, S) \cup Tokens(f, {x})
  BY DEF Tokens
<1>2. Tokens(f, S) \cap Tokens(f, {x}) = {}
  <2>1. ASSUME NEW t \in Tokens(f, S), t \in Tokens(f, {x}) PROVE FALSE
    <3>1. PICK y \in S : \E i \in 1 .. f[y] : t = <<y, i>>
      BY TokenIsPair
    <3>2. \E j \in 1 .. f[x] : t = <<x, j>>
      BY <2>1, TokenIsPair
    <3> QED
      BY <3>1, <3>2
  <2> QED
    BY <2>1
<1>3. IsFiniteSet({x}) /\ \A y \in {x} : f[y] \in Nat
  BY FS_Singleton
<1>4. IsFiniteSet(Tokens(f, S)) /\ IsFiniteSet(Tokens(f, {x}))
  BY <1>3, TokensFinite
<1>5. Total(f, S \cup {x}) = Total(f, S) + Total(f, {x}) - Cardinality(Tokens(f, S) \cap Tokens(f, {x}))
  BY <1>1, <1>4, FS_Union DEF Total
<1>6. Cardinality(Tokens(f, S) \cap Tokens(f, {x})) = 0
  BY <1>2, FS_EmptySet
<1>7. Total(f, S) \in Nat /\ Total(f, {x}) = f[x]
  BY TokensFinite, TotalSingleton
<1>8. QED
  BY <1>5, <1>6, <1>7

(* Totals over disjoint sets add up. *)
LEMMA TotalUnion ==
  ASSUME NEW S, IsFiniteSet(S), NEW T, IsFiniteSet(T), S \cap T = {},
         NEW f, \A y \in S \cup T : f[y] \in Nat
  PROVE  Total(f, S \cup T) = Total(f, S) + Total(f, T)
<1>1. Tokens(f, S \cup T) = Tokens(f, S) \cup Tokens(f, T)
  BY DEF Tokens
<1>2. Tokens(f, S) \cap Tokens(f, T) = {}
  <2>1. ASSUME NEW t \in Tokens(f, S), t \in Tokens(f, T) PROVE FALSE
    <3>1. PICK y \in S : \E i \in 1 .. f[y] : t = <<y, i>>
      BY TokenIsPair
    <3>2. PICK z \in T : \E j \in 1 .. f[z] : t = <<z, j>>
      BY <2>1, TokenIsPair
    <3> QED
      BY <3>1, <3>2
  <2> QED
    BY <2>1
<1>3. IsFiniteSet(Tokens(f, S)) /\ IsFiniteSet(Tokens(f, T)) /\ Total(f, S) \in Nat /\ Total(f, T) \in Nat
  BY TokensFinite
<1>4. Total(f, S \cup T) = Total(f, S) + Total(f, T) - Cardinality(Tokens(f, S) \cap Tokens(f, T))
  BY <1>1, <1>3, FS_Union DEF Total
<1>5. Cardinality(Tokens(f, S) \cap Tokens(f, T)) = 0
  BY <1>2, FS_EmptySet
<1>6. QED
  BY <1>3, <1>4, <1>5

(* Nothing adds up to nothing. *)
LEMMA TotalEmpty ==
  ASSUME NEW f
  PROVE  Total(f, {}) = 0
<1>1. Tokens(f, {}) = {}
  BY TokenIsPair
<1>2. QED
  BY <1>1, FS_EmptySet DEF Total

(* What holds at 0 and is passed on from n to n + 1 holds at N.  The values *)
(* it holds at are a set: the least one missing would contradict it.       *)
LEMMA UpwardInduction ==
  ASSUME NEW N \in Nat, NEW Good, 0 \in Good, \A n \in 0 .. N - 1 : n \in Good => n + 1 \in Good
  PROVE  N \in Good
<1> DEFINE Bad == {n \in 0 .. N : n \notin Good}
<1> SUFFICES ASSUME N \notin Good PROVE FALSE
  OBVIOUS
<1>1. Bad # {} /\ Bad \subseteq Nat
  OBVIOUS
<1>2. Least(Bad) \in Bad /\ \A n \in Bad : Least(Bad) <= n
  BY <1>1, LeastIsMember
<1>3. PICK n \in 0 .. N : n \notin Good /\ \A m \in Bad : n <= m
  BY <1>2
<1>4. n # 0 /\ n - 1 \in 0 .. N - 1 /\ n - 1 \in 0 .. N /\ (n - 1) + 1 = n /\ ~(n <= n - 1)
  BY <1>3
<1>5. n - 1 \in Good
  BY <1>3, <1>4
<1>6. QED
  BY <1>3, <1>4, <1>5

-----------------------------------------------------------------------------
(* R is a strict total order of the members of S. *)
StrictlyOrders(R, S) ==
  /\ \A x \in S : <<x, x>> \notin R
  /\ \A x, y, z \in S : <<x, y>> \in R /\ <<y, z>> \in R => <<x, z>> \in R
  /\ \A x, y \in S : x = y \/ <<x, y>> \in R \/ <<y, x>> \in R

(* In a strict total order of a finite set every rank below its size is    *)
(* taken by one member, so that Ranked lists members only.                 *)
LEMMA RankedMember ==
  ASSUME NEW S, IsFiniteSet(S), NEW R, StrictlyOrders(R, S),
         NEW i \in 1 .. Cardinality(S)
  PROVE  Ranked(S, R)[i] \in S /\ Cardinality(Below(S, R, Ranked(S, R)[i])) = i - 1
<1> DEFINE N == Cardinality(S)
           f == [x \in S |-> Cardinality(Below(S, R, x))]
<1>1. N \in Nat /\ N > 0
  BY FS_CardinalityType
<1>2. \A x \in S : IsFiniteSet(Below(S, R, x)) /\ Cardinality(Below(S, R, x)) \in Nat
  BY FS_Subset, FS_CardinalityType DEF Below
<1>3. ASSUME NEW x \in S PROVE Cardinality(Below(S, R, x)) \in 0 .. N - 1
  <2>1. Below(S, R, x) \in SUBSET S /\ x \notin Below(S, R, x)
    BY DEF Below, StrictlyOrders
  <2>2. Cardinality(Below(S, R, x)) <= N /\ Cardinality(Below(S, R, x)) # N
    BY <2>1, FS_Subset
  <2> QED
    BY <1>1, <1>2, <2>2
<1>4. ASSUME NEW x \in S, NEW y \in S, <<x, y>> \in R
      PROVE  Cardinality(Below(S, R, x)) # Cardinality(Below(S, R, y))
  <2>1. Below(S, R, x) \in SUBSET Below(S, R, y)
    BY <1>4 DEF Below, StrictlyOrders
  <2>2. x \in Below(S, R, y) /\ x \notin Below(S, R, x)
    BY <1>4 DEF Below, StrictlyOrders
  <2> QED
    BY <1>2, <2>1, <2>2, FS_Subset
<1>5. f \in Injection(S, 0 .. N - 1)
  <2>1. f \in [S -> 0 .. N - 1]
    BY <1>3
  <2>2. ASSUME NEW x \in S, NEW y \in S, f[x] = f[y] PROVE x = y
    <3>1. Cardinality(Below(S, R, x)) = Cardinality(Below(S, R, y))
      BY <2>2
    <3> QED
      BY <1>4, <3>1 DEF StrictlyOrders
  <2> QED
    BY <2>1, <2>2 DEF Injection, IsInjective
<1>6. IsFiniteSet(0 .. N - 1) /\ Cardinality(0 .. N - 1) = N
  <2>1. 0 \in Int /\ N - 1 \in Int /\ ~(0 > N - 1) /\ (N - 1) - 0 + 1 = N
    BY <1>1
  <2> HIDE DEF N
  <2> QED
    BY <2>1, FS_Interval
<1>7. f \in Surjection(S, 0 .. N - 1)
  BY <1>5, <1>6, FS_Injection
<1>8. i - 1 \in 0 .. N - 1
  BY <1>1
<1>9. \E x \in S : Cardinality(Below(S, R, x)) = i - 1
  BY <1>7, <1>8 DEF Surjection
<1>10. QED
  BY <1>9 DEF Ranked

(* Every member of a finite set is listed. *)
LEMMA RankedCovers ==
  ASSUME NEW S, IsFiniteSet(S), NEW R, StrictlyOrders(R, S), NEW x \in S
  PROVE  \E i \in 1 .. Cardinality(S) : Ranked(S, R)[i] = x
<1> DEFINE B == Below(S, R, x)
           i == Cardinality(B) + 1
           y == Ranked(S, R)[i]
<1>1. B \in SUBSET S /\ x \notin B
  BY DEF Below, StrictlyOrders
<1>2. Cardinality(B) \in Nat /\ Cardinality(S) \in Nat /\ Cardinality(B) < Cardinality(S)
  <2>1. Cardinality(B) <= Cardinality(S) /\ Cardinality(B) # Cardinality(S)
    BY <1>1, FS_Subset
  <2>2. Cardinality(B) \in Nat /\ Cardinality(S) \in Nat
    BY <1>1, FS_Subset, FS_CardinalityType
  <2> QED
    BY <2>1, <2>2
<1>3. i \in 1 .. Cardinality(S) /\ i - 1 = Cardinality(B)
  BY <1>2
<1> HIDE DEF i
<1>4. y \in S /\ Cardinality(Below(S, R, y)) = Cardinality(B)
  BY <1>3, RankedMember
<1> HIDE DEF y
<1>5. ASSUME NEW u \in S, NEW v \in S, <<u, v>> \in R
      PROVE  Cardinality(Below(S, R, u)) # Cardinality(Below(S, R, v))
  <2>1. Below(S, R, u) \in SUBSET Below(S, R, v)
    BY <1>5 DEF Below, StrictlyOrders
  <2>2. u \in Below(S, R, v) /\ u \notin Below(S, R, u)
    BY <1>5 DEF Below, StrictlyOrders
  <2>3. IsFiniteSet(Below(S, R, v))
    BY FS_Subset DEF Below
  <2> QED
    BY <2>1, <2>2, <2>3, FS_Subset
<1>6. x = y
  BY <1>4, <1>5 DEF StrictlyOrders
<1>7. QED
  BY <1>3, <1>6 DEF y

(* Finitely many integers, given by a function, have a largest one. *)
LEMMA LargestExists ==
  ASSUME NEW S, IsFiniteSet(S), S # {}, S \subseteq Nat, NEW f, \A x \in S : f[x] \in Int
  PROVE  {x \in S : \A y \in S : f[y] <= f[x]} # {}
<1> DEFINE R == {p \in S \X S : f[p[1]] > f[p[2]] \/ (f[p[1]] = f[p[2]] /\ p[1] < p[2])}
           x == Ranked(S, R)[1]
<1>1. \A u, v \in S : <<u, v>> \in R <=> f[u] > f[v] \/ (f[u] = f[v] /\ u < v)
  OBVIOUS
<1>2. Cardinality(S) \in Nat /\ Cardinality(S) # 0
  BY FS_CardinalityType, FS_EmptySet
<1> HIDE DEF R
<1>3. StrictlyOrders(R, S)
  BY <1>1 DEF StrictlyOrders
<1>4. x \in S /\ Cardinality(Below(S, R, x)) = 0
  <2>1. 1 \in 1 .. Cardinality(S) /\ 1 - 1 = 0
    BY <1>2
  <2> QED
    BY <1>3, <2>1, RankedMember
<1> HIDE DEF x
<1>5. Below(S, R, x) = {}
  BY <1>4, FS_Subset, FS_EmptySet DEF Below
<1>6. ASSUME NEW y \in S PROVE f[y] <= f[x]
  <2>1. <<y, x>> \notin R
    BY <1>5 DEF Below
  <2> QED
    BY <1>1, <1>4, <2>1
<1>7. QED
  BY <1>4, <1>6

-----------------------------------------------------------------------------
(* The lines of waiting jobs, and the servers at work. *)
Lines == [Jobs -> Seq(Nat)]
Busy  == [Pools -> [Jobs -> Nat]]

(* There are finitely many types and pools, numbered from 0. *)
LEMMA JobsAndPoolsFinite ==
  IsFiniteSet(Jobs) /\ IsFiniteSet(Pools) /\ Jobs \subseteq Nat /\ Pools \subseteq Nat
<1>1. NJobs - 1 \in Int /\ KServers - 1 \in Int /\ 0 \in Int
  BY StaticAssumption
<1>2. QED
  BY <1>1, FS_Interval DEF Jobs, Pools

(* Heads of line are ages, or None. *)
LEMMA FILType ==
  ASSUME NEW w \in Lines, NEW n \in Jobs
  PROVE  /\ FIL(w)[n] \in Int
         /\ w[n] = <<>> => FIL(w)[n] = -1
         /\ w[n] # <<>> => FIL(w)[n] = w[n][1] /\ FIL(w)[n] \in Nat
BY HeadTailProperties DEF FIL, None, Lines

(* A pool has a number of busy servers, and an integer number of free      *)
(* ones.                                                                   *)
LEMMA BusyInType ==
  ASSUME NEW b \in Busy, NEW k \in Pools
  PROVE  BusyIn(b, k) \in Nat /\ Capacity(b, k) \in Int
<1>1. \A n \in Jobs : b[k][n] \in Nat
  BY DEF Busy
<1>2. BusyIn(b, k) \in Nat
  BY <1>1, TokensFinite, JobsAndPoolsFinite DEF BusyIn
<1>3. QED
  BY <1>2, StaticAssumption DEF Capacity

(* The order in which candidates are presented leaves no two of them       *)
(* equal: the sort of generate_actions has one result.                     *)
LEMMA PresentationOrderStrict ==
  ASSUME NEW w \in Lines, NEW b
  PROVE  /\ IsFiniteSet(Candidates(w, b))
         /\ StrictlyOrders(PresentationOrder(FIL(w), Candidates(w, b)), Candidates(w, b))
<1> DEFINE C == Candidates(w, b)
           R == PresentationOrder(FIL(w), C)
<1>1. C \in SUBSET (Pools \X Jobs)
  BY DEF Candidates
<1>2. IsFiniteSet(C)
  BY <1>1, JobsAndPoolsFinite, FS_Product, FS_Subset
<1>3. \A c \in C : /\ c = <<c[1], c[2]>> /\ c[1] \in Nat /\ c[2] \in Nat
                   /\ c[1] \in Pools /\ c[2] \in Jobs
  BY <1>1, JobsAndPoolsFinite
<1>4. \A c \in C : FIL(w)[c[2]] \in Int
  BY <1>3, FILType
<1>5. \A c, d \in C : <<c, d>> \in R <=> Precedes(FIL(w), c, d)
  BY DEF PresentationOrder
<1> HIDE DEF C, R
<1>6. \A c \in C : ~Precedes(FIL(w), c, c)
  BY <1>3, <1>4 DEF Precedes
<1>7. ASSUME NEW c \in C, NEW d \in C, NEW e \in C,
             Precedes(FIL(w), c, d), Precedes(FIL(w), d, e)
      PROVE  Precedes(FIL(w), c, e)
  BY <1>3, <1>4, <1>7 DEF Precedes
<1>8. ASSUME NEW c \in C, NEW d \in C
      PROVE  c = d \/ Precedes(FIL(w), c, d) \/ Precedes(FIL(w), d, c)
  BY <1>3, <1>4 DEF Precedes
<1>9. StrictlyOrders(R, C)
  BY <1>5, <1>6, <1>7, <1>8 DEF StrictlyOrders
<1>10. QED
  BY <1>2, <1>9 DEF C, R

(* The candidate queue lists candidates, as entries. *)
LEMMA CandidateQueueType ==
  ASSUME NEW w \in Lines, NEW b \in Busy
  PROVE  /\ CandidateQueue(w, b) \in Seq(Entry)
         /\ Len(CandidateQueue(w, b)) = Cardinality(Candidates(w, b))
         /\ \A i \in 1 .. Len(CandidateQueue(w, b)) :
              LET e == CandidateQueue(w, b)[i] IN <<e.k, e.n>> \in Candidates(w, b)
<1> DEFINE C == Candidates(w, b)
           s == Ranked(C, PresentationOrder(FIL(w), C))
           N == Cardinality(C)
           Q == [i \in 1 .. N |-> Labelled(w, b, s[i])]
<1>1. IsFiniteSet(C) /\ N \in Nat
  BY PresentationOrderStrict, FS_CardinalityType
<1>2. \A i \in 1 .. N : s[i] \in C
  BY PresentationOrderStrict, RankedMember
<1>3. ASSUME NEW c \in C
      PROVE  Labelled(w, b, c) \in Entry /\ <<Labelled(w, b, c).k, Labelled(w, b, c).n>> = c
  <2>1. c \in Pools \X Jobs
    BY DEF Candidates
  <2>2. c[1] \in Pools /\ c[2] \in Jobs /\ c = <<c[1], c[2]>>
    BY <2>1
  <2> QED
    BY <2>2 DEF Labelled, Entry
<1>4. CandidateQueue(w, b) = Q
  BY DEF CandidateQueue
<1> HIDE DEF C, s, N
<1>5. Q \in [1 .. N -> Entry]
  BY <1>2, <1>3
<1>6. Q \in Seq(Entry) /\ Len(Q) = N
  BY <1>1, <1>5
<1>7. \A i \in 1 .. N : <<Q[i].k, Q[i].n>> \in C
  BY <1>2, <1>3
<1>8. QED
  BY <1>4, <1>6, <1>7 DEF C, N

(* The idle servers are finitely many, and listed pool by pool. *)
LEMMA IdleUnitsOrdered ==
  ASSUME NEW w \in Lines, NEW b \in Busy
  PROVE  /\ IsFiniteSet(IdleUnits(w, b))
         /\ \A u \in IdleUnits(w, b) : u = <<u[1], u[2]>> /\ u[1] \in Pools /\ u[2] \in Int
         /\ StrictlyOrders(PoolMajor(IdleUnits(w, b)), IdleUnits(w, b))
<1> DEFINE U == IdleUnits(w, b)
           F == {p \in Pools : Feasible(w, p)}
           c == [k \in F |-> Capacity(b, k)]
           G == [k \in F |-> {k} \X (1 .. Capacity(b, k))]
           T == {{k} \X (1 .. Capacity(b, k)) : k \in F}
<1>1. IsFiniteSet(U)
  <2>1. IsFiniteSet(F)
    BY JobsAndPoolsFinite, FS_Subset
  <2>2. G \in Surjection(F, T)
    BY DEF Surjection
  <2>3. IsFiniteSet(T)
    BY <2>1, <2>2, FS_Surjection
  <2>4. ASSUME NEW k \in F PROVE IsFiniteSet({k} \X (1 .. Capacity(b, k)))
    <3>1. IsFiniteSet({k})
      BY FS_Singleton
    <3>2. Capacity(b, k) \in Int /\ 1 \in Int
      BY BusyInType
    <3>3. IsFiniteSet(1 .. Capacity(b, k))
      BY <3>2, FS_Interval
    <3> QED
      BY <3>1, <3>3, FS_Product
  <2>5. \A t \in T : IsFiniteSet(t)
    BY <2>4
  <2>6. U = UNION T
    BY DEF IdleUnits
  <2> HIDE DEF T, U
  <2> QED
    BY <2>3, <2>5, <2>6, FS_UNION
<1>2. \A u \in U : u = <<u[1], u[2]>> /\ u[1] \in Pools /\ u[1] \in Nat /\ u[2] \in Int
  BY JobsAndPoolsFinite, BusyInType DEF IdleUnits
<1>3. \A u, v \in U : <<u, v>> \in PoolMajor(U) <=> u[1] < v[1] \/ (u[1] = v[1] /\ u[2] < v[2])
  BY DEF PoolMajor
<1> HIDE DEF U
<1>4. StrictlyOrders(PoolMajor(U), U)
  BY <1>2, <1>3 DEF StrictlyOrders
<1>5. QED
  BY <1>1, <1>2, <1>4 DEF U

(* So does the per-event queue: its entries are pools with a free server. *)
LEMMA UnitQueueType ==
  ASSUME NEW w \in Lines, NEW b \in Busy
  PROVE  UnitQueue(w, b) \in Seq(Entry)
<1> DEFINE U == IdleUnits(w, b)
           s == Ranked(U, PoolMajor(U))
           N == Cardinality(U)
           Q == [i \in 1 .. N |-> UnitEntry(s[i][1])]
<1>1. IsFiniteSet(U) /\ (\A u \in U : u[1] \in Pools) /\ StrictlyOrders(PoolMajor(U), U)
  BY IdleUnitsOrdered
<1>2. UnitQueue(w, b) = Q
  BY DEF UnitQueue
<1> HIDE DEF U
<1>3. \A i \in 1 .. N : s[i] \in U
  BY <1>1, RankedMember
<1>4. \A u \in U : UnitEntry(u[1]) \in Entry
  BY <1>1 DEF UnitEntry, Entry
<1>5. N \in Nat
  BY <1>1, FS_CardinalityType
<1> HIDE DEF s, N
<1>6. Q \in [1 .. N -> Entry]
  BY <1>3, <1>4
<1>7. QED
  BY <1>2, <1>5, <1>6

(* In either action mode a queue of entries is generated. *)
LEMMA GenerateActionsType ==
  ASSUME NEW w \in Lines, NEW b \in Busy
  PROVE  GenerateActions(w, b) \in Seq(Entry)
BY CandidateQueueType, UnitQueueType DEF GenerateActions

(* Pruning a queue of entries leaves a queue of entries. *)
LEMMA PruneType ==
  ASSUME NEW q \in Seq(Entry), NEW b
  PROVE  Prune(q, b) \in Seq(Entry)
<1> DEFINE S == Kept(q, b)
           R == {p \in S \X S : p[1] < p[2]}
           s == Ranked(S, R)
           N == Cardinality(S)
           Q == [i \in 1 .. N |-> q[s[i]]]
<1>1. DOMAIN q = 1 .. Len(q) /\ Len(q) \in Nat /\ \A i \in DOMAIN q : q[i] \in Entry
  OBVIOUS
<1>2. S \in SUBSET (1 .. Len(q))
  BY <1>1 DEF Kept
<1>3. IsFiniteSet(S)
  <2>1. IsFiniteSet(1 .. Len(q))
    BY <1>1, UpToFinite
  <2> HIDE DEF S
  <2> QED
    BY <1>2, <2>1, FS_Subset
<1>4. \A x, y \in S : <<x, y>> \in R <=> x < y
  OBVIOUS
<1>5. \A x \in S : x \in Int /\ q[x] \in Entry
  BY <1>1, <1>2
<1> HIDE DEF S, R
<1>6. StrictlyOrders(R, S)
  BY <1>4, <1>5 DEF StrictlyOrders
<1>7. \A i \in 1 .. N : s[i] \in S
  BY <1>3, <1>6, RankedMember
<1>8. N \in Nat
  BY <1>3, FS_CardinalityType
<1>9. Prune(q, b) = Q
  BY DEF Prune, S, R
<1> HIDE DEF s, N
<1>10. Q \in [1 .. N -> Entry]
  BY <1>5, <1>7
<1>11. QED
  BY <1>8, <1>9, <1>10

-----------------------------------------------------------------------------
(* What assign_job and complete_job do to the pools. *)
LEMMA AssignJobEffect ==
  ASSUME NEW b \in Busy, NEW k \in Pools, NEW n, CanAssign(b, k, n),
         \A p \in Pools : BusyIn(b, p) <= Servers[p]
  PROVE  /\ AssignJob(b, k, n) \in Busy
         /\ AssignJob(b, k, n) = [b EXCEPT ![k][n] = @ + 1]
         /\ \A p \in Pools : BusyIn(AssignJob(b, k, n), p) <= Servers[p]
<1> DEFINE g == [b EXCEPT ![k][n] = @ + 1]
<1>1. n \in Jobs /\ n \in CanServe[k] /\ BusyIn(b, k) < Servers[k]
  BY StaticAssumption DEF CanAssign
<1>2. b[k][n] \in Nat /\ \A m \in Jobs : b[k][m] \in Nat
  BY <1>1 DEF Busy
<1>3. g \in Busy
  BY <1>1, <1>2 DEF Busy
<1>4. BusyIn(g, k) = BusyIn(b, k) + 1
  <2>1. g[k][n] = b[k][n] + 1 /\ \A m \in Jobs \ {n} : g[k][m] = b[k][m]
    BY <1>1 DEF Busy
  <2>2. \A m \in Jobs : g[k][m] \in Nat
    BY <1>3 DEF Busy
  <2> HIDE DEF g
  <2> QED
    BY <1>1, <1>2, <2>1, <2>2, TotalIncrement, JobsAndPoolsFinite DEF BusyIn
<1>5. ASSUME NEW p \in Pools PROVE BusyIn(g, p) <= Servers[p]
  <2>1. CASE p = k
    BY <1>1, <1>4, <2>1, BusyInType, StaticAssumption
  <2>2. CASE p # k
    <3>1. g[p] = b[p]
      BY <2>2 DEF Busy
    <3> HIDE DEF g
    <3> QED
      BY <3>1 DEF BusyIn
  <2> QED
    BY <2>1, <2>2
<1>6. b[k][n] <= BusyIn(b, k)
  <2>5. Total(b[k], {n}) = b[k][n]
    BY <1>2, TotalSingleton
  <2>6. Total(b[k], {n}) <= Total(b[k], Jobs)
    <3>1. \A m \in {n} : b[k][m] \in Nat /\ b[k][m] <= b[k][m]
      BY <1>2
    <3>2. {n} \in SUBSET Jobs
      BY <1>1
    <3> HIDE DEF g
    <3> QED
      BY <1>2, <3>1, <3>2, TotalMonotonic, JobsAndPoolsFinite
  <2> QED
    BY <1>2, <2>5, <2>6 DEF BusyIn
<1>7. AssignJob(b, k, n) = g
  <2>1. b[k][n] < Servers[k]
    BY <1>1, <1>2, <1>6, BusyInType, StaticAssumption
  <2> QED
    BY <1>1, <2>1 DEF AssignJob
<1>8. QED
  BY <1>3, <1>5, <1>7

(* Starting a job takes one server of its pool, and none of the others. *)
LEMMA AssignJobCounts ==
  ASSUME NEW b \in Busy, NEW k \in Pools, NEW n, CanAssign(b, k, n),
         \A p \in Pools : BusyIn(b, p) <= Servers[p]
  PROVE  /\ Capacity(AssignJob(b, k, n), k) = Capacity(b, k) - 1
         /\ \A p \in Pools \ {k} : Capacity(AssignJob(b, k, n), p) = Capacity(b, p)
<1> DEFINE g == AssignJob(b, k, n)
<1>1. g \in Busy /\ g = [b EXCEPT ![k][n] = @ + 1]
  BY AssignJobEffect
<1>2. n \in Jobs
  BY StaticAssumption DEF CanAssign
<1> HIDE DEF g
<1>3. g[k][n] = b[k][n] + 1 /\ \A m \in Jobs \ {n} : g[k][m] = b[k][m]
  BY <1>1, <1>2 DEF Busy
<1>4. \A m \in Jobs : b[k][m] \in Nat /\ g[k][m] \in Nat
  BY <1>1 DEF Busy
<1>5. BusyIn(g, k) = BusyIn(b, k) + 1
  BY <1>2, <1>3, <1>4, JobsAndPoolsFinite, TotalIncrement DEF BusyIn
<1>6. \A p \in Pools \ {k} : g[p] = b[p]
  BY <1>1 DEF Busy
<1>7. BusyIn(b, k) \in Nat /\ Servers[k] \in Nat
  BY BusyInType, StaticAssumption
<1>8. Capacity(g, k) = Capacity(b, k) - 1
  BY <1>5, <1>7 DEF Capacity
<1>9. \A p \in Pools \ {k} : Capacity(g, p) = Capacity(b, p)
  BY <1>6 DEF Capacity, BusyIn
<1>10. QED
  BY <1>8, <1>9 DEF g

(* complete_job keeps every count natural and makes no pool busier. *)
LEMMA CompleteJobEffect ==
  ASSUME NEW b \in Busy, NEW k, NEW n
  PROVE  /\ CompleteJob(b, k, n) \in Busy
         /\ \A p \in Pools : BusyIn(CompleteJob(b, k, n), p) <= BusyIn(b, p)
<1> DEFINE g == CompleteJob(b, k, n)
<1>1. g \in Busy
  <2>1. CASE k \in Pools /\ n \in Jobs /\ b[k][n] > 0
    <3>1. b[k] \in [Jobs -> Nat] /\ b[k][n] \in Nat /\ b[k][n] - 1 \in Nat
      BY <2>1 DEF Busy
    <3>2. [b EXCEPT ![k][n] = @ - 1] \in Busy
      BY <2>1, <3>1 DEF Busy
    <3> QED
      BY <3>2 DEF CompleteJob
  <2>2. CASE ~(b[k][n] > 0)
    BY <2>2 DEF CompleteJob
  <2>3. CASE k \notin Pools \/ n \notin Jobs
    <3>1. [b EXCEPT ![k][n] = @ - 1] = b
      BY <2>3 DEF Busy
    <3> QED
      BY <3>1 DEF CompleteJob
  <2> QED
    BY <2>1, <2>2, <2>3
<1>2. ASSUME NEW p \in Pools PROVE BusyIn(g, p) <= BusyIn(b, p)
  <2>1. \A m \in Jobs : g[p][m] \in Nat /\ b[p][m] \in Nat /\ g[p][m] <= b[p][m]
    BY DEF CompleteJob, Busy
  <2> HIDE DEF g
  <2> QED
    BY <2>1, TotalMonotonic, JobsAndPoolsFinite DEF BusyIn
<1>3. QED
  BY <1>1, <1>2

-----------------------------------------------------------------------------
(* An arrival is always one of a known type whose line is not full. *)
LEMMA ArrivalIsOpen ==
  ASSUME TypeOK, NEW u, EventAt(u).type = "Arrival"
  PROVE  EventAt(u).n \in Jobs /\ NotFull(waiting, EventAt(u).n)
<1> DEFINE H == ArrivalHit(waiting, u)
<1>1. EventAt(u) = Arrival(Least(H)) /\ H # {}
  BY DEF EventAt, GetEventType, Nothing, Tick, Arrival, Completion
<1>2. H \subseteq Nat /\ \A n \in H : n \in Jobs /\ NotFull(waiting, n)
  BY JobsAndPoolsFinite DEF ArrivalHit
<1> HIDE DEF H
<1>3. Least(H) \in H
  BY <1>1, <1>2, LeastIsMember
<1>4. EventAt(u).n = Least(H)
  BY <1>1 DEF Arrival
<1>5. QED
  BY <1>2, <1>3, <1>4

(* The steps of the uniformized process, one by one. *)
LEMMA EventCases ==
  ASSUME TypeOK, UniformizedEvent
  PROVE  \/ \E n \in Jobs : NotFull(waiting, n) /\ HandleArrival(n)
         \/ \E k, n : HandleCompletion(k, n)
         \/ HandleTick
         \/ HandleNothing
<1>1. PICK u \in 0 .. UniformizationRate - 1 : HandleEvent(EventAt(u))
  BY DEF UniformizedEvent, Happens
<1>2. CASE EventAt(u).type = "Arrival" /\ HandleArrival(EventAt(u).n)
  BY <1>2, ArrivalIsOpen
<1>3. QED
  BY <1>1, <1>2 DEF HandleEvent

-----------------------------------------------------------------------------
(***************************************************************************)
(* Types and capacity.                                                     *)
(***************************************************************************)
LEMMA InitTyped == Init => TypeOK /\ PoolCapacity
<1> SUFFICES ASSUME Init PROVE TypeOK /\ PoolCapacity
  OBVIOUS
<1>1. Total(ArrivalRate, Jobs) \in Nat
  <2>1. \A n \in Jobs : ArrivalRate[n] \in Nat
    BY StaticAssumption
  <2> QED
    BY <2>1, TokensFinite, JobsAndPoolsFinite
<1>2. TypeOK
  BY <1>1 DEF Init, TypeOK, None
<1>3. ASSUME NEW k \in Pools PROVE BusyIn(busy_on, k) <= Servers[k]
  <2>1. Tokens(busy_on[k], Jobs) = {}
    BY <1>3, TokenIsPair DEF Init
  <2>2. BusyIn(busy_on, k) = 0
    BY <2>1, FS_EmptySet DEF BusyIn, Total
  <2> QED
    BY <2>2, StaticAssumption
<1>4. QED
  BY <1>2, <1>3 DEF PoolCapacity

(* A new epoch shows a queue of entries, from its top. *)
LEMMA StartEpochTyped ==
  ASSUME NEW w \in Lines, NEW b \in Busy, StartEpoch(w, b)
  PROVE  /\ action_queue' \in Seq(Entry)
         /\ action_counter' \in Nat
         /\ cat' \in {"AwaitAction", "AwaitEvent"}
BY GenerateActionsType DEF StartEpoch

(* A decision is about an entry of the queue. *)
LEMMA CurrentIsEntry ==
  ASSUME TypeOK, Deciding
  PROVE  Current \in Entry /\ action_counter + 1 \in DOMAIN action_queue
BY DEF TypeOK, Deciding, Current

(* Serving the candidate shown fits into its pool. *)
LEMMA ServeTyped ==
  ASSUME TypeOK, PoolCapacity, Serve
  PROVE  TypeOK' /\ PoolCapacity'
<1> DEFINE taken == TakeAction(action_queue, action_counter, busy_on)
           e     == Current
<1>1. e \in Entry /\ e.k \in Pools /\ CanAssign(busy_on, e.k, e.n)
  BY CurrentIsEntry DEF Serve, StartCandidate, IsAllowedAction, IsAllowedCandidate, Entry
<1>2. e.n \in Jobs
  BY <1>1, StaticAssumption DEF CanAssign
<1>3. taken.busy = AssignJob(busy_on, e.k, e.n)
  BY DEF TakeAction, Current
<1>4. busy_on \in Busy
  BY DEF TypeOK, Busy
<1>5. taken.busy \in Busy /\ \A p \in Pools : BusyIn(taken.busy, p) <= Servers[p]
  BY <1>1, <1>3, <1>4, AssignJobEffect DEF PoolCapacity
<1>6. taken.queue \in Seq(Entry)
  BY PruneType DEF TakeAction, TypeOK
<1>7. taken.counter \in Nat
  <2> DEFINE L == {i \in DOMAIN taken.queue :
                     \A j \in 1 .. i : <<taken.queue[j].k, taken.queue[j].n>> \in
                        {<<action_queue[m].k, action_queue[m].n>> : m \in 1 .. action_counter + 1}}
  <2>1. taken.counter = Cardinality(L)
    BY DEF TakeAction
  <2>2. L \in SUBSET (1 .. Len(taken.queue)) /\ Len(taken.queue) \in Nat
    <3> HIDE DEF taken
    <3> QED BY <1>6
  <2> HIDE DEF L, taken
  <2>3. IsFiniteSet(1 .. Len(taken.queue))
    BY <2>2, UpToFinite
  <2>4. IsFiniteSet(L)
    BY <2>2, <2>3, FS_Subset
  <2> QED
    BY <2>1, <2>4, FS_CardinalityType
<1> HIDE DEF taken, e
<1>8. /\ busy_on' = taken.busy /\ action_queue' = taken.queue /\ action_counter' = taken.counter
      /\ next_fil_job_type' = e.n /\ cat' = "AwaitEvent"
      /\ UNCHANGED <<waiting, total_arrival_rate>>
  BY DEF Serve, StartCandidate, taken, e
<1>9. QED
  BY <1>2, <1>5, <1>6, <1>7, <1>8 DEF TypeOK, PoolCapacity, Busy

(* A waiting job of type n could start on the server asked.                *)
CouldStart(n) == waiting[n] # <<>> /\ CanAssign(busy_on, Current.k, n)

(* What IsAllowedAction grants a type: a waiting job this pool can start. *)
LEMMA AllowedTypeIsStartable ==
  ASSUME TypeOK, PerEventMode, Deciding, NEW n \in Jobs, IsAllowedAction(n + 1)
  PROVE  CouldStart(n)
<1> DEFINE late == LateFor(Current.k)
           fil  == FIL(waiting)
           best == {m \in late : \A l \in late : fil[l] <= fil[m]}
<1>1. n \in Int /\ (n + 1) - 1 = n /\ n + 1 # 0
  BY JobsAndPoolsFinite
<1>2. CASE late = {}
  BY <1>1, <1>2 DEF IsAllowedAction, IsAllowedPerEvent, ServesStartable, CouldStart
<1>3. CASE late # {}
  <2>1. waiting \in Lines
    BY DEF TypeOK, Lines
  <2>2. late \subseteq Jobs /\ \A m \in late : fil[m] \in Int
    BY <2>1, FILType DEF LateFor
  <2>3. best # {}
    BY <1>3, <2>2, LargestExists, JobsAndPoolsFinite, FS_Subset
  <2>4. best \subseteq Nat
    BY <2>2, JobsAndPoolsFinite
  <2>5. Forced(Current.k) = Least(best)
    BY DEF Forced
  <2>6. Forced(Current.k) \in best
    <3> HIDE DEF best
    <3> QED BY <2>3, <2>4, <2>5, LeastIsMember
  <2>7. n = Forced(Current.k)
    <3>1. n + 1 = Forced(Current.k) + 1
      BY <1>3 DEF IsAllowedAction, IsAllowedPerEvent
    <3>2. Forced(Current.k) \in Int
      BY <2>4, <2>6
    <3> HIDE DEF best
    <3> QED BY <1>1, <3>1, <3>2
  <2>8. FIL(waiting)[n] > DueTime[n] /\ CanAssign(busy_on, Current.k, n)
    BY <2>6, <2>7 DEF LateFor
  <2>9. waiting[n] # <<>>
    <3>1. DueTime[n] \in Nat
      BY StaticAssumption
    <3> QED
      BY <2>1, <2>8, <3>1, FILType
  <2> QED
    BY <2>8, <2>9 DEF CouldStart
<1>4. QED
  BY <1>2, <1>3

(***************************************************************************)
(* A heuristic may answer a type that IsAllowedAction would not have it    *)
(* serve, and the answer is carried out.  So the lemmas are about every    *)
(* start of a type that could start, and the steps that Next takes are     *)
(* some of those that AnyNext takes.                                       *)
(***************************************************************************)
Starts(n) == StartType(n) /\ CouldStart(n)

AnyDecision == Serve \/ (\E n \in Jobs : Starts(n)) \/ Skip \/ SkipAll

AnyNext == AnyDecision \/ FilRefresh \/ UniformizedEvent

LEMMA ServedStarts ==
  ASSUME TypeOK, NEW n \in Jobs, ServeType(n)
  PROVE  Starts(n)
BY AllowedTypeIsStartable DEF ServeType, StartType, Starts

LEMMA NextIsAny == TypeOK /\ [Next]_vars => [AnyNext]_vars
BY ServedStarts DEF Next, Decide, AnyNext, AnyDecision

(* Serving a type of the policy's choice fits into the pool of the server  *)
(* asked.                                                                  *)
LEMMA StartsTyped ==
  ASSUME TypeOK, PoolCapacity, NEW n \in Jobs, Starts(n)
  PROVE  TypeOK' /\ PoolCapacity'
<1>1. Current.k \in Pools /\ action_counter + 1 \in Nat
  BY CurrentIsEntry DEF Starts, StartType, Entry, TypeOK
<1>2. CanAssign(busy_on, Current.k, n)
  BY DEF Starts, CouldStart
<1>3. busy_on \in Busy
  BY DEF TypeOK, Busy
<1>4. /\ AssignJob(busy_on, Current.k, n) \in Busy
      /\ \A p \in Pools : BusyIn(AssignJob(busy_on, Current.k, n), p) <= Servers[p]
  BY <1>1, <1>2, <1>3, AssignJobEffect DEF PoolCapacity
<1>5. QED
  BY <1>1, <1>4 DEF Starts, StartType, TypeOK, PoolCapacity, Busy

(* Skipping only moves the counter. *)
LEMMA SkipTyped ==
  ASSUME TypeOK, PoolCapacity, Skip \/ SkipAll
  PROVE  TypeOK' /\ PoolCapacity'
BY DEF Skip, PassOver, SkipAll, Advance, TypeOK, PoolCapacity

(* The line after its head has left. *)
LEMMA RevealedType ==
  ASSUME NEW q \in Seq(Nat), q # <<>>, NEW bottom \in Bottoms(q)
  PROVE  /\ Revealed(q, bottom) \in Seq(Nat)
         /\ bottom = None => Revealed(q, bottom) = Tail(q)
         /\ bottom # None => Revealed(q, bottom) = Append(Tail(q), bottom) /\ bottom \in 1 .. q[Len(q)]
<1>1. Len(q) \in 1 .. Len(q) /\ q[Len(q)] \in Nat
  OBVIOUS
<1>2. Tail(q) \in Seq(Nat)
  BY HeadTailProperties
<1>3. bottom = None \/ bottom \in 1 .. q[Len(q)]
  BY <1>1 DEF Bottoms
<1>4. bottom # None => bottom \in Nat
  BY <1>1, <1>3
<1>5. QED
  BY <1>2, <1>3, <1>4 DEF Revealed

(* A refresh shifts one line and perhaps reopens it. *)
LEMMA FilRefreshTyped ==
  ASSUME TypeOK, PoolCapacity, FilRefresh
  PROVE  TypeOK' /\ PoolCapacity'
<1> DEFINE n == next_fil_job_type
<1>1. n \in Jobs /\ waiting[n] \in Seq(Nat) /\ waiting[n] # <<>>
  BY DEF FilRefresh, TypeOK
<1>2. PICK bottom \in Bottoms(waiting[n]) :
         /\ waiting' = [waiting EXCEPT ![n] = Revealed(waiting[n], bottom)]
         /\ total_arrival_rate' = RateAfterRefresh(Len(waiting[n]) = Depth, n)
  BY DEF FilRefresh
<1>3. waiting' \in Lines
  BY <1>1, <1>2, RevealedType DEF TypeOK, Lines
<1>4. total_arrival_rate' \in Int
  BY <1>1, <1>2, StaticAssumption DEF RateAfterRefresh, TypeOK
<1>5. next_fil_job_type' = None /\ busy_on' = busy_on /\ busy_on \in Busy
  BY DEF FilRefresh, TypeOK, Busy
<1>6. /\ action_queue' \in Seq(Entry)
      /\ action_counter' \in Nat
      /\ cat' \in {"AwaitAction", "AwaitEvent"}
  <2>1. CASE PerEventMode
    BY <2>1 DEF FilRefresh, Advance, TypeOK
  <2>2. CASE ~PerEventMode
    BY <1>3, <1>5, <2>2, StartEpochTyped DEF FilRefresh
  <2> QED
    BY <2>1, <2>2
<1>7. QED
  BY <1>3, <1>4, <1>5, <1>6 DEF TypeOK, PoolCapacity, Lines

(* An arrival appends the age 0 to a line, or is lost. *)
LEMMA HandleArrivalTyped ==
  ASSUME TypeOK, PoolCapacity, NEW n \in Jobs, HandleArrival(n)
  PROVE  TypeOK' /\ PoolCapacity'
<1>1. waiting' \in Lines
  BY DEF HandleArrival, TypeOK, Lines
<1>2. total_arrival_rate' \in Int
  BY StaticAssumption DEF HandleArrival, TypeOK
<1>3. StartEpoch(waiting', busy_on) /\ busy_on \in Busy
  BY DEF HandleArrival, TypeOK, Busy
<1>4. /\ action_queue' \in Seq(Entry)
      /\ action_counter' \in Nat
      /\ cat' \in {"AwaitAction", "AwaitEvent"}
  BY <1>1, <1>3, StartEpochTyped
<1>5. QED
  BY <1>1, <1>2, <1>4 DEF HandleArrival, TypeOK, PoolCapacity, Lines

(* A completion takes a job from a server that has one. *)
LEMMA HandleCompletionTyped ==
  ASSUME TypeOK, PoolCapacity, NEW k, NEW n, HandleCompletion(k, n)
  PROVE  TypeOK' /\ PoolCapacity'
<1>1. busy_on \in Busy /\ waiting \in Lines
  BY DEF TypeOK, Busy, Lines
<1>2. busy_on' = CompleteJob(busy_on, k, n) /\ StartEpoch(waiting, busy_on')
  BY DEF HandleCompletion
<1>3. busy_on' \in Busy /\ \A p \in Pools : BusyIn(busy_on', p) <= BusyIn(busy_on, p)
  BY <1>1, <1>2, CompleteJobEffect
<1>4. /\ action_queue' \in Seq(Entry)
      /\ action_counter' \in Nat
      /\ cat' \in {"AwaitAction", "AwaitEvent"}
  BY <1>1, <1>2, <1>3, StartEpochTyped
<1>5. ASSUME NEW p \in Pools PROVE BusyIn(busy_on', p) <= Servers[p]
  <2>1. BusyIn(busy_on', p) \in Nat /\ BusyIn(busy_on, p) \in Nat /\ Servers[p] \in Nat
    BY <1>1, <1>3, BusyInType, StaticAssumption
  <2>2. BusyIn(busy_on, p) <= Servers[p]
    BY DEF PoolCapacity
  <2> QED
    BY <1>3, <2>1, <2>2
<1>6. PoolCapacity'
  BY <1>5 DEF PoolCapacity
<1>7. QED
  BY <1>3, <1>4, <1>6 DEF HandleCompletion, TypeOK, Busy

(* Ageing keeps the lengths of lines and adds one to every age. *)
LEMMA AgedType ==
  ASSUME NEW w \in Lines
  PROVE  /\ Aged(w) \in Lines
         /\ \A n \in Jobs : /\ Len(Aged(w)[n]) = Len(w[n])
                            /\ \A i \in 1 .. Len(w[n]) : Aged(w)[n][i] = w[n][i] + 1
<1>1. ASSUME NEW n \in Jobs
      PROVE  /\ Aged(w)[n] \in Seq(Nat)
             /\ Len(Aged(w)[n]) = Len(w[n])
             /\ \A i \in 1 .. Len(w[n]) : Aged(w)[n][i] = w[n][i] + 1
  <2> DEFINE q == w[n]
             r == [i \in 1 .. Len(q) |-> q[i] + 1]
  <2>1. q \in Seq(Nat) /\ DOMAIN q = 1 .. Len(q) /\ Len(q) \in Nat /\ \A i \in 1 .. Len(q) : q[i] \in Nat
    BY DEF Lines
  <2>2. Aged(w)[n] = r
    BY <2>1 DEF Aged
  <2> HIDE DEF q
  <2>3. r \in [1 .. Len(q) -> Nat]
    BY <2>1
  <2>4. r \in Seq(Nat) /\ Len(r) = Len(q)
    BY <2>1, <2>3
  <2> QED
    BY <2>2, <2>4 DEF q
<1>2. Aged(w) = [n \in Jobs |-> Aged(w)[n]]
  BY DEF Aged
<1>3. QED
  BY <1>1, <1>2 DEF Lines

(* A tick only makes jobs older. *)
LEMMA HandleTickTyped ==
  ASSUME TypeOK, PoolCapacity, HandleTick
  PROVE  TypeOK' /\ PoolCapacity'
<1>1. waiting' \in Lines
  BY AgedType DEF HandleTick, TypeOK, Lines
<1>2. QED
  BY <1>1 DEF HandleTick, Represent, TypeOK, PoolCapacity, Lines

(* An empty slot changes no line and no server. *)
LEMMA HandleNothingTyped ==
  ASSUME TypeOK, PoolCapacity, HandleNothing
  PROVE  TypeOK' /\ PoolCapacity'
BY DEF HandleNothing, Represent, TypeOK, PoolCapacity

(* Every step keeps the types and the capacities. *)
LEMMA AnyTyped ==
  ASSUME TypeOK, PoolCapacity, [AnyNext]_vars
  PROVE  TypeOK' /\ PoolCapacity'
<1>1. CASE AnyDecision
  BY <1>1, ServeTyped, StartsTyped, SkipTyped DEF AnyDecision
<1>2. CASE FilRefresh
  BY <1>2, FilRefreshTyped
<1>3. CASE UniformizedEvent
  BY <1>3, EventCases, HandleArrivalTyped, HandleCompletionTyped, HandleTickTyped, HandleNothingTyped
<1>4. CASE UNCHANGED vars
  BY <1>4 DEF vars, TypeOK, PoolCapacity
<1>5. QED
  BY <1>1, <1>2, <1>3, <1>4 DEF AnyNext

LEMMA NextTyped == TypeOK /\ PoolCapacity /\ [Next]_vars => TypeOK' /\ PoolCapacity'
BY NextIsAny, AnyTyped

(* Every reachable state of every instance is well typed. *)
THEOREM TypeCorrect == Spec => []TypeOK
<1>1. Init => TypeOK /\ PoolCapacity
  BY InitTyped
<1>2. TypeOK /\ PoolCapacity /\ [Next]_vars => (TypeOK /\ PoolCapacity)'
  BY NextTyped
<1>3. QED
  BY <1>1, <1>2, PTL DEF Spec

(* No pool ever has more servers busy than it has. *)
THEOREM CapacityKept == Spec => []PoolCapacity
<1>1. Init => TypeOK /\ PoolCapacity
  BY InitTyped
<1>2. TypeOK /\ PoolCapacity /\ [Next]_vars => (TypeOK /\ PoolCapacity)'
  BY NextTyped
<1>3. QED
  BY <1>1, <1>2, PTL DEF Spec

-----------------------------------------------------------------------------
(* The line after its head has left: everybody moves up, and at the bottom *)
(* stands nobody, or somebody no older than the last job tracked before.   *)
LEMMA RevealedShape ==
  ASSUME NEW q \in Seq(Nat), q # <<>>, NEW bottom \in Bottoms(q)
  PROVE  LET r == Revealed(q, bottom)
         IN  /\ r \in Seq(Nat)
             /\ Len(r) \in {Len(q) - 1, Len(q)}
             /\ \A i \in 1 .. Len(q) - 1 : r[i] = q[i + 1]
             /\ Len(r) = Len(q) => r[Len(q)] <= q[Len(q)]
<1> DEFINE r == Revealed(q, bottom)
           t == Tail(q)
<1>1. Len(q) \in Nat \ {0} /\ t \in Seq(Nat) /\ Len(t) = Len(q) - 1
      /\ \A i \in 1 .. Len(q) - 1 : t[i] = q[i + 1]
  BY EmptySeq, HeadTailProperties
<1>2. CASE bottom = None
  <2>1. r = t
    BY <1>2, RevealedType
  <2> HIDE DEF r, t
  <2> QED
    BY <1>1, <2>1 DEF r
<1>3. CASE bottom # None
  <2>1. r = Append(t, bottom) /\ bottom \in 1 .. q[Len(q)] /\ q[Len(q)] \in Nat
    BY <1>1, <1>3, RevealedType
  <2> HIDE DEF t
  <2>2. bottom \in Nat /\ bottom <= q[Len(q)]
    BY <2>1
  <2>3. /\ r \in Seq(Nat) /\ Len(r) = Len(t) + 1
        /\ \A i \in 1 .. Len(t) : r[i] = t[i]
        /\ r[Len(t) + 1] = bottom
    BY <1>1, <2>1, <2>2, AppendProperties
  <2> HIDE DEF r
  <2>4. Len(t) + 1 = Len(q)
    BY <1>1
  <2> QED
    BY <1>1, <2>2, <2>3, <2>4 DEF r
<1>4. QED
  BY <1>2, <1>3

-----------------------------------------------------------------------------
(* One line in order: no more positions than are tracked, oldest first. *)
Ordered(q) ==
  /\ Len(q) <= Depth
  /\ \A i, j \in 1 .. Len(q) : i < j => q[i] >= q[j]

(* A refresh keeps a line in order. *)
LEMMA RevealedOrdered ==
  ASSUME NEW q \in Seq(Nat), q # <<>>, Ordered(q), NEW bottom \in Bottoms(q)
  PROVE  Ordered(Revealed(q, bottom))
<1> DEFINE r == Revealed(q, bottom)
           L == Len(q)
<1>1. L \in Nat \ {0} /\ \A i \in 1 .. L : q[i] \in Nat
  BY EmptySeq
<1>2. /\ r \in Seq(Nat) /\ Len(r) \in {L - 1, L}
      /\ \A i \in 1 .. L - 1 : r[i] = q[i + 1]
      /\ Len(r) = L => r[L] <= q[L]
  BY RevealedShape
<1>3. \A i \in 1 .. Len(r) : r[i] \in Nat
  BY <1>2
<1>4. L <= Depth /\ \A i, j \in 1 .. L : i < j => q[i] >= q[j]
  BY DEF Ordered
<1> HIDE DEF r, L
<1>5. Len(r) <= Depth
  BY <1>1, <1>2, <1>4, StaticAssumption
<1>6. ASSUME NEW i \in 1 .. Len(r), NEW j \in 1 .. Len(r), i < j PROVE r[i] >= r[j]
  <2>1. i \in 1 .. L - 1 /\ i + 1 \in 1 .. L /\ r[i] = q[i + 1]
    BY <1>1, <1>2, <1>6
  <2>2. CASE j \in 1 .. L - 1
    <3>1. j + 1 \in 1 .. L /\ i + 1 < j + 1 /\ r[j] = q[j + 1]
      BY <1>1, <1>2, <1>6, <2>2
    <3> QED
      BY <1>4, <2>1, <3>1
  <2>3. CASE j = L
    <3>1. Len(r) = L /\ r[L] <= q[L] /\ L \in 1 .. L
      BY <1>1, <1>2, <2>3
    <3>2. i + 1 = L \/ q[i + 1] >= q[L]
      BY <1>1, <1>4, <2>1, <3>1
    <3> QED
      BY <1>1, <1>3, <2>1, <2>3, <3>1, <3>2
  <2> QED
    BY <1>1, <1>2, <2>2, <2>3
<1>7. QED
  BY <1>5, <1>6 DEF Ordered, r

(* A new arrival, of age 0, fits at the end of a line that is not full. *)
LEMMA ArrivalOrdered ==
  ASSUME NEW q \in Seq(Nat), Ordered(q), Len(q) < Depth
  PROVE  Ordered(Append(q, 0))
<1> DEFINE r == Append(q, 0)
<1>1. /\ r \in Seq(Nat) /\ Len(r) = Len(q) + 1 /\ Len(q) \in Nat
      /\ \A i \in 1 .. Len(q) : r[i] = q[i]
      /\ r[Len(q) + 1] = 0
  BY AppendProperties
<1>2. Len(q) <= Depth /\ \A i, j \in 1 .. Len(q) : i < j => q[i] >= q[j]
  BY DEF Ordered
<1>3. \A i \in 1 .. Len(r) : r[i] \in Nat
  BY <1>1
<1> HIDE DEF r
<1>4. ASSUME NEW i \in 1 .. Len(r), NEW j \in 1 .. Len(r), i < j PROVE r[i] >= r[j]
  <2>1. CASE j \in 1 .. Len(q)
    <3>1. i \in 1 .. Len(q)
      BY <1>1, <1>4, <2>1
    <3>2. q[i] >= q[j] /\ r[i] = q[i] /\ r[j] = q[j]
      BY <1>1, <1>2, <1>4, <2>1, <3>1
    <3> QED
      BY <3>2
  <2>2. CASE j = Len(q) + 1
    BY <1>1, <1>3, <2>2
  <2> QED
    BY <1>1, <2>1, <2>2
<1>5. Len(r) <= Depth
  BY <1>1, StaticAssumption
<1>6. QED
  BY <1>4, <1>5 DEF Ordered, r

(* Ageing everybody alike changes no order. *)
LEMMA AgedOrdered ==
  ASSUME NEW w \in Lines, NEW n \in Jobs, Ordered(w[n])
  PROVE  Ordered(Aged(w)[n])
<1>1. /\ Aged(w) \in Lines /\ Len(Aged(w)[n]) = Len(w[n])
      /\ \A i \in 1 .. Len(w[n]) : Aged(w)[n][i] = w[n][i] + 1
  BY AgedType
<1>2. \A i \in 1 .. Len(w[n]) : w[n][i] \in Nat
  BY DEF Lines
<1>3. QED
  BY <1>1, <1>2 DEF Ordered

-----------------------------------------------------------------------------
(***************************************************************************)
(* The inductive invariant: lines in order and the exact rate need each    *)
(* other, for a refresh compares lengths with Depth for equality only.     *)
(***************************************************************************)
LineInv == TypeOK /\ PoolCapacity /\ LineInOrder /\ ArrivalRateExact

(* The lines that are not full. *)
Open(w) == {n \in Jobs : NotFull(w, n)}

(* LineInOrder, line by line. *)
LEMMA InOrderByLine ==
  /\ TypeOK => (LineInOrder <=> \A n \in Jobs : Ordered(waiting[n]))
  /\ TypeOK' => (LineInOrder' <=> \A n \in Jobs : Ordered(waiting'[n]))
<1>1. TypeOK => \A n \in Jobs : DOMAIN waiting[n] = 1 .. Len(waiting[n])
  BY DEF TypeOK
<1>2. TypeOK' => \A n \in Jobs : DOMAIN waiting'[n] = 1 .. Len(waiting'[n])
  BY DEF TypeOK
<1>3. QED
  BY <1>1, <1>2 DEF LineInOrder, Ordered

(* Opening line n adds its arrival rate to the rate of the open lines. *)
LEMMA OpenRateAdd ==
  ASSUME NEW w, NEW v, NEW n \in Jobs, n \notin Open(w), Open(v) = Open(w) \cup {n}
  PROVE  OpenRate(v) = OpenRate(w) + ArrivalRate[n]
<1>1. \A m \in Jobs : ArrivalRate[m] \in Nat
  BY StaticAssumption
<1>2. Open(w) \in SUBSET Jobs
  BY DEF Open
<1>3. IsFiniteSet(Open(w))
  BY <1>2, JobsAndPoolsFinite, FS_Subset
<1>4. Total(ArrivalRate, Open(w) \cup {n}) = Total(ArrivalRate, Open(w)) + ArrivalRate[n]
  BY <1>1, <1>2, <1>3, TotalAdd
<1>5. QED
  BY <1>4 DEF OpenRate, Open

(* The rate of the open lines is a natural number. *)
LEMMA OpenRateType ==
  ASSUME NEW w
  PROVE  OpenRate(w) \in Nat
<1>1. \A m \in Jobs : ArrivalRate[m] \in Nat
  BY StaticAssumption
<1>2. Open(w) \in SUBSET Jobs
  BY DEF Open
<1>3. IsFiniteSet(Open(w))
  BY <1>2, JobsAndPoolsFinite, FS_Subset
<1>4. QED
  BY <1>1, <1>2, <1>3, TokensFinite DEF OpenRate, Open

(* A refresh shifts one line that stays in order, and adds the rate of its *)
(* type exactly when that line was full and is no longer.                  *)
LEMMA FilRefreshLine ==
  ASSUME LineInv, TypeOK', FilRefresh
  PROVE  LineInOrder' /\ ArrivalRateExact'
<1> DEFINE n == next_fil_job_type
           q == waiting[n]
<1>1. n \in Jobs /\ q \in Seq(Nat) /\ q # <<>> /\ waiting \in [Jobs -> Seq(Nat)]
  BY DEF LineInv, TypeOK, FilRefresh
<1>2. PICK bottom \in Bottoms(q) :
        /\ waiting' = [waiting EXCEPT ![n] = Revealed(q, bottom)]
        /\ total_arrival_rate' = RateAfterRefresh(Len(q) = Depth, n)
  BY DEF FilRefresh
<1> DEFINE r == Revealed(q, bottom)
<1>3. waiting'[n] = r /\ \A m \in Jobs \ {n} : waiting'[m] = waiting[m]
  BY <1>1, <1>2
<1>4. \A m \in Jobs : Ordered(waiting[m])
  BY InOrderByLine DEF LineInv
<1>5. Ordered(r) /\ r \in Seq(Nat) /\ Len(r) \in {Len(q) - 1, Len(q)} /\ Len(q) \in Nat
  BY <1>1, <1>4, RevealedOrdered, RevealedShape
<1>6. Len(q) <= Depth /\ Depth \in Nat
  BY <1>1, <1>4, StaticAssumption DEF Ordered
<1> HIDE DEF n, q, r
<1>7. LineInOrder'
  <2>1. \A m \in Jobs : Ordered(waiting'[m])
    BY <1>3, <1>4, <1>5
  <2> QED
    BY <2>1, InOrderByLine
<1>8. \A m \in Jobs \ {n} : NotFull(waiting', m) <=> NotFull(waiting, m)
  BY <1>3 DEF NotFull
<1>9. NotFull(waiting, n) <=> Len(q) < Depth
  BY DEF NotFull, q
<1>10. NotFull(waiting', n) <=> Len(r) < Depth
  BY <1>3 DEF NotFull
<1>11. ArrivalRateExact'
  <2>1. CASE Len(q) = Depth /\ NotFull(waiting', n)
    <3>1. n \notin Open(waiting) /\ Open(waiting') = Open(waiting) \cup {n}
      BY <1>1, <1>6, <1>8, <1>9, <2>1 DEF Open
    <3>2. OpenRate(waiting') = OpenRate(waiting) + ArrivalRate[n]
      BY <1>1, <3>1, OpenRateAdd
    <3>3. total_arrival_rate' = total_arrival_rate + ArrivalRate[n]
      BY <1>2, <2>1 DEF RateAfterRefresh, q, n
    <3> QED
      BY <3>2, <3>3 DEF LineInv, ArrivalRateExact
  <2>2. CASE ~(Len(q) = Depth /\ NotFull(waiting', n))
    <3>1. NotFull(waiting', n) <=> NotFull(waiting, n)
      BY <1>5, <1>6, <1>9, <1>10, <2>2
    <3>2. Open(waiting') = Open(waiting)
      BY <1>8, <3>1 DEF Open
    <3>3. total_arrival_rate' = total_arrival_rate
      BY <1>2, <2>2 DEF RateAfterRefresh, q, n
    <3> QED
      BY <3>2, <3>3 DEF LineInv, ArrivalRateExact, OpenRate, Open
  <2> QED
    BY <2>1, <2>2
<1>12. QED
  BY <1>7, <1>11

(* An accepted arrival takes the rate of its type away exactly when it     *)
(* fills the line.                                                         *)
LEMMA HandleArrivalLine ==
  ASSUME LineInv, TypeOK', NEW n \in Jobs, NotFull(waiting, n), HandleArrival(n)
  PROVE  LineInOrder' /\ ArrivalRateExact'
<1> DEFINE q == waiting[n]
           r == Append(q, 0)
<1>1. q \in Seq(Nat) /\ waiting \in [Jobs -> Seq(Nat)]
  BY DEF LineInv, TypeOK
<1>2. waiting'[n] = r /\ \A m \in Jobs \ {n} : waiting'[m] = waiting[m]
  BY <1>1 DEF HandleArrival
<1>3. \A m \in Jobs : Ordered(waiting[m])
  BY InOrderByLine DEF LineInv
<1>4. Ordered(r)
  BY <1>1, <1>3, ArrivalOrdered DEF NotFull
<1> HIDE DEF q, r
<1>5. LineInOrder'
  <2>1. \A m \in Jobs : Ordered(waiting'[m])
    BY <1>2, <1>3, <1>4
  <2> QED
    BY <2>1, InOrderByLine
<1>6. \A m \in Jobs \ {n} : NotFull(waiting', m) <=> NotFull(waiting, m)
  BY <1>2 DEF NotFull
<1>7. ArrivalRateExact'
  <2>1. CASE NotFull(waiting', n)
    <3>1. Open(waiting') = Open(waiting)
      BY <1>6, <2>1 DEF Open
    <3>2. total_arrival_rate' = total_arrival_rate
      BY <2>1 DEF HandleArrival
    <3> QED
      BY <3>1, <3>2 DEF LineInv, ArrivalRateExact, OpenRate, Open
  <2>2. CASE ~NotFull(waiting', n)
    <3>1. n \notin Open(waiting') /\ Open(waiting) = Open(waiting') \cup {n}
      BY <1>6, <2>2 DEF Open
    <3>2. OpenRate(waiting) = OpenRate(waiting') + ArrivalRate[n]
      BY <3>1, OpenRateAdd
    <3>3. total_arrival_rate' = total_arrival_rate - ArrivalRate[n]
      BY <2>2 DEF HandleArrival
    <3>4. OpenRate(waiting') \in Nat /\ ArrivalRate[n] \in Nat
      BY OpenRateType, StaticAssumption
    <3> QED
      BY <3>2, <3>3, <3>4 DEF LineInv, ArrivalRateExact
  <2> QED
    BY <2>1, <2>2
<1>8. QED
  BY <1>5, <1>7

(* A tick makes no line longer and reorders none. *)
LEMMA HandleTickLine ==
  ASSUME LineInv, TypeOK', HandleTick
  PROVE  LineInOrder' /\ ArrivalRateExact'
<1>1. waiting \in Lines /\ waiting' = Aged(waiting) /\ total_arrival_rate' = total_arrival_rate
  BY DEF LineInv, TypeOK, Lines, HandleTick
<1>2. \A m \in Jobs : Ordered(waiting'[m]) /\ Len(waiting'[m]) = Len(waiting[m])
  BY <1>1, AgedOrdered, AgedType, InOrderByLine DEF LineInv
<1>3. LineInOrder'
  BY <1>2, InOrderByLine
<1>4. Open(waiting') = Open(waiting)
  BY <1>2 DEF Open, NotFull
<1>5. QED
  BY <1>1, <1>3, <1>4 DEF LineInv, ArrivalRateExact, OpenRate, Open

(* Every step keeps the invariant. *)
LEMMA AnyLine == LineInv /\ [AnyNext]_vars => LineInv'
<1> SUFFICES ASSUME LineInv, [AnyNext]_vars PROVE LineInv'
  OBVIOUS
<1>1. TypeOK' /\ PoolCapacity'
  BY AnyTyped DEF LineInv
<1>2. CASE UNCHANGED <<waiting, total_arrival_rate>>
  BY <1>1, <1>2 DEF LineInv, LineInOrder, ArrivalRateExact
<1>3. CASE FilRefresh
  BY <1>1, <1>3, FilRefreshLine DEF LineInv
<1>4. CASE UniformizedEvent
  <2>1. ASSUME NEW n \in Jobs, NotFull(waiting, n), HandleArrival(n) PROVE LineInv'
    BY <1>1, <2>1, HandleArrivalLine DEF LineInv
  <2>2. ASSUME NEW k, NEW n, HandleCompletion(k, n) PROVE LineInv'
    BY <1>2, <2>2 DEF HandleCompletion
  <2>3. ASSUME HandleTick PROVE LineInv'
    BY <1>1, <2>3, HandleTickLine DEF LineInv
  <2>4. ASSUME HandleNothing PROVE LineInv'
    BY <1>2, <2>4 DEF HandleNothing
  <2>5. TypeOK
    BY DEF LineInv
  <2> QED
    BY <1>4, <2>1, <2>2, <2>3, <2>4, <2>5, EventCases
<1>5. CASE AnyDecision
  BY <1>2, <1>5 DEF AnyDecision, Serve, StartCandidate, Starts, StartType, Skip, PassOver, SkipAll
<1>6. CASE UNCHANGED vars
  BY <1>2, <1>6 DEF vars
<1>7. QED
  BY <1>3, <1>4, <1>5, <1>6 DEF AnyNext

LEMMA NextLine == LineInv /\ [Next]_vars => LineInv'
BY NextIsAny, AnyLine DEF LineInv

(* At first every line is empty, and open. *)
LEMMA InitLine == Init => LineInv
<1> SUFFICES ASSUME Init PROVE LineInv
  OBVIOUS
<1>1. TypeOK /\ PoolCapacity
  BY InitTyped
<1>2. \A n \in Jobs : waiting[n] = <<>> /\ Len(waiting[n]) = 0 /\ Ordered(waiting[n])
  BY StaticAssumption DEF Init, Ordered
<1>3. LineInOrder
  BY <1>1, <1>2, InOrderByLine
<1>4. Open(waiting) = Jobs
  BY <1>2, StaticAssumption DEF Open, NotFull
<1>5. ArrivalRateExact
  BY <1>4 DEF Init, ArrivalRateExact, OpenRate, Open
<1>6. QED
  BY <1>1, <1>3, <1>5 DEF LineInv

(* Lines and rate stay sound together. *)
THEOREM LinesSound == Spec => []LineInv
BY InitLine, NextLine, PTL DEF Spec

(* Tracked ages never increase along a line, whatever the sampler answers, *)
(* and no line is longer than the tracked depth.                           *)
THEOREM LinesStayOrdered == Spec => []LineInOrder
<1>1. LineInv => LineInOrder
  BY DEF LineInv
<1>2. QED
  BY <1>1, LinesSound, PTL

(* The rate kept by additions and subtractions never drifts from the rate  *)
(* of the lines that are not full.                                         *)
THEOREM ArrivalRateStaysExact == Spec => []ArrivalRateExact
<1>1. LineInv => ArrivalRateExact
  BY DEF LineInv
<1>2. QED
  BY <1>1, LinesSound, PTL

(* Whoever a refresh reveals arrived no earlier than the last job that was *)
(* tracked.                                                                *)
THEOREM NobodyOlderIsRevealed == Spec => RevealedIsYounger
<1> DEFINE Younger == \A n \in Jobs :
              (next_fil_job_type = n /\ waiting'[n] # <<>>) =>
                 waiting'[n][Len(waiting'[n])] <= waiting[n][Len(waiting[n])]
<1>1. TypeOK /\ TypeOK' /\ [Next]_vars => [Younger]_vars
  <2> SUFFICES ASSUME TypeOK, TypeOK', [Next]_vars,
                      NEW n \in Jobs, next_fil_job_type = n, waiting'[n] # <<>>
               PROVE  waiting'[n][Len(waiting'[n])] <= waiting[n][Len(waiting[n])]
    BY DEF Younger
  <2>1. waiting[n] \in Seq(Nat) /\ waiting'[n] \in Seq(Nat)
    BY DEF TypeOK
  <2>2. CASE waiting' = waiting
    <3>1. Len(waiting[n]) \in 1 .. Len(waiting[n])
      BY <2>1, <2>2, EmptySeq
    <3>2. waiting[n][Len(waiting[n])] \in Nat
      BY <2>1, <3>1
    <3> QED
      BY <2>2, <3>2
  <2>3. CASE FilRefresh
    <3> DEFINE q == waiting[n]
    <3>1. q # <<>> /\ q \in Seq(Nat)
      BY <2>1, <2>3 DEF FilRefresh
    <3>2. PICK bottom \in Bottoms(q) : waiting'[n] = Revealed(q, bottom)
      BY <2>3 DEF FilRefresh, TypeOK
    <3> DEFINE r == Revealed(q, bottom)
    <3>3. /\ r \in Seq(Nat) /\ Len(r) \in {Len(q) - 1, Len(q)}
          /\ \A i \in 1 .. Len(q) - 1 : r[i] = q[i + 1]
          /\ Len(r) = Len(q) => r[Len(q)] <= q[Len(q)]
      BY <3>1, RevealedShape
    <3>4. r # <<>> /\ waiting'[n] = r
      BY <3>2
    <3> HIDE DEF r, q
    <3>5. Len(r) \in Nat \ {0} /\ Len(q) \in Nat
      BY <3>1, <3>3, <3>4, EmptySeq
    <3>6. CASE Len(r) = Len(q)
      BY <3>3, <3>4, <3>6 DEF q
    <3>7. CASE Len(r) = Len(q) - 1
      <4>1. r[Len(r)] = q[Len(q)] /\ Len(q) \in 1 .. Len(q)
        BY <3>3, <3>5, <3>7
      <4>2. q[Len(q)] \in Nat
        BY <3>1, <4>1
      <4> QED
        BY <3>4, <4>1, <4>2 DEF q
    <3> QED
      BY <3>3, <3>6, <3>7
  <2>4. CASE UniformizedEvent
    <3>1. next_fil_job_type = None /\ n # None
      BY <2>4, JobsAndPoolsFinite DEF UniformizedEvent, Happens, None
    <3> QED
      BY <3>1
  <2>5. CASE Decide \/ UNCHANGED vars
    BY <2>2, <2>5 DEF Decide, Serve, StartCandidate, ServeType, StartType, Skip, PassOver, SkipAll, vars
  <2> QED
    BY <2>3, <2>4, <2>5 DEF Next
<1>2. QED
  BY <1>1, TypeCorrect, PTL DEF Spec, RevealedIsYounger

-----------------------------------------------------------------------------
(***************************************************************************)
(* Scanning rates: the members of a finite set are passed in the order of  *)
(* distinct natural keys, their rates are added up, and the scan stops at  *)
(* the first member whose sum exceeds u.                                   *)
(***************************************************************************)
UpTo(S, key, x)   == {y \in S : key[y] <= key[x]}
Before(S, key, x) == {y \in S : key[y] < key[x]}
ScanHits(S, key, f, u)     == {x \in S : u < Total(f, UpTo(S, key, x))}
StopsAt(S, key, f, u, x)   ==
  x \in ScanHits(S, key, f, u) /\ \A y \in ScanHits(S, key, f, u) : key[x] <= key[y]

Keyed(S, key) ==
  /\ IsFiniteSet(S)
  /\ \A x \in S : key[x] \in Nat
  /\ \A x, y \in S : key[x] = key[y] => x = y

(* What has been added up when x is reached: the rates before x, and x's. *)
LEMMA ScanSum ==
  ASSUME NEW S, NEW key, Keyed(S, key), NEW f, \A y \in S : f[y] \in Nat, NEW x \in S
  PROVE  /\ Total(f, Before(S, key, x)) \in Nat
         /\ Total(f, UpTo(S, key, x)) = Total(f, Before(S, key, x)) + f[x]
         /\ Total(f, UpTo(S, key, x)) <= Total(f, S)
<1> DEFINE B == Before(S, key, x)
           A == UpTo(S, key, x)
<1>1. B \in SUBSET S /\ A \in SUBSET S /\ x \notin B
  BY DEF Before, UpTo, Keyed
<1>2. A = B \cup {x}
  <2>1. \A y \in S : key[y] \in Nat /\ key[x] \in Nat /\ (key[y] = key[x] => y = x)
    BY DEF Keyed
  <2>2. \A y \in S : key[y] <= key[x] <=> key[y] < key[x] \/ y = x
    BY <2>1
  <2> QED
    BY <2>2 DEF Before, UpTo
<1>3. IsFiniteSet(B) /\ IsFiniteSet(S)
  BY <1>1, FS_Subset DEF Keyed
<1>4. \A y \in B : f[y] \in Nat
  BY <1>1
<1>5. \A y \in A : f[y] \in Nat /\ f[y] <= f[y]
  BY <1>1
<1> HIDE DEF A, B
<1>6. Total(f, A) = Total(f, B) + f[x]
  BY <1>1, <1>2, <1>3, <1>4, TotalAdd
<1>7. Total(f, A) <= Total(f, S)
  BY <1>1, <1>3, <1>5, TotalMonotonic
<1>8. Total(f, B) \in Nat
  BY <1>3, <1>4, TokensFinite
<1>9. QED
  BY <1>6, <1>7, <1>8 DEF A, B

(* Of finitely many members below x one is the highest, and up to it are    *)
(* all below x.                                                            *)
LEMMA HighestBefore ==
  ASSUME NEW S, NEW key, Keyed(S, key), NEW x \in S, Before(S, key, x) # {}
  PROVE  \E y \in Before(S, key, x) : UpTo(S, key, y) = Before(S, key, x)
<1> DEFINE B == Before(S, key, x)
           D == {key[x] - key[y] : y \in B}
<1>1. \A y \in B : y \in S /\ key[y] \in Nat /\ key[x] \in Nat /\ key[y] < key[x]
  BY DEF Before, Keyed
<1>2. D # {} /\ D \subseteq Nat
  BY <1>1
<1>3. Least(D) \in D /\ \A d \in D : Least(D) <= d
  BY <1>2, LeastIsMember
<1>4. PICK y \in B : Least(D) = key[x] - key[y]
  BY <1>3
<1>5. ASSUME NEW z \in S PROVE key[z] <= key[y] <=> key[z] < key[x]
  <2>1. key[z] \in Nat /\ key[y] \in Nat /\ key[x] \in Nat /\ key[y] < key[x]
    BY <1>1 DEF Keyed
  <2>2. ASSUME key[z] < key[x] PROVE key[z] <= key[y]
    <3>1. z \in B
      BY <2>2 DEF Before
    <3>2. key[x] - key[y] <= key[x] - key[z]
      BY <1>3, <1>4, <3>1
    <3> QED
      BY <2>1, <3>2
  <2> QED
    BY <2>1, <2>2
<1>6. UpTo(S, key, y) = B
  BY <1>5 DEF UpTo, Before
<1>7. QED
  BY <1>6

(* The scan stops at x for exactly the f[x] values of u that come after    *)
(* the rates before x.                                                     *)
LEMMA ScanStops ==
  ASSUME NEW S, NEW key, Keyed(S, key), NEW f, \A y \in S : f[y] \in Nat,
         NEW x \in S, NEW u \in Nat
  PROVE  StopsAt(S, key, f, u, x) <=>
           u \in Total(f, Before(S, key, x)) .. Total(f, Before(S, key, x)) + f[x] - 1
<1> DEFINE b == Total(f, Before(S, key, x))
<1>1. b \in Nat /\ Total(f, UpTo(S, key, x)) = b + f[x] /\ f[x] \in Nat
  BY ScanSum
<1>2. IsFiniteSet(S) /\ \A y \in S : key[y] \in Nat
  BY DEF Keyed
<1>3. ASSUME b <= u, NEW y \in ScanHits(S, key, f, u) PROVE key[x] <= key[y]
  <2>1. y \in S /\ u < Total(f, UpTo(S, key, y))
    BY DEF ScanHits
  <2>2. SUFFICES ASSUME key[y] < key[x] PROVE FALSE
    BY <1>2, <2>1
  <2>3. UpTo(S, key, y) \in SUBSET Before(S, key, x) /\ Before(S, key, x) \in SUBSET S
    BY <1>2, <2>1, <2>2 DEF UpTo, Before
  <2>4. IsFiniteSet(Before(S, key, x)) /\ \A z \in UpTo(S, key, y) : f[z] \in Nat /\ f[z] <= f[z]
    BY <1>2, <2>3, FS_Subset
  <2>5. Total(f, UpTo(S, key, y)) <= b
    BY <2>3, <2>4, TotalMonotonic
  <2>6. Total(f, UpTo(S, key, y)) \in Nat
    BY <2>3, <2>4, FS_Subset, TokensFinite
  <2> QED
    BY <1>1, <1>3, <2>1, <2>5, <2>6
<1>4. ASSUME StopsAt(S, key, f, u, x) PROVE b <= u
  <2>1. SUFFICES ASSUME u < b PROVE FALSE
    BY <1>1
  <2>2. Before(S, key, x) # {}
    <3>1. Tokens(f, {}) = {}
      BY TokenIsPair
    <3>2. Total(f, {}) = 0
      BY <3>1, FS_EmptySet DEF Total
    <3> QED
      BY <1>1, <2>1, <3>2
  <2>3. PICK y \in Before(S, key, x) : UpTo(S, key, y) = Before(S, key, x)
    BY <2>2, HighestBefore
  <2>4. y \in ScanHits(S, key, f, u) /\ key[y] < key[x] /\ y \in S
    BY <2>1, <2>3 DEF ScanHits, Before
  <2>5. key[x] <= key[y]
    BY <1>4, <2>4 DEF StopsAt
  <2> QED
    BY <1>2, <2>4, <2>5
<1>5. x \in ScanHits(S, key, f, u) <=> u < b + f[x]
  BY <1>1 DEF ScanHits
<1> HIDE DEF b
<1>6. StopsAt(S, key, f, u, x) <=> b <= u /\ u < b + f[x]
  BY <1>3, <1>4, <1>5 DEF StopsAt
<1>7. QED
  BY <1>1, <1>6 DEF b

(* A number of consecutive slots. *)
LEMMA SlotCount ==
  ASSUME NEW b \in Nat, NEW r \in Nat
  PROVE  Cardinality(b .. b + r - 1) = r
<1>1. b \in Int /\ b + r - 1 \in Int /\ (b > b + r - 1 <=> r = 0) /\ (b + r - 1) - b + 1 = r
  OBVIOUS
<1>2. QED
  BY <1>1, FS_Interval

-----------------------------------------------------------------------------
(* The totals of the service rates: no more than the fastest rate of a     *)
(* pool on each of its servers.                                            *)

(* Some type is served fastest by a pool. *)
LEMMA FastestMuIsBound ==
  ASSUME NEW k \in Pools
  PROVE  FastestMu(k) \in Nat /\ \A n \in Jobs : Mu[k][n] <= FastestMu(k)
<1> DEFINE f == [n \in Jobs |-> Mu[k][n]]
<1>1. \A n \in Jobs : Mu[k][n] \in Nat
  BY StaticAssumption
<1>2. 0 \in Jobs
  BY StaticAssumption DEF Jobs
<1>3. {x \in Jobs : \A y \in Jobs : f[y] <= f[x]} # {}
  <2>1. \A n \in Jobs : f[n] \in Int
    BY <1>1
  <2> HIDE DEF f
  <2> QED
    BY <1>2, <2>1, JobsAndPoolsFinite, LargestExists
<1>4. PICK x \in Jobs : \A y \in Jobs : Mu[k][y] <= Mu[k][x]
  BY <1>3
<1>5. \E m \in {Mu[k][n] : n \in Jobs} : \A n \in Jobs : Mu[k][n] <= m
  BY <1>4
<1>6. FastestMu(k) \in {Mu[k][n] : n \in Jobs} /\ \A n \in Jobs : Mu[k][n] <= FastestMu(k)
  BY <1>5 DEF FastestMu
<1>7. QED
  BY <1>1, <1>6

(* One more server at the rate of the pool is that much more. *)
LEMMA RateStep ==
  ASSUME NEW F \in Nat, NEW B \in Nat, NEW c \in Nat, NEW m \in Nat, m <= F
  PROVE  F * (B + c) = F * B + F * c /\ c * m <= F * c /\ c * m \in Nat
<1>1. F * (B + c) = F * B + F * c
  OBVIOUS
<1>2. PICK d \in Nat : F = m + d
  <2>1. F - m \in Nat /\ F = m + (F - m)
    OBVIOUS
  <2> QED BY <2>1
<1>3. F * c = c * m + d * c /\ c * m \in Nat /\ d * c \in Nat
  BY <1>2
<1>4. QED
  BY <1>1, <1>3

(* The servers of one pool together serve at most at its fastest rate      *)
(* times those busy.                                                       *)
LEMMA PoolRate ==
  ASSUME NEW b \in Busy, NEW k \in Pools
  PROVE  Total(ServiceRate(b), {k} \X Jobs) <= FastestMu(k) * BusyIn(b, k)
<1> DEFINE r    == ServiceRate(b)
           F    == FastestMu(k)
           Row(n) == {k} \X (0 .. n - 1)
           L(n)   == Total(r, Row(n))
           R(n)   == F * Total(b[k], 0 .. n - 1)
           Good == {n \in 0 .. NJobs : L(n) <= R(n)}
<1>1. F \in Nat /\ NJobs \in Nat /\ Jobs = 0 .. NJobs - 1 /\ \A n \in Jobs : Mu[k][n] \in Nat /\ Mu[k][n] <= F
  BY FastestMuIsBound, StaticAssumption DEF Jobs
<1>2. \A n \in Jobs : b[k][n] \in Nat
  BY DEF Busy
<1>3. \A n \in Jobs : r[<<k, n>>] = b[k][n] * Mu[k][n] /\ r[<<k, n>>] \in Nat
  BY <1>1, <1>2 DEF ServiceRate
<1>4. ASSUME NEW n \in 0 .. NJobs
      PROVE  /\ IsFiniteSet(0 .. n - 1) /\ IsFiniteSet(Row(n))
             /\ \A m \in 0 .. n - 1 : b[k][m] \in Nat
             /\ \A c \in Row(n) : r[c] \in Nat
             /\ L(n) \in Nat /\ Total(b[k], 0 .. n - 1) \in Nat
  <2>1. 0 .. n - 1 \subseteq Jobs /\ IsFiniteSet(0 .. n - 1)
    BY <1>1, FS_Interval
  <2>2. IsFiniteSet(Row(n))
    BY <2>1, FS_Singleton, FS_Product
  <2>3. \A c \in Row(n) : r[c] \in Nat
    <3> SUFFICES ASSUME NEW c \in Row(n) PROVE r[c] \in Nat
      OBVIOUS
    <3>1. c = <<k, c[2]>> /\ c[2] \in Jobs
      BY <2>1
    <3> HIDE DEF r
    <3> QED
      BY <1>3, <3>1
  <2>4. \A m \in 0 .. n - 1 : b[k][m] \in Nat
    BY <1>2, <2>1
  <2> HIDE DEF r, Row
  <2> QED
    BY <2>1, <2>2, <2>3, <2>4, TokensFinite
<1>5. L(0) <= R(0)
  <2>1. 0 .. 0 - 1 = {} /\ Row(0) = {}
    OBVIOUS
  <2>2. L(0) = 0 /\ Total(b[k], 0 .. 0 - 1) = 0
    BY <2>1, TotalEmpty
  <2> HIDE DEF L
  <2> QED
    BY <1>1, <2>2
<1>6. ASSUME NEW n \in 0 .. NJobs - 1, L(n) <= R(n) PROVE L(n + 1) <= R(n + 1)
  <2> DEFINE x == <<k, n>>
  <2>1. n \in Jobs /\ n \in 0 .. NJobs
    BY <1>1
  <2>2. 0 .. (n + 1) - 1 = (0 .. n - 1) \cup {n} /\ n \notin 0 .. n - 1
    OBVIOUS
  <2>3. Row(n + 1) = Row(n) \cup {x} /\ x \notin Row(n)
    BY <2>2
  <2>4. L(n + 1) = L(n) + r[x]
    <3>1. IsFiniteSet(Row(n)) /\ (\A c \in Row(n) : r[c] \in Nat) /\ r[x] \in Nat
      BY <1>3, <1>4, <2>1
    <3> HIDE DEF r, Row, x
    <3>2. Total(r, Row(n) \cup {x}) = Total(r, Row(n)) + r[x]
      BY <2>3, <3>1, TotalAdd
    <3> QED
      BY <2>3, <3>2
  <2>5. Total(b[k], 0 .. (n + 1) - 1) = Total(b[k], 0 .. n - 1) + b[k][n]
    <3>1. IsFiniteSet(0 .. n - 1) /\ (\A m \in 0 .. n - 1 : b[k][m] \in Nat) /\ b[k][n] \in Nat
      BY <1>2, <1>4, <2>1
    <3> DEFINE S == 0 .. n - 1
               g == b[k]
    <3>2. IsFiniteSet(S) /\ (\A m \in S : g[m] \in Nat) /\ g[n] \in Nat /\ n \notin S
      BY <2>2, <3>1
    <3>3. 0 .. (n + 1) - 1 = S \cup {n}
      BY <2>2
    <3> HIDE DEF S, g
    <3>4. Total(g, S \cup {n}) = Total(g, S) + g[n]
      BY <3>2, TotalAdd
    <3> QED
      BY <3>3, <3>4 DEF S, g
  <2>6. /\ L(n) \in Nat /\ Total(b[k], 0 .. n - 1) \in Nat /\ b[k][n] \in Nat
        /\ Mu[k][n] \in Nat /\ Mu[k][n] <= F /\ r[x] = b[k][n] * Mu[k][n]
    BY <1>1, <1>2, <1>3, <1>4, <2>1
  <2> DEFINE B == Total(b[k], 0 .. n - 1)
             c == b[k][n]
             m == Mu[k][n]
             l == L(n)
  <2>7. /\ F * (B + c) = F * B + F * c /\ c * m <= F * c /\ c * m \in Nat
    <3>1. F \in Nat /\ B \in Nat /\ c \in Nat /\ m \in Nat /\ m <= F
      BY <1>1, <2>6
    <3> HIDE DEF B, c, m, l, F
    <3> QED BY <3>1, RateStep
  <2>8. L(n + 1) = l + c * m /\ R(n + 1) = F * (B + c) /\ l <= F * B /\ F * B \in Nat /\ F * c \in Nat /\ l \in Nat
    <3>1. L(n + 1) = l + c * m
      BY <2>4, <2>6
    <3>2. R(n + 1) = F * (B + c) /\ l <= F * B
      BY <1>6, <2>5
    <3>3. F * B \in Nat /\ F * c \in Nat
      <4> HIDE DEF B, c, F
      <4> QED BY <1>1, <2>6 DEF B, c
    <3> QED BY <2>6, <3>1, <3>2, <3>3
  <2> HIDE DEF L, R, B, c, m, l, F
  <2> QED
    BY <2>7, <2>8
<1>7. NJobs \in Good
  <2>1. 0 \in Good
    BY <1>1, <1>5
  <2>2. \A n \in 0 .. NJobs - 1 : n \in Good => n + 1 \in Good
    <3> HIDE DEF L, R
    <3> QED BY <1>1, <1>6
  <2> HIDE DEF Good
  <2> QED
    BY <1>1, <2>1, <2>2, UpwardInduction
<1>8. L(NJobs) <= R(NJobs)
  BY <1>7
<1>9. QED
  BY <1>1, <1>8 DEF BusyIn

(* All pools together serve at most at the rate uniformization reserves    *)
(* for them.                                                               *)
LEMMA ServiceRateBound ==
  ASSUME NEW b \in Busy, \A k \in Pools : BusyIn(b, k) <= Servers[k]
  PROVE  Total(ServiceRate(b), Pools \X Jobs)
           <= Total([k \in Pools |-> FastestMu(k) * Servers[k]], Pools)
<1> DEFINE r    == ServiceRate(b)
           F    == [k \in Pools |-> FastestMu(k) * Servers[k]]
           Rows(k) == (0 .. k - 1) \X Jobs
           L(k)    == Total(r, Rows(k))
           R(k)    == Total(F, 0 .. k - 1)
           Good    == {k \in 0 .. KServers : L(k) <= R(k)}
<1>1. KServers \in Nat /\ Pools = 0 .. KServers - 1
  BY StaticAssumption DEF Pools
<1>2. \A c \in Pools \X Jobs : r[c] \in Nat
  <2> SUFFICES ASSUME NEW k \in Pools, NEW n \in Jobs PROVE r[<<k, n>>] \in Nat
    OBVIOUS
  <2>1. b[k][n] \in Nat /\ Mu[k][n] \in Nat
    BY StaticAssumption DEF Busy
  <2>2. r[<<k, n>>] = b[k][n] * Mu[k][n]
    BY DEF ServiceRate
  <2> HIDE DEF r
  <2> QED BY <2>1, <2>2
<1>3. ASSUME NEW k \in Pools PROVE F[k] \in Nat /\ Total(r, {k} \X Jobs) <= F[k]
  <2>1. FastestMu(k) \in Nat /\ BusyIn(b, k) \in Nat /\ Servers[k] \in Nat /\ BusyIn(b, k) <= Servers[k]
    BY BusyInType, FastestMuIsBound, StaticAssumption
  <2>2. Total(r, {k} \X Jobs) <= FastestMu(k) * BusyIn(b, k)
    BY PoolRate
  <2>3. BusyIn(b, k) * FastestMu(k) <= Servers[k] * FastestMu(k)
    <3>1. PICK d \in Nat : Servers[k] = BusyIn(b, k) + d
      <4>1. Servers[k] - BusyIn(b, k) \in Nat /\ Servers[k] = BusyIn(b, k) + (Servers[k] - BusyIn(b, k))
        BY <2>1
      <4> QED BY <4>1
    <3>2. FastestMu(k) * (BusyIn(b, k) + d) = FastestMu(k) * BusyIn(b, k) + FastestMu(k) * d
      BY <2>1
    <3>3. FastestMu(k) * d \in Nat /\ FastestMu(k) * BusyIn(b, k) \in Nat
      BY <2>1
    <3> QED
      BY <2>1, <3>1, <3>2, <3>3
  <2>4. F[k] = FastestMu(k) * Servers[k] /\ F[k] \in Nat
    BY <2>1
  <2>5. Total(r, {k} \X Jobs) \in Nat
    <3>1. IsFiniteSet({k} \X Jobs)
      BY FS_Singleton, FS_Product, JobsAndPoolsFinite
    <3> QED
      BY <1>2, <3>1, TokensFinite
  <2> HIDE DEF r, F
  <2> QED
    BY <2>1, <2>2, <2>3, <2>4, <2>5
<1>4. ASSUME NEW k \in 0 .. KServers
      PROVE  /\ IsFiniteSet(0 .. k - 1) /\ IsFiniteSet(Rows(k))
             /\ 0 .. k - 1 \subseteq Pools
             /\ (\A c \in Rows(k) : r[c] \in Nat) /\ \A p \in 0 .. k - 1 : F[p] \in Nat
             /\ L(k) \in Nat /\ R(k) \in Nat
  <2>1. 0 .. k - 1 \subseteq Pools /\ IsFiniteSet(0 .. k - 1)
    BY <1>1, FS_Interval
  <2>2. IsFiniteSet(Rows(k))
    BY <2>1, FS_Product, JobsAndPoolsFinite
  <2>3. (\A c \in Rows(k) : r[c] \in Nat) /\ \A p \in 0 .. k - 1 : F[p] \in Nat
    <3> HIDE DEF r, F
    <3> QED BY <1>2, <1>3, <2>1
  <2> HIDE DEF r, F, Rows
  <2> QED
    BY <2>1, <2>2, <2>3, TokensFinite
<1>5. 0 \in Good
  <2>1. 0 .. 0 - 1 = {} /\ Rows(0) = {}
    OBVIOUS
  <2>2. L(0) = 0 /\ R(0) = 0
    BY <2>1, TotalEmpty
  <2> HIDE DEF L, R
  <2> QED
    BY <1>1, <2>2
<1>6. ASSUME NEW k \in 0 .. KServers - 1, k \in Good PROVE k + 1 \in Good
  <2>1. k \in Pools /\ k \in 0 .. KServers /\ k + 1 \in 0 .. KServers
    BY <1>1
  <2>2. 0 .. (k + 1) - 1 = (0 .. k - 1) \cup {k} /\ k \notin 0 .. k - 1
    OBVIOUS
  <2> DEFINE Row == {k} \X Jobs
  <2>3. Rows(k + 1) = Rows(k) \cup Row /\ Rows(k) \cap Row = {}
    BY <2>2
  <2>4. IsFiniteSet(Row) /\ \A c \in Row : r[c] \in Nat
    <3>1. IsFiniteSet(Row)
      BY FS_Singleton, FS_Product, JobsAndPoolsFinite
    <3>2. Row \subseteq Pools \X Jobs
      BY <2>1
    <3> HIDE DEF Row, r
    <3> QED BY <1>2, <3>1, <3>2
  <2>5. L(k + 1) = L(k) + Total(r, Row) /\ Total(r, Row) \in Nat
    <3>1. IsFiniteSet(Rows(k)) /\ \A c \in Rows(k) : r[c] \in Nat
      BY <1>4, <2>1
    <3> HIDE DEF r, Rows, Row
    <3>2. \A c \in Rows(k) \cup Row : r[c] \in Nat
      BY <2>4, <3>1
    <3>3. Total(r, Rows(k) \cup Row) = Total(r, Rows(k)) + Total(r, Row)
      BY <2>3, <2>4, <3>1, <3>2, TotalUnion
    <3>4. Total(r, Row) \in Nat
      BY <2>4, TokensFinite
    <3> QED
      BY <2>3, <3>3, <3>4
  <2>6. R(k + 1) = R(k) + F[k]
    <3> DEFINE S == 0 .. k - 1
    <3>1. IsFiniteSet(S) /\ (\A p \in S : F[p] \in Nat) /\ F[k] \in Nat /\ k \notin S
      <4> HIDE DEF F
      <4> QED BY <1>3, <1>4, <2>1, <2>2
    <3>2. 0 .. (k + 1) - 1 = S \cup {k}
      BY <2>2
    <3> HIDE DEF S, F
    <3>3. Total(F, S \cup {k}) = Total(F, S) + F[k]
      BY <3>1, TotalAdd
    <3> QED
      BY <3>2, <3>3 DEF S
  <2>7. L(k) \in Nat /\ R(k) \in Nat /\ L(k) <= R(k) /\ F[k] \in Nat /\ Total(r, Row) <= F[k]
    <3>1. L(k) <= R(k)
      BY <1>6
    <3> HIDE DEF L, R, F, r
    <3> QED BY <1>3, <1>4, <2>1, <3>1
  <2>8. L(k + 1) <= R(k + 1)
    <3> HIDE DEF L, R, F, r, Row
    <3> QED BY <2>5, <2>6, <2>7
  <2> HIDE DEF L, R
  <2> QED
    BY <2>1, <2>8
<1>7. KServers \in Good
  <2> HIDE DEF Good
  <2> QED
    BY <1>1, <1>5, <1>6, UpwardInduction
<1>8. L(KServers) <= R(KServers)
  <2> HIDE DEF L, R
  <2> QED BY <1>7
<1>9. QED
  BY <1>1, <1>8

-----------------------------------------------------------------------------
(***************************************************************************)
(* Uniformization.  The scans of GetEventType over the types and over the  *)
(* (pool, type) pairs are scans in the sense above, with the arrival rates *)
(* and the rates of the busy servers; both ranges and the ticks between    *)
(* them fit in the uniformization rate.                                    *)
(***************************************************************************)

(* A server is only ever busy with a type its pool has the skill for: the  *)
(* scan over completions passes over the other pairs.                      *)
SkillKept == \A k \in Pools, n \in Jobs : n \in CanServe[k] \/ busy_on[k][n] = 0

(* The pairs the scan over completions stops at, and the keys of both scans. *)
Skilled   == {c \in Pools \X Jobs : c[2] \in CanServe[c[1]]}
TypeKey   == [n \in Jobs |-> n]
SlotKey   == [c \in Pools \X Jobs |-> Slot(c)]

(* No two (pool, type) pairs have the same slot. *)
LEMMA SlotsDiffer ==
  ASSUME NEW N \in Nat, NEW a \in Nat, NEW b \in Nat, NEW m \in 0 .. N - 1, NEW n \in 0 .. N - 1,
         a < b
  PROVE  a * N + m < b * N + n
<1>1. PICK d \in Nat : b = a + 1 + d
  <2>1. b - a - 1 \in Nat /\ b = a + 1 + (b - a - 1)
    OBVIOUS
  <2> QED BY <2>1
<1>2. (a + 1 + d) * N = a * N + N + d * N
  OBVIOUS
<1>3. a * N \in Nat /\ d * N \in Nat
  OBVIOUS
<1>4. QED
  BY <1>1, <1>2, <1>3

(* Both scans go by distinct keys. *)
LEMMA ScansKeyed ==
  /\ \A w : Open(w) \in SUBSET Jobs /\ Keyed(Open(w), TypeKey)
  /\ Keyed(Skilled, SlotKey)
<1>1. ASSUME NEW w PROVE Open(w) \in SUBSET Jobs /\ Keyed(Open(w), TypeKey)
  <2>1. Open(w) \in SUBSET Jobs
    BY DEF Open
  <2>2. IsFiniteSet(Open(w))
    BY <2>1, JobsAndPoolsFinite, FS_Subset
  <2> QED
    BY <2>1, <2>2, JobsAndPoolsFinite DEF Keyed, TypeKey
<1>2. IsFiniteSet(Skilled) /\ Skilled \in SUBSET (Pools \X Jobs)
  BY JobsAndPoolsFinite, FS_Product, FS_Subset DEF Skilled
<1>3. ASSUME NEW k \in Pools, NEW n \in Jobs
      PROVE  /\ k \in Nat /\ NJobs \in Nat /\ n \in 0 .. NJobs - 1
             /\ SlotKey[<<k, n>>] = k * NJobs + n /\ SlotKey[<<k, n>>] \in Nat
  <2>1. k \in Nat /\ NJobs \in Nat /\ n \in 0 .. NJobs - 1
    BY StaticAssumption, JobsAndPoolsFinite DEF Jobs
  <2>2. SlotKey[<<k, n>>] = k * NJobs + n
    BY DEF SlotKey, Slot
  <2>3. k * NJobs \in Nat
    BY <2>1
  <2> QED
    BY <2>1, <2>2, <2>3
<1>4. ASSUME NEW k \in Pools, NEW n \in Jobs, NEW p \in Pools, NEW m \in Jobs,
             SlotKey[<<k, n>>] = SlotKey[<<p, m>>]
      PROVE  k = p /\ n = m
  <2>1. k * NJobs + n = SlotKey[<<k, n>>] /\ p * NJobs + m = SlotKey[<<k, n>>] /\ SlotKey[<<k, n>>] \in Nat
    BY <1>3, <1>4
  <2>2. k \in Nat /\ p \in Nat /\ NJobs \in Nat /\ n \in 0 .. NJobs - 1 /\ m \in 0 .. NJobs - 1
    BY <1>3
  <2> DEFINE s == SlotKey[<<k, n>>]
  <2> HIDE DEF s
  <2>3. ~(k < p)
    <3> SUFFICES ASSUME k < p PROVE FALSE
      OBVIOUS
    <3>1. k * NJobs + n < p * NJobs + m
      BY <2>2, SlotsDiffer
    <3> QED BY <2>1, <3>1
  <2>4. ~(p < k)
    <3> SUFFICES ASSUME p < k PROVE FALSE
      OBVIOUS
    <3>1. p * NJobs + m < k * NJobs + n
      BY <2>2, SlotsDiffer
    <3> QED BY <2>1, <3>1
  <2>5. k = p
    BY <2>2, <2>3, <2>4
  <2>6. k * NJobs \in Nat /\ k * NJobs + n = k * NJobs + m
    BY <2>1, <2>2, <2>5
  <2>7. n = m
    BY <2>2, <2>6
  <2> QED
    BY <2>5, <2>7
<1>5. Keyed(Skilled, SlotKey)
  <2>1. \A c \in Skilled : c = <<c[1], c[2]>> /\ c[1] \in Pools /\ c[2] \in Jobs
    BY <1>2
  <2> QED
    BY <1>2, <1>3, <1>4, <2>1 DEF Keyed
<1>6. QED
  BY <1>1, <1>5

(* The scan over arrivals stops at type n. *)
LEMMA ArrivalAt ==
  ASSUME TypeOK, NEW n \in Jobs, NEW u \in Nat
  PROVE  EventAt(u) = Arrival(n) <=>
           /\ u < total_arrival_rate
           /\ n \in Open(waiting)
           /\ StopsAt(Open(waiting), TypeKey, ArrivalRate, u, n)
<1> DEFINE O == Open(waiting)
           H == ArrivalHit(waiting, u)
<1>1. O \in SUBSET Jobs /\ \A m \in Jobs : TypeKey[m] = m
  BY ScansKeyed DEF TypeKey
<1>2. Jobs = 0 .. NJobs - 1 /\ NJobs \in Nat
  BY StaticAssumption DEF Jobs
<1>3. ASSUME NEW m \in Jobs PROVE {j \in 0 .. m : NotFull(waiting, j)} = UpTo(O, TypeKey, m)
  BY <1>1, <1>2 DEF UpTo, Open
<1>4. H = ScanHits(O, TypeKey, ArrivalRate, u)
  <2>1. \A m \in Jobs : m \in O <=> NotFull(waiting, m)
    BY DEF Open
  <2> QED
    BY <1>1, <1>3, <2>1 DEF ArrivalHit, ScanHits
<1>5. H \subseteq Nat /\ H \subseteq Jobs /\ H \subseteq O
  BY <1>1, <1>4, JobsAndPoolsFinite DEF ScanHits
<1> HIDE DEF O, H
<1>6. EventAt(u) = Arrival(n) <=> u < total_arrival_rate /\ H # {} /\ Least(H) = n
  BY DEF EventAt, GetEventType, Nothing, Tick, Arrival, Completion, H
<1>7. H # {} /\ Least(H) = n <=> n \in H /\ \A y \in H : n <= y
  <2>1. ASSUME H # {} PROVE Least(H) \in H /\ \A y \in H : Least(H) <= y
    BY <1>5, <2>1, LeastIsMember
  <2>2. ASSUME n \in H, \A y \in H : n <= y PROVE Least(H) = n
    <3>1. Least(H) \in Nat /\ n \in Nat /\ Least(H) <= n /\ n <= Least(H)
      BY <1>5, <2>1, <2>2
    <3> QED BY <3>1
  <2> QED
    BY <2>1, <2>2
<1>8. n \in H /\ (\A y \in H : n <= y) <=> n \in O /\ StopsAt(O, TypeKey, ArrivalRate, u, n)
  <2>1. \A y \in H : TypeKey[y] = y
    BY <1>1, <1>5
  <2> QED
    BY <1>1, <1>4, <1>5, <2>1 DEF StopsAt
<1>9. QED
  BY <1>6, <1>7, <1>8 DEF O

(* Between the arrivals and the completions the slots are the tick's. *)
LEMMA TickAt ==
  ASSUME TypeOK, NEW u \in Nat
  PROVE  EventAt(u) = Tick <=> total_arrival_rate <= u /\ u < total_arrival_rate + TickRate
<1>1. total_arrival_rate \in Int /\ TickRate \in Nat
  BY StaticAssumption DEF TypeOK
<1>2. QED
  BY <1>1 DEF EventAt, GetEventType, Nothing, Tick, Arrival, Completion

(* The scan over completions stops at pool k and type n. *)
LEMMA CompletionAt ==
  ASSUME TypeOK, NEW k \in Pools, NEW n \in Jobs, NEW u \in Nat
  PROVE  EventAt(u) = Completion(k, n) <=>
           /\ total_arrival_rate + TickRate <= u
           /\ <<k, n>> \in Skilled
           /\ StopsAt(Skilled, SlotKey, ServiceRate(busy_on),
                      u - total_arrival_rate - TickRate, <<k, n>>)
<1> DEFINE v == u - total_arrival_rate - TickRate
           H == CompletionHit(busy_on, v)
           first == CHOOSE c \in H : \A d \in H : Slot(c) <= Slot(d)
<1>1. total_arrival_rate \in Int /\ TickRate \in Nat
  BY StaticAssumption DEF TypeOK
<1>2. \A c \in Pools \X Jobs : SlotKey[c] = Slot(c)
  BY DEF SlotKey
<1>3. Keyed(Skilled, SlotKey) /\ Skilled \subseteq Pools \X Jobs
  BY ScansKeyed DEF Skilled
<1>4. \A c \in Pools \X Jobs : c \in Skilled <=> c[2] \in CanServe[c[1]]
  BY DEF Skilled
<1>5. ASSUME NEW c \in Pools \X Jobs
      PROVE  {d \in Pools \X Jobs : Slot(d) <= Slot(c) /\ d[2] \in CanServe[d[1]]}
               = UpTo(Skilled, SlotKey, c)
  BY <1>2, <1>3, <1>4 DEF UpTo
<1>6. H = ScanHits(Skilled, SlotKey, ServiceRate(busy_on), v)
  BY <1>3, <1>4, <1>5 DEF CompletionHit, ScanHits
<1>7. H \subseteq Skilled
  BY <1>6 DEF ScanHits
<1>8. EventAt(u) = Completion(k, n) <=>
        total_arrival_rate + TickRate <= u /\ H # {} /\ first[1] = k /\ first[2] = n
  <2>1. EventAt(u) = IF u < total_arrival_rate
                     THEN IF ArrivalHit(waiting, u) = {} THEN Nothing
                          ELSE Arrival(Least(ArrivalHit(waiting, u)))
                     ELSE IF u < total_arrival_rate + TickRate THEN Tick
                     ELSE IF H = {} THEN Nothing ELSE Completion(first[1], first[2])
    BY DEF EventAt, GetEventType
  <2> HIDE DEF H, first
  <2> QED
    BY <1>1, <2>1 DEF Nothing, Tick, Arrival, Completion
<1> HIDE DEF H
<1>9. ASSUME H # {} PROVE first \in H /\ \A d \in H : Slot(first) <= Slot(d)
  <2> DEFINE K == {Slot(c) : c \in H}
  <2>1. K \subseteq Nat /\ K # {}
    BY <1>2, <1>3, <1>7, <1>9 DEF Keyed
  <2>2. Least(K) \in K /\ \A y \in K : Least(K) <= y
    BY <2>1, LeastIsMember
  <2>3. \E c \in H : \A d \in H : Slot(c) <= Slot(d)
    BY <2>2
  <2> QED
    BY <2>3
<1>10. ASSUME NEW c \in H, \A d \in H : Slot(c) <= Slot(d) PROVE first = c
  <2>1. first \in H /\ \A d \in H : Slot(first) <= Slot(d)
    BY <1>9, <1>10
  <2> HIDE DEF first
  <2>2. Slot(first) \in Nat /\ Slot(c) \in Nat /\ Slot(first) <= Slot(c) /\ Slot(c) <= Slot(first)
    BY <1>2, <1>3, <1>7, <1>10, <2>1 DEF Keyed
  <2>3. SlotKey[first] = SlotKey[c]
    BY <1>2, <1>3, <1>7, <2>1, <2>2
  <2> QED
    BY <1>3, <1>7, <2>1, <2>3 DEF Keyed
<1>11. H # {} /\ first[1] = k /\ first[2] = n <=>
         <<k, n>> \in H /\ \A d \in H : Slot(<<k, n>>) <= Slot(d)
  <2>1. ASSUME H # {}, first[1] = k, first[2] = n
        PROVE  <<k, n>> \in H /\ \A d \in H : Slot(<<k, n>>) <= Slot(d)
    <3>1. first \in H /\ \A d \in H : Slot(first) <= Slot(d)
      BY <1>9, <2>1
    <3> HIDE DEF first
    <3>2. first = <<k, n>>
      BY <1>3, <1>7, <2>1, <3>1
    <3> QED BY <3>1, <3>2
  <2>2. ASSUME <<k, n>> \in H, \A d \in H : Slot(<<k, n>>) <= Slot(d)
        PROVE  H # {} /\ first[1] = k /\ first[2] = n
    <3>1. first = <<k, n>>
      BY <1>10, <2>2
    <3> HIDE DEF first
    <3> QED BY <2>2, <3>1
  <2> HIDE DEF first
  <2> QED
    BY <2>1, <2>2
<1>12. <<k, n>> \in H /\ (\A d \in H : Slot(<<k, n>>) <= Slot(d)) <=>
         <<k, n>> \in Skilled /\ StopsAt(Skilled, SlotKey, ServiceRate(busy_on), v, <<k, n>>)
  <2>1. \A d \in H : SlotKey[d] = Slot(d)
    BY <1>2, <1>3, <1>7
  <2>2. SlotKey[<<k, n>>] = Slot(<<k, n>>)
    BY <1>2
  <2> QED
    BY <1>6, <1>7, <2>1, <2>2 DEF StopsAt
<1> HIDE DEF first
<1>13. QED
  BY <1>8, <1>11, <1>12

(* Neither starting nor completing a job makes a server busy with a type   *)
(* its pool has no skill for.                                              *)
LEMMA SkillOfJob ==
  ASSUME NEW b \in Busy, \A p \in Pools, m \in Jobs : m \in CanServe[p] \/ b[p][m] = 0,
         NEW k, NEW n
  PROVE  \A p \in Pools, m \in Jobs :
           /\ m \in CanServe[p] \/ AssignJob(b, k, n)[p][m] = 0
           /\ m \in CanServe[p] \/ CompleteJob(b, k, n)[p][m] = 0
<1> SUFFICES ASSUME NEW p \in Pools, NEW m \in Jobs, m \notin CanServe[p]
             PROVE  AssignJob(b, k, n)[p][m] = b[p][m] /\ CompleteJob(b, k, n)[p][m] = b[p][m]
  OBVIOUS
<1>1. ASSUME n \in CanServe[k], NEW x
      PROVE  [b EXCEPT ![k][n] = x][p][m] = b[p][m]
  BY <1>1 DEF Busy
<1>2. QED
  BY <1>1 DEF AssignJob, CompleteJob

(* Every step keeps the skills. *)
LEMMA NextSkill ==
  ASSUME TypeOK, SkillKept, [Next]_vars
  PROVE  SkillKept'
<1>1. busy_on \in Busy /\ \A p \in Pools, m \in Jobs : m \in CanServe[p] \/ busy_on[p][m] = 0
  BY DEF TypeOK, Busy, SkillKept
<1>2. CASE \E k, n : busy_on' \in {AssignJob(busy_on, k, n), CompleteJob(busy_on, k, n)}
  BY <1>1, <1>2, SkillOfJob DEF SkillKept
<1>3. CASE busy_on' = busy_on
  BY <1>3 DEF SkillKept
<1>4. CASE Serve
  <2>1. busy_on' = AssignJob(busy_on, Current.k, Current.n)
    BY <1>4 DEF Serve, StartCandidate, TakeAction, Current
  <2> QED BY <1>2, <2>1
<1>5. ASSUME NEW n \in Jobs, ServeType(n) PROVE SkillKept'
  BY <1>2, <1>5 DEF ServeType, StartType
<1>6. CASE UniformizedEvent
  <2>1. ASSUME NEW k, NEW n, HandleCompletion(k, n) PROVE SkillKept'
    BY <1>2, <2>1 DEF HandleCompletion
  <2> QED
    BY <1>3, <1>6, <2>1, EventCases DEF HandleArrival, HandleTick, HandleNothing
<1>7. CASE Skip \/ SkipAll \/ FilRefresh \/ UNCHANGED vars
  BY <1>3, <1>7 DEF Skip, PassOver, SkipAll, FilRefresh, vars
<1>8. QED
  BY <1>4, <1>5, <1>6, <1>7 DEF Next, Decide

(* At first no server is busy. *)
LEMMA InitSkill == Init => SkillKept
BY DEF Init, SkillKept

(* The slots of the open arrivals, the tick and the busy servers all fit   *)
(* below the uniformization rate.                                          *)
LEMMA RatesFit ==
  ASSUME TypeOK, PoolCapacity, ArrivalRateExact
  PROVE  /\ total_arrival_rate \in Nat /\ TickRate \in Nat /\ UniformizationRate \in Nat
         /\ Total(ServiceRate(busy_on), Skilled) \in Nat
         /\ \A c \in Skilled : ServiceRate(busy_on)[c] \in Nat
         /\ total_arrival_rate + TickRate + Total(ServiceRate(busy_on), Skilled)
              <= UniformizationRate
<1> DEFINE r == ServiceRate(busy_on)
           F == [k \in Pools |-> FastestMu(k) * Servers[k]]
<1>1. total_arrival_rate = Total(ArrivalRate, Open(waiting)) /\ Open(waiting) \in SUBSET Jobs
  BY DEF ArrivalRateExact, OpenRate, Open
<1>2. \A n \in Jobs : ArrivalRate[n] \in Nat /\ ArrivalRate[n] <= ArrivalRate[n]
  BY StaticAssumption
<1>3. total_arrival_rate <= Total(ArrivalRate, Jobs) /\ Total(ArrivalRate, Jobs) \in Nat
  BY <1>1, <1>2, JobsAndPoolsFinite, TotalMonotonic, TokensFinite
<1>4. total_arrival_rate \in Nat
  BY OpenRateType DEF ArrivalRateExact
<1>5. busy_on \in Busy
  BY DEF TypeOK, Busy
<1>6. Skilled \in SUBSET (Pools \X Jobs) /\ IsFiniteSet(Pools \X Jobs) /\ IsFiniteSet(Skilled)
  BY ScansKeyed, JobsAndPoolsFinite, FS_Product DEF Skilled, Keyed
<1>7. \A c \in Pools \X Jobs : r[c] \in Nat
  <2> SUFFICES ASSUME NEW k \in Pools, NEW n \in Jobs PROVE r[<<k, n>>] \in Nat
    OBVIOUS
  <2>1. busy_on[k][n] \in Nat /\ Mu[k][n] \in Nat
    BY <1>5, StaticAssumption DEF Busy
  <2>2. r[<<k, n>>] = busy_on[k][n] * Mu[k][n]
    BY DEF ServiceRate
  <2> HIDE DEF r
  <2> QED BY <2>1, <2>2
<1>8. \A k \in Pools : F[k] \in Nat
  BY FastestMuIsBound, StaticAssumption
<1>9. Total(r, Pools \X Jobs) <= Total(F, Pools)
  BY <1>5, ServiceRateBound DEF PoolCapacity
<1> HIDE DEF r
<1>10. Total(r, Skilled) <= Total(r, Pools \X Jobs)
  <2>1. \A c \in Skilled : r[c] \in Nat /\ r[c] <= r[c]
    BY <1>6, <1>7
  <2> QED
    BY <1>6, <1>7, <2>1, TotalMonotonic
<1>11. Total(r, Skilled) \in Nat /\ Total(r, Pools \X Jobs) \in Nat /\ \A c \in Skilled : r[c] \in Nat
  BY <1>6, <1>7, TokensFinite
<1>12. Total(F, Pools) \in Nat
  <2> HIDE DEF F
  <2> QED BY <1>8, JobsAndPoolsFinite, TokensFinite
<1>13. UniformizationRate = TickRate + Total(ArrivalRate, Jobs) + Total(F, Pools) /\ TickRate \in Nat
  BY StaticAssumption DEF UniformizationRate
<1> HIDE DEF F
<1>14. QED
  BY <1>3, <1>4, <1>9, <1>10, <1>11, <1>12, <1>13 DEF r

(* A type that accepts arrivals has the slots of its rate, a full one none. *)
LEMMA ArrivalSlots ==
  ASSUME TypeOK, PoolCapacity, ArrivalRateExact, NEW n \in Jobs
  PROVE  SlotsOf(Arrival(n)) = IF NotFull(waiting, n) THEN ArrivalRate[n] ELSE 0
<1> DEFINE O == Open(waiting)
           b == Total(ArrivalRate, Before(O, TypeKey, n))
           S == {u \in 0 .. UniformizationRate - 1 : EventAt(u) = Arrival(n)}
           arr == total_arrival_rate
<1>1. arr \in Nat /\ UniformizationRate \in Nat /\ arr <= UniformizationRate
  <2>1. /\ arr \in Nat /\ TickRate \in Nat /\ UniformizationRate \in Nat
        /\ Total(ServiceRate(busy_on), Skilled) \in Nat
        /\ arr + TickRate + Total(ServiceRate(busy_on), Skilled) <= UniformizationRate
    BY RatesFit
  <2> QED BY <2>1
<1>2. O \in SUBSET Jobs /\ Keyed(O, TypeKey) /\ \A m \in O : ArrivalRate[m] \in Nat
  BY ScansKeyed, StaticAssumption
<1>3. n \in O <=> NotFull(waiting, n)
  BY DEF Open
<1>4. arr = Total(ArrivalRate, O)
  BY DEF ArrivalRateExact, OpenRate, Open
<1>5. CASE n \in O
  <2>1. b \in Nat /\ ArrivalRate[n] \in Nat /\ b + ArrivalRate[n] <= arr
    <3>1. /\ b \in Nat /\ Total(ArrivalRate, UpTo(O, TypeKey, n)) = b + ArrivalRate[n]
          /\ Total(ArrivalRate, UpTo(O, TypeKey, n)) <= Total(ArrivalRate, O)
      BY <1>2, <1>5, ScanSum
    <3> QED BY <1>2, <1>4, <1>5, <3>1
  <2>2. ASSUME NEW u \in Nat
        PROVE  EventAt(u) = Arrival(n) <=> u < arr /\ u \in b .. b + ArrivalRate[n] - 1
    <3>1. EventAt(u) = Arrival(n) <=> u < arr /\ n \in O /\ StopsAt(O, TypeKey, ArrivalRate, u, n)
      BY ArrivalAt
    <3>2. StopsAt(O, TypeKey, ArrivalRate, u, n) <=> u \in b .. b + ArrivalRate[n] - 1
      BY <1>2, <1>5, ScanStops
    <3> QED BY <1>5, <3>1, <3>2
  <2> HIDE DEF b, arr
  <2>3. S = b .. b + ArrivalRate[n] - 1
    <3>1. \A u \in b .. b + ArrivalRate[n] - 1 : u \in 0 .. UniformizationRate - 1 /\ u \in Nat /\ u < arr
      BY <1>1, <2>1
    <3>2. \A u \in 0 .. UniformizationRate - 1 : u \in Nat
      BY <1>1
    <3> QED BY <2>2, <3>1, <3>2
  <2>4. Cardinality(S) = ArrivalRate[n]
    <3> HIDE DEF S
    <3> QED BY <2>1, <2>3, SlotCount
  <2> QED
    BY <1>3, <1>5, <2>4 DEF SlotsOf
<1>6. CASE n \notin O
  <2>1. \A u \in 0 .. UniformizationRate - 1 : EventAt(u) # Arrival(n)
    <3>1. \A u \in 0 .. UniformizationRate - 1 : u \in Nat
      BY <1>1
    <3> QED BY <1>6, <3>1, ArrivalAt
  <2>2. S = {}
    BY <2>1
  <2> QED
    BY <1>3, <1>6, <2>2, FS_EmptySet DEF SlotsOf
<1>7. QED
  BY <1>5, <1>6

(* The tick has its rate. *)
LEMMA TickSlots ==
  ASSUME TypeOK, PoolCapacity, ArrivalRateExact
  PROVE  SlotsOf(Tick) = TickRate
<1> DEFINE arr == total_arrival_rate
           S == {u \in 0 .. UniformizationRate - 1 : EventAt(u) = Tick}
<1>1. arr \in Nat /\ TickRate \in Nat /\ UniformizationRate \in Nat /\ arr + TickRate <= UniformizationRate
  <2>1. /\ arr \in Nat /\ TickRate \in Nat /\ UniformizationRate \in Nat
        /\ Total(ServiceRate(busy_on), Skilled) \in Nat
        /\ arr + TickRate + Total(ServiceRate(busy_on), Skilled) <= UniformizationRate
    BY RatesFit
  <2> QED BY <2>1
<1>2. ASSUME NEW u \in Nat PROVE EventAt(u) = Tick <=> arr <= u /\ u < arr + TickRate
  BY TickAt
<1> HIDE DEF arr
<1>3. S = arr .. arr + TickRate - 1
  BY <1>1, <1>2
<1>4. Cardinality(S) = TickRate
  <2> HIDE DEF S
  <2> QED BY <1>1, <1>3, SlotCount
<1>5. QED
  BY <1>4 DEF SlotsOf

(* Each pool and type have the slots of their busy servers. *)
LEMMA CompletionSlots ==
  ASSUME TypeOK, PoolCapacity, ArrivalRateExact, SkillKept, NEW k \in Pools, NEW n \in Jobs
  PROVE  SlotsOf(Completion(k, n)) = busy_on[k][n] * Mu[k][n]
<1> DEFINE x == <<k, n>>
           r == ServiceRate(busy_on)
           o == total_arrival_rate + TickRate
           b == Total(r, Before(Skilled, SlotKey, x))
           S == {u \in 0 .. UniformizationRate - 1 : EventAt(u) = Completion(k, n)}
<1>1. /\ o \in Nat /\ UniformizationRate \in Nat /\ o + Total(r, Skilled) <= UniformizationRate
      /\ Total(r, Skilled) \in Nat /\ \A c \in Skilled : r[c] \in Nat
  BY RatesFit
<1>2. Keyed(Skilled, SlotKey)
  BY ScansKeyed
<1>3. x \in Skilled <=> n \in CanServe[k]
  BY DEF Skilled
<1>4. r[x] = busy_on[k][n] * Mu[k][n]
  BY DEF ServiceRate
<1>5. ASSUME NEW u \in Nat
      PROVE  EventAt(u) = Completion(k, n) <=>
               o <= u /\ x \in Skilled /\ StopsAt(Skilled, SlotKey, r, u - o, x)
  <2>1. u - total_arrival_rate - TickRate = u - o
    BY RatesFit
  <2> QED BY <2>1, CompletionAt
<1> HIDE DEF r, x, o
<1>6. CASE n \in CanServe[k]
  <2>1. b \in Nat /\ r[x] \in Nat /\ b + r[x] <= Total(r, Skilled)
    <3>1. /\ b \in Nat /\ Total(r, UpTo(Skilled, SlotKey, x)) = b + r[x]
          /\ Total(r, UpTo(Skilled, SlotKey, x)) <= Total(r, Skilled)
      BY <1>1, <1>2, <1>3, <1>6, ScanSum
    <3> QED BY <1>1, <1>3, <1>6, <3>1
  <2>2. ASSUME NEW u \in Nat, o <= u
        PROVE  StopsAt(Skilled, SlotKey, r, u - o, x) <=> u - o \in b .. b + r[x] - 1
    <3>1. u - o \in Nat
      BY <1>1, <2>2
    <3> QED BY <1>1, <1>2, <1>3, <1>6, <3>1, ScanStops
  <2> HIDE DEF b
  <2>3. S = o + b .. o + b + r[x] - 1
    <3>1. \A u \in o + b .. o + b + r[x] - 1 :
            u \in 0 .. UniformizationRate - 1 /\ u \in Nat /\ o <= u /\ u - o \in b .. b + r[x] - 1
      BY <1>1, <2>1
    <3>2. \A u \in 0 .. UniformizationRate - 1 : u \in Nat
      BY <1>1
    <3>3. \A u \in Nat : o <= u /\ u - o \in b .. b + r[x] - 1 => u \in o + b .. o + b + r[x] - 1
      BY <1>1, <2>1
    <3> QED BY <1>3, <1>5, <1>6, <2>2, <3>1, <3>2, <3>3
  <2>4. Cardinality(S) = r[x]
    <3> HIDE DEF S
    <3>1. o + b \in Nat /\ r[x] \in Nat
      BY <1>1, <2>1
    <3> QED BY <2>3, <3>1, SlotCount
  <2> QED
    BY <1>4, <2>4 DEF SlotsOf
<1>7. CASE n \notin CanServe[k]
  <2>1. S = {}
    <3>1. \A u \in 0 .. UniformizationRate - 1 : u \in Nat
      BY <1>1
    <3> QED BY <1>3, <1>5, <1>7, <3>1
  <2>2. busy_on[k][n] = 0 /\ Mu[k][n] \in Nat
    BY <1>7, StaticAssumption DEF SkillKept
  <2>3. busy_on[k][n] * Mu[k][n] = 0
    BY <2>2
  <2>4. Cardinality(S) = 0
    BY <2>1, FS_EmptySet
  <2> QED
    BY <2>3, <2>4 DEF SlotsOf
<1>8. QED
  BY <1>6, <1>7

(* In every instance each event of the uniformized process happens at its  *)
(* own rate: of the slots of the event sample every open type gets its     *)
(* arrival rate, the tick its rate, every pool and type the rate of their  *)
(* busy servers, and never is a slot promised twice.                       *)
THEOREM EventsHaveTheirRates == Spec => []UniformizationExact
<1>1. Init => LineInv /\ SkillKept
  BY InitLine, InitSkill
<1>2. LineInv /\ SkillKept /\ [Next]_vars => (LineInv /\ SkillKept)'
  BY NextLine, NextSkill DEF LineInv
<1>3. LineInv /\ SkillKept => UniformizationExact
  BY ArrivalSlots, TickSlots, CompletionSlots DEF LineInv, UniformizationExact
<1>4. QED
  BY <1>1, <1>2, <1>3, PTL DEF Spec

-----------------------------------------------------------------------------
(* One tick makes every head one tick older, and leaves empty lines empty. *)
LEMMA AgedHeads ==
  ASSUME NEW w \in Lines, NEW n \in Jobs
  PROVE  /\ Aged(w)[n] = <<>> <=> w[n] = <<>>
         /\ w[n] # <<>> => FIL(Aged(w))[n] = FIL(w)[n] + 1
<1>1. /\ Aged(w) \in Lines /\ Len(Aged(w)[n]) = Len(w[n])
      /\ \A i \in 1 .. Len(w[n]) : Aged(w)[n][i] = w[n][i] + 1
  BY AgedType
<1>2. w[n] \in Seq(Nat) /\ Aged(w)[n] \in Seq(Nat)
  BY <1>1 DEF Lines
<1>3. Aged(w)[n] = <<>> <=> w[n] = <<>>
  BY <1>1, <1>2, EmptySeq
<1>4. w[n] # <<>> => 1 \in 1 .. Len(w[n])
  BY <1>2, EmptySeq
<1>5. QED
  BY <1>1, <1>3, <1>4, FILType

(* Ageing changes no candidate, no comparison of candidates and no label:  *)
(* the candidate queue of the aged lines is the one of the lines.          *)
LEMMA QueueIgnoresAgeing ==
  ASSUME NEW w \in Lines, NEW b \in Busy
  PROVE  CandidateQueue(Aged(w), b) = CandidateQueue(w, b)
<1> DEFINE v == Aged(w)
           C == Candidates(w, b)
           R == PresentationOrder(FIL(w), C)
<1>1. v \in Lines
  BY AgedType
<1>2. \A n \in Jobs : /\ FIL(v)[n] \in Int /\ FIL(w)[n] \in Int
                      /\ FIL(v)[n] >= 0 <=> FIL(w)[n] >= 0
                      /\ FIL(w)[n] >= 0 => FIL(v)[n] = FIL(w)[n] + 1
  BY <1>1, AgedHeads, FILType
<1> HIDE DEF v
<1>3. Candidates(v, b) = C
  BY <1>2 DEF Candidates
<1>4. \A c \in C : /\ c = <<c[1], c[2]>> /\ c[1] \in Pools /\ c[2] \in Jobs
                   /\ FIL(w)[c[2]] \in Int /\ FIL(v)[c[2]] = FIL(w)[c[2]] + 1
  BY <1>2 DEF Candidates
<1>5. \A c, d \in C : Precedes(FIL(v), c, d) <=> Precedes(FIL(w), c, d)
  BY <1>4 DEF Precedes
<1>6. PresentationOrder(FIL(v), C) = R
  BY <1>5 DEF PresentationOrder
<1>7. ASSUME NEW c \in C PROVE Labelled(v, b, c) = Labelled(w, b, c)
  <2> DEFINE rivals == {m \in Jobs : <<c[1], m>> \in C}
  <2>1. \A m \in rivals : /\ FIL(v)[m] > FIL(v)[c[2]] <=> FIL(w)[m] > FIL(w)[c[2]]
                          /\ FIL(v)[m] < FIL(v)[c[2]] <=> FIL(w)[m] < FIL(w)[c[2]]
    BY <1>4
  <2>2. /\ {m \in rivals : FIL(v)[m] > FIL(v)[c[2]]} = {m \in rivals : FIL(w)[m] > FIL(w)[c[2]]}
        /\ {m \in rivals : FIL(v)[m] < FIL(v)[c[2]]} = {m \in rivals : FIL(w)[m] < FIL(w)[c[2]]}
    BY <2>1
  <2> QED
    BY <1>3, <2>2 DEF Labelled
<1>8. \A i \in 1 .. Cardinality(C) : Ranked(C, R)[i] \in C
  BY PresentationOrderStrict, RankedMember
<1>9. QED
  BY <1>3, <1>6, <1>7, <1>8 DEF CandidateQueue, v

-----------------------------------------------------------------------------
(***************************************************************************)
(* The inductive invariant.                                                *)
(***************************************************************************)
Presented == cat = "AwaitAction" => action_counter < Len(action_queue)

(* An epoch in progress has an entry to present; together with the three   *)
(* properties it is inductive.                                             *)
EpochInv == RefreshSound /\ CounterReset /\ Presented /\ QueueFresh

(* A policy is asked only when no refresh is pending. *)
LEMMA DecidesAtRest ==
  ASSUME EpochInv, Deciding
  PROVE  AtRest /\ next_fil_job_type = None
BY DEF EpochInv, RefreshSound, Deciding, AtRest

(* Every entry of the candidate queue names a waiting job that may start. *)
LEMMA EntriesStartable ==
  ASSUME TypeOK, EpochInv, AtRest, ~PerEventMode, NEW i \in DOMAIN action_queue
  PROVE  /\ waiting[action_queue[i].n] # <<>>
         /\ CanAssign(busy_on, action_queue[i].k, action_queue[i].n)
<1>1. waiting \in Lines /\ busy_on \in Busy
  BY DEF TypeOK, Lines, Busy
<1>2. action_queue = CandidateQueue(waiting, busy_on)
  BY DEF EpochInv, QueueFresh, GenerateActions
<1>3. i \in 1 .. Len(CandidateQueue(waiting, busy_on))
  BY <1>1, <1>2, CandidateQueueType
<1>4. <<action_queue[i].k, action_queue[i].n>> \in Candidates(waiting, busy_on)
  BY <1>1, <1>2, <1>3, CandidateQueueType
<1>5. /\ action_queue[i].n \in Jobs /\ FIL(waiting)[action_queue[i].n] >= 0
      /\ CanAssign(busy_on, action_queue[i].k, action_queue[i].n)
  BY <1>4 DEF Candidates
<1>6. QED
  BY <1>1, <1>5, FILType

(* A new epoch begins with a fresh queue at its top. *)
LEMMA StartEpochFresh ==
  ASSUME TypeOK', NEW w, NEW b, StartEpoch(w, b), w = waiting', b = busy_on', AtRest'
  PROVE  EpochInv'
<1>1. RefreshSound'
  BY DEF RefreshSound
<1>2. CounterReset'
  BY DEF StartEpoch, CounterReset
<1>3. Presented'
  BY EmptySeq DEF StartEpoch, Presented, TypeOK
<1>4. QueueFresh'
  BY DEF StartEpoch, QueueFresh
<1>5. QED
  BY <1>1, <1>2, <1>3, <1>4 DEF EpochInv

(* The head of line n has just been started by pool k. *)
LEMMA StartedSound ==
  ASSUME TypeOK, TypeOK', NEW k \in Pools, NEW n \in Jobs, waiting[n] # <<>>, waiting' = waiting,
         busy_on' = [busy_on EXCEPT ![k][n] = @ + 1],
         next_fil_job_type' = n, cat' = "AwaitEvent"
  PROVE  EpochInv'
<1>1. n # None /\ ~AtRest'
  BY JobsAndPoolsFinite DEF None, AtRest
<1>2. busy_on'[k][n] > 0
  BY DEF TypeOK
<1>3. RefreshSound'
  BY <1>1, <1>2 DEF RefreshSound
<1>4. QED
  BY <1>1, <1>3 DEF EpochInv, CounterReset, Presented, QueueFresh

(* Serving the candidate shown starts the head of its line on a free       *)
(* server that has the skill, and announces a refresh that will find it.   *)
LEMMA ServeEpoch ==
  ASSUME TypeOK, TypeOK', PoolCapacity, EpochInv, Serve
  PROVE  /\ EpochInv'
         /\ \E k \in Pools, n \in Jobs :
              /\ waiting[n] # <<>> /\ CanAssign(busy_on, k, n)
              /\ busy_on' = [busy_on EXCEPT ![k][n] = @ + 1]
              /\ next_fil_job_type' = n /\ waiting' = waiting /\ next_fil_job_type = None
<1> DEFINE e == Current
<1>1. Deciding /\ ~PerEventMode /\ busy_on \in Busy
  BY DEF Serve, StartCandidate, TypeOK, Busy
<1>2. AtRest /\ next_fil_job_type = None
  BY <1>1, DecidesAtRest
<1>3. waiting[e.n] # <<>> /\ CanAssign(busy_on, e.k, e.n)
  BY <1>1, <1>2, EntriesStartable, CurrentIsEntry DEF Current
<1>4. e.k \in Pools /\ e.n \in Jobs
  BY <1>1, <1>3, CurrentIsEntry, StaticAssumption DEF Entry, CanAssign
<1>5. busy_on' = AssignJob(busy_on, e.k, e.n)
  BY DEF Serve, StartCandidate, TakeAction, Current
<1>6. busy_on' = [busy_on EXCEPT ![e.k][e.n] = @ + 1]
  BY <1>1, <1>3, <1>4, <1>5, AssignJobEffect DEF PoolCapacity
<1>7. next_fil_job_type' = e.n /\ waiting' = waiting /\ cat' = "AwaitEvent"
  BY DEF Serve, StartCandidate
<1>8. QED
  BY <1>2, <1>3, <1>4, <1>6, <1>7, StartedSound

(* So does serving a type of the policy's choice. *)
LEMMA StartsEpoch ==
  ASSUME TypeOK, TypeOK', PoolCapacity, EpochInv, NEW n \in Jobs, Starts(n)
  PROVE  /\ EpochInv'
         /\ \E k \in Pools :
              /\ waiting[n] # <<>> /\ CanAssign(busy_on, k, n)
              /\ busy_on' = [busy_on EXCEPT ![k][n] = @ + 1]
              /\ next_fil_job_type' = n /\ waiting' = waiting /\ next_fil_job_type = None
<1> DEFINE k == Current.k
<1>1. Deciding /\ PerEventMode /\ CouldStart(n) /\ busy_on \in Busy
  BY DEF Starts, StartType, TypeOK, Busy
<1>2. next_fil_job_type = None
  BY <1>1, DecidesAtRest
<1>3. waiting[n] # <<>> /\ CanAssign(busy_on, k, n)
  BY <1>1 DEF CouldStart
<1>4. k \in Pools
  BY <1>1, CurrentIsEntry DEF Entry
<1>5. busy_on' = [busy_on EXCEPT ![k][n] = @ + 1]
  BY <1>1, <1>3, <1>4, AssignJobEffect DEF PoolCapacity, Starts, StartType
<1>6. next_fil_job_type' = n /\ waiting' = waiting /\ cat' = "AwaitEvent"
  BY DEF Starts, StartType
<1>7. QED
  BY <1>2, <1>3, <1>4, <1>5, <1>6, StartedSound

(* Skipping, one candidate or all, leaves the queue and what it was built  *)
(* from.                                                                   *)
LEMMA SkipEpoch ==
  ASSUME TypeOK, EpochInv, Skip \/ SkipAll
  PROVE  EpochInv'
<1>1. Deciding /\ UNCHANGED <<waiting, busy_on, action_queue, next_fil_job_type>>
  BY DEF Skip, PassOver, SkipAll
<1>2. AtRest /\ AtRest'
  BY <1>1, DecidesAtRest DEF AtRest
<1>3. QueueFresh'
  BY <1>1, <1>2 DEF EpochInv, QueueFresh
<1>4. CounterReset' /\ Presented'
  BY <1>1 DEF Skip, PassOver, SkipAll, Advance, CounterReset, Presented
<1>5. QED
  BY <1>2, <1>3, <1>4 DEF EpochInv, RefreshSound

(* A refresh ends in a new epoch, or resumes the one it interrupted at its *)
(* next entry.                                                             *)
LEMMA FilRefreshEpoch ==
  ASSUME TypeOK, TypeOK', EpochInv, FilRefresh
  PROVE  EpochInv'
<1>1. AtRest' /\ busy_on' = busy_on
  BY DEF FilRefresh, AtRest
<1>2. CASE ~PerEventMode
  BY <1>1, <1>2, StartEpochFresh DEF FilRefresh
<1>3. CASE PerEventMode
  <2>1. Advance(action_counter) /\ UNCHANGED action_queue
    BY <1>3 DEF FilRefresh
  <2>2. CounterReset' /\ Presented'
    BY <2>1 DEF Advance, CounterReset, Presented
  <2> QED
    BY <1>1, <1>3, <2>2 DEF EpochInv, RefreshSound, QueueFresh
<1>4. QED
  BY <1>2, <1>3

(* An event that only shows the queue again leaves the epoch sound, if the *)
(* state still generates that queue.                                       *)
LEMMA RepresentEpoch ==
  ASSUME TypeOK, EpochInv, cat = "AwaitEvent", next_fil_job_type = None, Represent,
         UNCHANGED next_fil_job_type,
         ~PerEventMode => GenerateActions(waiting', busy_on') = GenerateActions(waiting, busy_on)
  PROVE  EpochInv'
<1>1. AtRest /\ AtRest'
  BY DEF AtRest
<1>2. action_counter' = 0 /\ action_queue' = action_queue
  BY <1>1 DEF Represent, EpochInv, CounterReset
<1>3. Presented'
  BY <1>2, EmptySeq DEF Represent, Presented, TypeOK
<1>4. QueueFresh'
  BY <1>1, <1>2 DEF EpochInv, QueueFresh
<1>5. QED
  BY <1>1, <1>2, <1>3, <1>4 DEF EpochInv, RefreshSound, CounterReset

(* Every event ends in a new epoch or shows the queue of the last one      *)
(* again, which is then still the queue of the state.                      *)
LEMMA EventEpoch ==
  ASSUME TypeOK, TypeOK', EpochInv, UniformizedEvent
  PROVE  EpochInv'
<1>1. cat = "AwaitEvent" /\ next_fil_job_type = None
  BY DEF UniformizedEvent, Happens
<1>2. ASSUME NEW n \in Jobs, HandleArrival(n) PROVE EpochInv'
  BY <1>1, <1>2, StartEpochFresh DEF HandleArrival, AtRest
<1>3. ASSUME NEW k, NEW n, HandleCompletion(k, n) PROVE EpochInv'
  BY <1>1, <1>3, StartEpochFresh DEF HandleCompletion, AtRest
<1>4. ASSUME HandleTick PROVE EpochInv'
  <2>1. waiting \in Lines /\ busy_on \in Busy /\ waiting' = Aged(waiting) /\ busy_on' = busy_on
    BY <1>4 DEF TypeOK, Lines, Busy, HandleTick
  <2>2. ~PerEventMode => GenerateActions(waiting', busy_on') = GenerateActions(waiting, busy_on)
    BY <2>1, QueueIgnoresAgeing DEF GenerateActions
  <2> QED
    BY <1>1, <1>4, <2>2, RepresentEpoch DEF HandleTick
<1>5. ASSUME HandleNothing PROVE EpochInv'
  BY <1>1, <1>5, RepresentEpoch DEF HandleNothing
<1>6. QED
  BY <1>2, <1>3, <1>4, <1>5, EventCases

(* At first nobody waits and there is nothing to decide. *)
LEMMA InitEpoch == Init => EpochInv
<1> SUFFICES ASSUME Init PROVE EpochInv
  OBVIOUS
<1>1. TypeOK /\ AtRest
  BY InitTyped DEF Init, AtRest
<1>2. QueueFresh
  <2>1. \A n \in Jobs : FIL(waiting)[n] = -1
    BY DEF Init, FIL, None
  <2>2. Candidates(waiting, busy_on) = {}
    BY <2>1 DEF Candidates
  <2>3. CandidateQueue(waiting, busy_on) = <<>>
    BY <1>1, <2>2, CandidateQueueType, FS_EmptySet, EmptySeq DEF TypeOK, Lines, Busy
  <2> QED
    BY <2>3 DEF Init, QueueFresh, GenerateActions
<1>3. QED
  BY <1>1, <1>2 DEF Init, EpochInv, RefreshSound, CounterReset, Presented

-----------------------------------------------------------------------------
(* The invariant of the chain: types, capacities and epochs. *)
Inv == TypeOK /\ PoolCapacity /\ EpochInv

(* Every step keeps it. *)
LEMMA AnyEpoch == Inv /\ [AnyNext]_vars => Inv'
<1> SUFFICES ASSUME Inv, [AnyNext]_vars PROVE Inv'
  OBVIOUS
<1>1. TypeOK /\ PoolCapacity /\ EpochInv /\ TypeOK' /\ PoolCapacity'
  BY AnyTyped DEF Inv
<1>2. CASE AnyDecision
  BY <1>1, <1>2, ServeEpoch, StartsEpoch, SkipEpoch DEF AnyDecision, Inv
<1>3. CASE FilRefresh
  BY <1>1, <1>3, FilRefreshEpoch DEF Inv
<1>4. CASE UniformizedEvent
  BY <1>1, <1>4, EventEpoch DEF Inv
<1>5. CASE UNCHANGED vars
  BY <1>1, <1>5 DEF vars, Inv, EpochInv, RefreshSound, CounterReset, Presented, QueueFresh, AtRest
<1>6. QED
  BY <1>2, <1>3, <1>4, <1>5 DEF AnyNext

LEMMA NextEpoch == Inv /\ [Next]_vars => Inv'
BY NextIsAny, AnyEpoch DEF Inv

(* The invariant is inductive. *)
THEOREM EpochsSound == Spec => []Inv
<1>1. Init => Inv
  BY InitTyped, InitEpoch DEF Inv
<1>2. QED
  BY <1>1, NextEpoch, PTL DEF Spec

(* The queue shown to a policy is the one the state generates. *)
THEOREM QueueAlwaysFresh == Spec => []QueueFresh
<1>1. Inv => QueueFresh
  BY DEF Inv, EpochInv
<1>2. QED
  BY <1>1, EpochsSound, PTL

(* A pending refresh always finds a job, and a server that has started it. *)
THEOREM RefreshNeverFails == Spec => []RefreshSound
<1>1. Inv => RefreshSound
  BY DEF Inv, EpochInv
<1>2. QED
  BY <1>1, EpochsSound, PTL

(* Between epochs the counter is at the top of the queue. *)
THEOREM CounterAlwaysReset == Spec => []CounterReset
<1>1. Inv => CounterReset
  BY DEF Inv, EpochInv
<1>2. QED
  BY <1>1, EpochsSound, PTL

(* Whenever a policy is asked there is an entry to decide about, and in    *)
(* the candidate queue it may be served and its line is not empty.         *)
THEOREM DecisionsAreLegal == Spec => []DecisionLegal
<1>1. Inv => DecisionLegal
  <2> SUFFICES ASSUME Inv, cat = "AwaitAction"
               PROVE  /\ AtRest
                      /\ action_counter < Len(action_queue)
                      /\ ~PerEventMode => IsAllowedAction(1) /\ waiting[Current.n] # <<>>
    BY DEF DecisionLegal
  <2>1. TypeOK /\ EpochInv /\ Deciding
    BY DEF Inv, EpochInv, Presented, Deciding
  <2>2. AtRest
    BY <2>1, DecidesAtRest
  <2>3. ASSUME ~PerEventMode PROVE IsAllowedAction(1) /\ waiting[Current.n] # <<>>
    BY <2>1, <2>2, <2>3, EntriesStartable, CurrentIsEntry DEF Current, IsAllowedAction, IsAllowedCandidate
  <2> QED
    BY <2>1, <2>2, <2>3 DEF Deciding
<1>2. QED
  BY <1>1, EpochsSound, PTL

-----------------------------------------------------------------------------
(***************************************************************************)
(* Refinement: initial states of QueueMDP map to initial states of         *)
(* MultiSkillQueue, and every step to a step or to a stutter.              *)
(***************************************************************************)
(* The abstract system reads the instance as the concrete one does. *)
LEMMA SameStatics ==
  /\ MSQ!Jobs = Jobs /\ MSQ!Pools = Pools /\ MSQ!None = None
  /\ \A w : MSQ!Aged(w) = Aged(w)
  /\ \A q : MSQ!Bottoms(q) = Bottoms(q)
  /\ \A q, bottom : MSQ!Revealed(q, bottom) = Revealed(q, bottom)
  /\ \A b, k : MSQ!BusyIn(b, k) = BusyIn(b, k)
<1>1. MSQ!Jobs = Jobs /\ MSQ!Pools = Pools /\ MSQ!None = None
  BY DEF MSQ!Jobs, Jobs, MSQ!Pools, Pools, MSQ!None, None
<1>2. \A w : MSQ!Aged(w) = Aged(w)
  BY <1>1 DEF MSQ!Aged, Aged
<1>3. \A q : MSQ!Bottoms(q) = Bottoms(q)
  BY <1>1 DEF MSQ!Bottoms, Bottoms
<1>4. \A q, bottom : MSQ!Revealed(q, bottom) = Revealed(q, bottom)
  BY <1>1 DEF MSQ!Revealed, Revealed
<1>5. \A f, S : MSQ!Tokens(f, S) = Tokens(f, S)
  BY DEF MSQ!Tokens, Tokens
<1>6. \A S : MSQ!Cardinality(S) = Cardinality(S)
  BY DEF MSQ!Cardinality, Cardinality
<1>7. \A b, k : MSQ!BusyIn(b, k) = BusyIn(b, k)
  BY <1>1, <1>5, <1>6 DEF MSQ!BusyIn, BusyIn, MSQ!Total, Total
<1>8. QED
  BY <1>1, <1>2, <1>3, <1>4, <1>7

(* Both systems start empty. *)
LEMMA InitImplements == Init => MSQ!AbstractInit
BY SameStatics DEF Init, MSQ!AbstractInit

(* Serving is starting the head of a line on a free server with the skill. *)
LEMMA DecideImplements ==
  ASSUME Inv, Inv', Decide
  PROVE  MSQ!AbstractNext \/ UNCHANGED MSQ!abstractVars
<1>1. TypeOK /\ TypeOK' /\ PoolCapacity /\ EpochInv
  BY DEF Inv
<1>2. CASE Skip \/ SkipAll
  BY <1>2 DEF Skip, PassOver, SkipAll, MSQ!abstractVars
<1>3. CASE Serve \/ \E n \in Jobs : ServeType(n)
  <2>1. PICK k \in Pools, n \in Jobs :
               /\ waiting[n] # <<>> /\ CanAssign(busy_on, k, n)
               /\ busy_on' = [busy_on EXCEPT ![k][n] = @ + 1]
               /\ next_fil_job_type' = n /\ waiting' = waiting /\ next_fil_job_type = None
    <3>1. CASE Serve
      BY <1>1, <3>1, ServeEpoch
    <3>2. CASE \E n \in Jobs : ServeType(n)
      BY <1>1, <3>2, ServedStarts, StartsEpoch
    <3> QED
      BY <1>3, <3>1, <3>2
  <2>2. MSQ!Start(k, n)
    BY <2>1, SameStatics DEF MSQ!Start, CanAssign
  <2> QED
    BY <2>2, SameStatics DEF MSQ!AbstractNext
<1>4. QED
  BY <1>2, <1>3 DEF Decide

(* Refreshing is revealing. *)
LEMMA FilRefreshImplements ==
  ASSUME FilRefresh
  PROVE  MSQ!AbstractNext
<1>1. MSQ!Reveal
  BY SameStatics DEF FilRefresh, MSQ!Reveal
<1>2. QED
  BY <1>1 DEF MSQ!AbstractNext

(* Every event is an arrival, a completion, the passing of time, or        *)
(* nothing.                                                                *)
LEMMA EventImplements ==
  ASSUME TypeOK, UniformizedEvent
  PROVE  MSQ!AbstractNext \/ UNCHANGED MSQ!abstractVars
<1>1. next_fil_job_type = None
  BY DEF UniformizedEvent, Happens
<1>2. ASSUME NEW n \in Jobs, NotFull(waiting, n), HandleArrival(n) PROVE MSQ!AbstractNext
  <2>1. MSQ!Arrive(n)
    BY <1>1, <1>2, SameStatics DEF HandleArrival, NotFull, MSQ!Arrive
  <2> QED
    BY <2>1, SameStatics DEF MSQ!AbstractNext
<1>3. ASSUME NEW k, NEW n, HandleCompletion(k, n)
      PROVE  MSQ!AbstractNext \/ UNCHANGED MSQ!abstractVars
  <2>1. busy_on' = CompleteJob(busy_on, k, n) /\ UNCHANGED <<waiting, next_fil_job_type>>
    BY <1>3 DEF HandleCompletion
  <2>2. CASE k \in Pools /\ n \in Jobs /\ n \in CanServe[k] /\ busy_on[k][n] > 0
    <3>1. MSQ!Finish(k, n)
      BY <1>1, <2>1, <2>2, SameStatics DEF CompleteJob, MSQ!Finish
    <3> QED
      BY <2>2, <3>1, SameStatics DEF MSQ!AbstractNext
  <2>3. CASE ~(n \in CanServe[k] /\ busy_on[k][n] > 0)
    BY <2>1, <2>3 DEF CompleteJob, MSQ!abstractVars
  <2>4. CASE k \notin Pools \/ n \notin Jobs
    <3>1. [busy_on EXCEPT ![k][n] = @ - 1] = busy_on
      BY <2>4 DEF TypeOK
    <3>2. busy_on' = busy_on
      BY <2>1, <3>1 DEF CompleteJob
    <3> QED
      BY <2>1, <3>2 DEF MSQ!abstractVars
  <2> QED
    BY <2>2, <2>3, <2>4
<1>4. ASSUME HandleTick PROVE MSQ!AbstractNext
  <2>1. MSQ!GrowOlder
    BY <1>1, <1>4, SameStatics DEF HandleTick, MSQ!GrowOlder
  <2> QED
    BY <2>1 DEF MSQ!AbstractNext
<1>5. ASSUME HandleNothing PROVE UNCHANGED MSQ!abstractVars
  BY <1>5 DEF HandleNothing, MSQ!abstractVars
<1>6. QED
  BY <1>2, <1>3, <1>4, <1>5, EventCases

(* Whatever a policy does, in either action mode, the simulator behaves as *)
(* a multi-skill service system.                                           *)
THEOREM Implements == Spec => ImplementsMultiSkillQueue
<1>1. Init => MSQ!AbstractInit
  BY InitImplements
<1>2. Inv /\ Inv' /\ [Next]_vars => [MSQ!AbstractNext]_MSQ!abstractVars
  <2> SUFFICES ASSUME Inv, Inv', [Next]_vars
               PROVE  MSQ!AbstractNext \/ UNCHANGED MSQ!abstractVars
    OBVIOUS
  <2>1. TypeOK
    BY DEF Inv
  <2>2. CASE UNCHANGED vars
    BY <2>2 DEF vars, MSQ!abstractVars
  <2> QED
    BY <2>1, <2>2, DecideImplements, FilRefreshImplements, EventImplements DEF Next
<1>3. QED
  BY <1>1, <1>2, EpochsSound, PTL DEF Spec, ImplementsMultiSkillQueue, MSQ!AbstractSpec

-----------------------------------------------------------------------------
(***************************************************************************)
(* An epoch ends.  What is left of it is measured by the servers still     *)
(* free, then by whether a refresh is pending, then by the entries still   *)
(* to be asked about: serving takes a server, a refresh settles what was   *)
(* pending, skipping leaves fewer entries.                                 *)
(***************************************************************************)
EventIsNext == cat = "AwaitEvent" /\ AtRest

FreeServers    == Total([k \in Pools |-> Capacity(busy_on, k)], Pools)
RefreshPending == IF AtRest THEN 0 ELSE 1
EntriesToAsk   == IF cat = "AwaitAction" THEN Len(action_queue) - action_counter ELSE 0

LeftIsNatural == {FreeServers, RefreshPending, EntriesToAsk} \subseteq Nat

CloserToEvent ==
  \/ FreeServers' < FreeServers
  \/ FreeServers' = FreeServers /\ RefreshPending' < RefreshPending
  \/ /\ FreeServers' = FreeServers
     /\ RefreshPending' = RefreshPending
     /\ EntriesToAsk' < EntriesToAsk

(* No pool is short of servers, so their free ones can be counted. *)
LEMMA FreeServersCounted ==
  ASSUME NEW b \in Busy, \A k \in Pools : BusyIn(b, k) <= Servers[k]
  PROVE  /\ \A k \in Pools : Capacity(b, k) \in Nat
         /\ Total([k \in Pools |-> Capacity(b, k)], Pools) \in Nat
<1>1. ASSUME NEW k \in Pools PROVE Capacity(b, k) \in Nat
  <2>1. BusyIn(b, k) \in Nat /\ Servers[k] \in Nat /\ BusyIn(b, k) <= Servers[k]
    BY BusyInType, StaticAssumption
  <2>2. QED
    BY <2>1 DEF Capacity
<1>2. \A k \in Pools : [p \in Pools |-> Capacity(b, p)][k] \in Nat
  BY <1>1
<1>3. QED
  BY <1>1, <1>2, TokensFinite, JobsAndPoolsFinite

LEMMA LeftCounted == Inv => LeftIsNatural
<1> SUFFICES ASSUME Inv PROVE LeftIsNatural
  OBVIOUS
<1>1. FreeServers \in Nat
  BY FreeServersCounted DEF Inv, TypeOK, Busy, PoolCapacity, FreeServers
<1>2. EntriesToAsk \in Nat
  <2>1. Len(action_queue) \in Nat /\ action_counter \in Nat
    BY DEF Inv, TypeOK
  <2>2. cat = "AwaitAction" => action_counter < Len(action_queue)
    BY DEF Inv, EpochInv, Presented
  <2>3. QED
    BY <2>1, <2>2 DEF EntriesToAsk
<1>3. QED
  BY <1>1, <1>2 DEF LeftIsNatural, RefreshPending

(* Whoever is started takes one of the free servers. *)
LEMMA StartTakesServer ==
  ASSUME TypeOK, PoolCapacity, TypeOK', PoolCapacity',
         NEW k \in Pools, NEW n \in Jobs, CanAssign(busy_on, k, n),
         busy_on' = [busy_on EXCEPT ![k][n] = @ + 1]
  PROVE  FreeServers' < FreeServers
<1> DEFINE before == [p \in Pools |-> Capacity(busy_on, p)]
           after  == [p \in Pools |-> Capacity(busy_on', p)]
<1>1. /\ busy_on \in Busy /\ \A p \in Pools : BusyIn(busy_on, p) <= Servers[p]
      /\ busy_on' \in Busy /\ \A p \in Pools : BusyIn(busy_on', p) <= Servers[p]
  BY DEF TypeOK, Busy, PoolCapacity
<1>2. busy_on' = AssignJob(busy_on, k, n)
  BY <1>1, AssignJobEffect
<1>3. /\ \A p \in Pools : before[p] \in Nat /\ after[p] \in Nat
      /\ Total(before, Pools) \in Nat /\ Total(after, Pools) \in Nat
  BY <1>1, FreeServersCounted
<1>4. before[k] = after[k] + 1 /\ \A p \in Pools \ {k} : before[p] = after[p]
  <2>1. /\ Capacity(AssignJob(busy_on, k, n), k) = Capacity(busy_on, k) - 1
        /\ \A p \in Pools \ {k} : Capacity(AssignJob(busy_on, k, n), p) = Capacity(busy_on, p)
    BY <1>1, AssignJobCounts
  <2>2. Capacity(busy_on, k) \in Int
    BY <1>1, BusyInType
  <2>3. before[k] - 1 = after[k]
    BY <1>2, <2>1
  <2>4. before[k] \in Nat /\ after[k] \in Nat
    BY <1>3
  <2>5. \A p \in Pools \ {k} : before[p] = after[p]
    BY <1>2, <2>1
  <2> HIDE DEF before, after
  <2>6. QED
    BY <2>3, <2>4, <2>5
<1>5. FreeServers = Total(before, Pools) /\ FreeServers' = Total(after, Pools)
  BY DEF FreeServers
<1> HIDE DEF before, after
<1>6. Total(before, Pools) = Total(after, Pools) + 1
  BY <1>3, <1>4, JobsAndPoolsFinite, TotalIncrement
<1>7. QED
  BY <1>3, <1>5, <1>6

(* Skipping leaves fewer entries to ask about, and starts nobody. *)
LEMMA SkipLeavesFewer ==
  ASSUME Inv, Skip \/ SkipAll
  PROVE  CloserToEvent
<1>1. Deciding /\ UNCHANGED <<busy_on, action_queue, next_fil_job_type>>
  BY DEF Skip, PassOver, SkipAll
<1>2. FreeServers' = FreeServers /\ RefreshPending' = RefreshPending
  BY <1>1 DEF FreeServers, RefreshPending, AtRest
<1>3. Len(action_queue) \in Nat /\ action_counter \in Nat /\ action_counter < Len(action_queue)
  BY <1>1 DEF Inv, TypeOK, Deciding
<1>4. EntriesToAsk = Len(action_queue) - action_counter
  BY <1>1 DEF Deciding, EntriesToAsk
<1>5. EntriesToAsk' < EntriesToAsk
  <2>1. CASE cat' = "AwaitAction"
    <3>1. action_counter' = action_counter + 1
      BY <2>1 DEF Skip, PassOver, SkipAll, Advance
    <3>2. EntriesToAsk' = Len(action_queue) - (action_counter + 1)
      BY <1>1, <2>1, <3>1 DEF EntriesToAsk
    <3>3. QED
      BY <1>3, <1>4, <3>2
  <2>2. CASE cat' # "AwaitAction"
    BY <1>3, <1>4, <2>2 DEF EntriesToAsk
  <2>3. QED
    BY <2>1, <2>2
<1>6. QED
  BY <1>2, <1>5 DEF CloserToEvent

(* In either action mode, whatever the policy decides, every step on the   *)
(* way to the next event lowers a measure made of three naturals: there    *)
(* are finitely many, however often refreshes start the queue anew.        *)
THEOREM EpochsAreFinite ==
  Spec => [](LeftIsNatural) /\ [][~EventIsNext => CloserToEvent]_vars
<1>1. Inv /\ Inv' /\ [Next]_vars => [~EventIsNext => CloserToEvent]_vars
  <2> SUFFICES ASSUME Inv, Inv', Next, ~EventIsNext PROVE CloserToEvent
    OBVIOUS
  <2>1. /\ TypeOK /\ PoolCapacity /\ EpochInv /\ TypeOK' /\ PoolCapacity'
    BY DEF Inv
  <2>2. CASE Serve
    <3>1. PICK k \in Pools, n \in Jobs : /\ CanAssign(busy_on, k, n)
                                         /\ busy_on' = [busy_on EXCEPT ![k][n] = @ + 1]
      BY <2>1, <2>2, ServeEpoch
    <3>2. QED
      BY <2>1, <3>1, StartTakesServer DEF CloserToEvent
  <2>3. ASSUME NEW n \in Jobs, ServeType(n) PROVE CloserToEvent
    <3>1. PICK k \in Pools : /\ CanAssign(busy_on, k, n)
                             /\ busy_on' = [busy_on EXCEPT ![k][n] = @ + 1]
      BY <2>1, <2>3, ServedStarts, StartsEpoch
    <3>2. QED
      BY <2>1, <3>1, StartTakesServer DEF CloserToEvent
  <2>4. CASE Skip \/ SkipAll
    BY <2>4, SkipLeavesFewer
  <2>5. CASE FilRefresh
    <3>1. busy_on' = busy_on /\ ~AtRest /\ AtRest'
      BY <2>5 DEF FilRefresh, AtRest
    <3>2. FreeServers' = FreeServers /\ RefreshPending' < RefreshPending
      BY <3>1 DEF FreeServers, RefreshPending
    <3>3. QED
      BY <3>2 DEF CloserToEvent
  <2>6. CASE UniformizedEvent
    BY <2>6 DEF UniformizedEvent, Happens, EventIsNext, AtRest
  <2>7. QED
    BY <2>2, <2>3, <2>4, <2>5, <2>6 DEF Next, Decide
<1>2. QED
  BY <1>1, LeftCounted, EpochsSound, PTL DEF Spec

(* The type forced is one of the late ones, the oldest.                    *)
LEMMA ForcedIsLate ==
  ASSUME TypeOK, NEW k, LateFor(k) # {}
  PROVE  Forced(k) \in LateFor(k) /\ Forced(k) \in Jobs /\ Forced(k) \in Nat
<1> DEFINE late == LateFor(k)
           fil  == FIL(waiting)
           best == {n \in late : \A m \in late : fil[m] <= fil[n]}
<1>1. late \subseteq Jobs /\ \A m \in late : fil[m] \in Int
  BY FILType DEF LateFor, TypeOK, Lines
<1>2. best # {} /\ best \subseteq Nat
  BY <1>1, LargestExists, JobsAndPoolsFinite, FS_Subset
<1>3. Forced(k) = Least(best)
  BY DEF Forced
<1>4. Forced(k) \in best
  <2> HIDE DEF best
  <2> QED BY <1>2, <1>3, LeastIsMember
<1>5. QED
  BY <1>1, <1>2, <1>4

(* What the policy or the sampler can answer: an action that is allowed, a *)
(* job that may be revealed.                                               *)
AnswerExists ==
  \/ Deciding /\ \E a \in 0 .. NJobs : IsAllowedAction(a)
  \/ /\ cat = "AwaitEvent" /\ ~AtRest
     /\ waiting[next_fil_job_type] # <<>>
     /\ Bottoms(waiting[next_fil_job_type]) # {}

(* Nor does an epoch get stuck: until the next event can happen, either a  *)
(* policy is asked and some answer of its is allowed, also where late      *)
(* service is forced, or a refresh is due that finds its job.              *)
THEOREM EpochsNeverStick == Spec => [](EventIsNext \/ AnswerExists)
<1>1. Inv => EventIsNext \/ AnswerExists
  <2> SUFFICES ASSUME Inv, ~EventIsNext PROVE AnswerExists
    OBVIOUS
  <2>1. TypeOK /\ EpochInv /\ cat \in {"AwaitAction", "AwaitEvent"}
    BY DEF Inv, TypeOK
  <2>2. CASE cat = "AwaitAction"
    <3>1. Deciding
      BY <2>1, <2>2 DEF EpochInv, Presented, Deciding
    <3>2. \E a \in 0 .. NJobs : IsAllowedAction(a)
      <4>1. NJobs \in Nat
        BY StaticAssumption
      <4>2. CASE PerEventMode /\ LateFor(Current.k) # {}
        <5>1. Forced(Current.k) \in Jobs /\ Forced(Current.k) \in Nat
          BY <2>1, <4>2, ForcedIsLate
        <5>2. Forced(Current.k) + 1 \in 0 .. NJobs
          BY <4>1, <5>1 DEF Jobs
        <5>3. IsAllowedAction(Forced(Current.k) + 1)
          BY <4>2 DEF IsAllowedAction, IsAllowedPerEvent
        <5>4. QED
          BY <5>2, <5>3
      <4>3. CASE ~(PerEventMode /\ LateFor(Current.k) # {})
        <5>1. IsAllowedAction(0)
          BY <4>3 DEF IsAllowedAction, IsAllowedPerEvent, IsAllowedCandidate
        <5>2. QED
          BY <4>1, <5>1
      <4>4. QED
        BY <4>2, <4>3
    <3>3. QED
      BY <3>1, <3>2 DEF AnswerExists
  <2>3. CASE cat = "AwaitEvent"
    <3>1. ~AtRest /\ waiting[next_fil_job_type] # <<>>
      BY <2>1, <2>3 DEF EventIsNext, EpochInv, RefreshSound
    <3>2. Bottoms(waiting[next_fil_job_type]) # {}
      BY DEF Bottoms
    <3>3. QED
      BY <2>3, <3>1, <3>2 DEF AnswerExists
  <2>4. QED
    BY <2>1, <2>2, <2>3
<1>2. QED
  BY <1>1, EpochsSound, PTL

-----------------------------------------------------------------------------
(***************************************************************************)
(* Late service.  In per-event mode the queue is a list of servers to ask, *)
(* built when the last arrival or completion happened.  What makes it good *)
(* enough is that in a pass over it, heads only get younger and servers    *)
(* only get busy, while every server asked that could start a late job     *)
(* must do so.  When a job is late is a parameter: with due times of -1    *)
(* whoever waits is.                                                       *)
(***************************************************************************)
DueTimes == {due \in [Jobs -> Int] : \A n \in Jobs : due[n] >= -1}

(* The late jobs that pool k could start. *)
Overdue(w, b, k, due) == {n \in Jobs : FIL(w)[n] > due[n] /\ CanAssign(b, k, n)}

(* The entries of pool k that a pass has still to come to. *)
EntriesFrom(q, c, k) == {i \in c + 1 .. Len(q) : q[i].k = k}

(* Every pool that could start a waiting job has an entry for each free    *)
(* server.                                                                 *)
AllAsked(w, b, q) ==
  \A k \in Pools : Feasible(w, k) => Cardinality(EntriesFrom(q, 0, k)) >= Capacity(b, k)

(* Every pool that could start a late job has an entry left for each free  *)
(* server.                                                                 *)
EnoughLeft(w, b, q, c, due) ==
  \A k \in Pools : Overdue(w, b, k, due) = {} \/ Cardinality(EntriesFrom(q, c, k)) >= Capacity(b, k)

NoneOverdue(w, b, due) == \A k \in Pools : Overdue(w, b, k, due) = {}

(* A queue of servers as it is built has one for each that is idle. *)
LEMMA UnitQueueAsksAll ==
  ASSUME NEW w \in Lines, NEW b \in Busy
  PROVE  AllAsked(w, b, UnitQueue(w, b))
<1> DEFINE U == IdleUnits(w, b)
           N == Cardinality(U)
           s == Ranked(U, PoolMajor(U))
           q == UnitQueue(w, b)
<1> SUFFICES ASSUME NEW k \in Pools, Feasible(w, k)
             PROVE  Cardinality(EntriesFrom(q, 0, k)) >= Capacity(b, k)
  BY DEF AllAsked
<1> DEFINE I == EntriesFrom(q, 0, k)
           A == {k} \X (1 .. Capacity(b, k))
           f == [i \in I |-> s[i]]
<1>1. /\ IsFiniteSet(U) /\ StrictlyOrders(PoolMajor(U), U)
      /\ \A u \in U : u = <<u[1], u[2]>> /\ u[1] \in Pools /\ u[2] \in Int
  BY IdleUnitsOrdered
<1>2. N \in Nat
  BY <1>1, FS_CardinalityType
<1>3. q = [i \in 1 .. N |-> UnitEntry(s[i][1])]
  BY DEF UnitQueue
<1>4. q \in Seq(Entry)
  BY UnitQueueType
<1>5. Len(q) = N /\ \A i \in 1 .. N : q[i].k = s[i][1]
  BY <1>2, <1>3, <1>4 DEF UnitEntry
<1>6. \A x \in A : x \in U
  BY DEF IdleUnits
<1>7. \A u \in U : u[1] = k => u \in A
  BY DEF IdleUnits
<1> HIDE DEF U, s, q, N
<1>8. I = {i \in 1 .. N : s[i][1] = k}
  BY <1>2, <1>5 DEF EntriesFrom
<1>9. \A i \in I : s[i] \in A
  <2>1. \A i \in 1 .. N : s[i] \in U
    BY <1>1, RankedMember DEF N, s
  <2> QED BY <1>7, <1>8, <2>1
<1>10. \A x \in A : \E i \in I : s[i] = x
  <2> SUFFICES ASSUME NEW x \in A PROVE \E i \in I : s[i] = x
    OBVIOUS
  <2>1. \E i \in 1 .. N : s[i] = x
    BY <1>1, <1>6, RankedCovers DEF N, s
  <2>2. x[1] = k
    OBVIOUS
  <2> HIDE DEF A
  <2> QED BY <1>8, <2>1, <2>2
<1> HIDE DEF I, A
<1>11. f \in Surjection(I, A)
  BY <1>9, <1>10 DEF Surjection
<1>12. IsFiniteSet(I)
  <2>1. I \in SUBSET (1 .. N) /\ IsFiniteSet(1 .. N)
    BY <1>2, <1>8, UpToFinite
  <2> QED BY <2>1, FS_Subset
<1>13. Cardinality(A) <= Cardinality(I)
  BY <1>11, <1>12, FS_Surjection
<1>14. Capacity(b, k) \in Int
  BY BusyInType
<1>15. Cardinality(I) \in Nat
  BY <1>12, FS_CardinalityType
<1>16. CASE Capacity(b, k) \in Nat
  <2>1. IsFiniteSet(1 .. Capacity(b, k)) /\ Cardinality(1 .. Capacity(b, k)) = Capacity(b, k)
    BY <1>16, UpToFinite
  <2>2. IsFiniteSet({k}) /\ Cardinality({k}) = 1
    BY FS_Singleton
  <2>3. Cardinality(A) = Cardinality({k}) * Cardinality(1 .. Capacity(b, k))
    BY <2>1, <2>2, FS_Product DEF A
  <2>4. Cardinality(A) = Capacity(b, k)
    BY <1>16, <2>1, <2>2, <2>3
  <2> QED
    BY <1>13, <2>4 DEF I
<1>17. CASE Capacity(b, k) \notin Nat
  BY <1>14, <1>15, <1>17 DEF I
<1>18. QED
  BY <1>16, <1>17

(* Counting the entries left is counting. *)
LEMMA EntriesCounted ==
  ASSUME NEW q \in Seq(Entry), NEW c \in Nat, NEW k
  PROVE  /\ IsFiniteSet(EntriesFrom(q, c, k)) /\ Cardinality(EntriesFrom(q, c, k)) \in Nat
         /\ c >= Len(q) => Cardinality(EntriesFrom(q, c, k)) = 0
         /\ c < Len(q) => Cardinality(EntriesFrom(q, c, k)) =
              Cardinality(EntriesFrom(q, c + 1, k)) + IF q[c + 1].k = k THEN 1 ELSE 0
<1> DEFINE I == EntriesFrom(q, c, k)
           J == EntriesFrom(q, c + 1, k)
<1>1. Len(q) \in Nat /\ IsFiniteSet(1 .. Len(q))
  BY UpToFinite
<1>2. I \in SUBSET (1 .. Len(q)) /\ J \in SUBSET (1 .. Len(q)) /\ c + 1 \notin J
  BY <1>1 DEF EntriesFrom
<1>3. IsFiniteSet(I) /\ IsFiniteSet(J) /\ Cardinality(I) \in Nat /\ Cardinality(J) \in Nat
  BY <1>1, <1>2, FS_Subset, FS_CardinalityType
<1>4. ASSUME c >= Len(q) PROVE Cardinality(I) = 0
  <2>1. I = {}
    BY <1>1, <1>4 DEF EntriesFrom
  <2> QED BY <2>1, FS_EmptySet
<1>5. ASSUME c < Len(q), q[c + 1].k = k PROVE Cardinality(I) = Cardinality(J) + 1
  <2>1. I = J \cup {c + 1}
    BY <1>1, <1>5 DEF EntriesFrom
  <2> QED BY <1>2, <1>3, <2>1, FS_AddElement
<1>6. ASSUME c < Len(q), q[c + 1].k # k PROVE Cardinality(I) = Cardinality(J)
  <2>1. I = J
    BY <1>1, <1>6 DEF EntriesFrom
  <2> QED BY <2>1
<1>7. QED
  BY <1>3, <1>4, <1>5, <1>6

(* A pool that could start a late job has a free server, and a waiting job *)
(* it could serve.                                                         *)
LEMMA LateIsFeasible ==
  ASSUME NEW due \in DueTimes,
         NEW w \in Lines, NEW b \in Busy, NEW k \in Pools, Overdue(w, b, k, due) # {}
  PROVE  Feasible(w, k) /\ Capacity(b, k) > 0
<1>1. PICK n \in Jobs : FIL(w)[n] > due[n] /\ CanAssign(b, k, n)
  BY DEF Overdue
<1>2. due[n] \in Int /\ due[n] >= -1 /\ FIL(w)[n] \in Int
  BY FILType DEF DueTimes
<1>3. BusyIn(b, k) \in Nat /\ Servers[k] \in Nat
  BY BusyInType, StaticAssumption
<1>4. QED
  BY <1>1, <1>2, <1>3 DEF Feasible, CanAssign, Capacity

(* If all are asked, a pass has enough entries at its top; and when it has *)
(* come to its end nobody is late.                                         *)
LEMMA AskedThenEnough ==
  ASSUME NEW due \in DueTimes, NEW w \in Lines, NEW b \in Busy, NEW q \in Seq(Entry)
  PROVE  /\ AllAsked(w, b, q) => EnoughLeft(w, b, q, 0, due)
         /\ \A c \in Nat : EnoughLeft(w, b, q, c, due) /\ c >= Len(q) => NoneOverdue(w, b, due)
         /\ \A c \in Nat : NoneOverdue(w, b, due) => EnoughLeft(w, b, q, c, due)
<1>1. AllAsked(w, b, q) => EnoughLeft(w, b, q, 0, due)
  BY LateIsFeasible DEF AllAsked, EnoughLeft
<1>2. ASSUME NEW c \in Nat, EnoughLeft(w, b, q, c, due), c >= Len(q), NEW k \in Pools
      PROVE  Overdue(w, b, k, due) = {}
  <2> SUFFICES ASSUME Overdue(w, b, k, due) # {} PROVE FALSE
    OBVIOUS
  <2>1. Cardinality(EntriesFrom(q, c, k)) >= Capacity(b, k) /\ Capacity(b, k) > 0
    BY <1>2, LateIsFeasible DEF EnoughLeft
  <2>2. Cardinality(EntriesFrom(q, c, k)) = 0
    BY <1>2, EntriesCounted
  <2>3. Capacity(b, k) \in Int
    BY BusyInType
  <2> QED BY <2>1, <2>2, <2>3
<1>3. QED
  BY <1>1, <1>2 DEF NoneOverdue, EnoughLeft

(* Heads that get younger make no head late and no pool feasible. *)
LEMMA YoungerIsNotLate ==
  ASSUME NEW due \in DueTimes, NEW w \in Lines, NEW v \in Lines, NEW b \in Busy, NEW q, NEW c,
         \A n \in Jobs : FIL(v)[n] <= FIL(w)[n]
  PROVE  /\ AllAsked(w, b, q) => AllAsked(v, b, q)
         /\ EnoughLeft(w, b, q, c, due) => EnoughLeft(v, b, q, c, due)
<1>1. \A n \in Jobs : FIL(v)[n] \in Int /\ FIL(w)[n] \in Int /\ due[n] \in Int /\ due[n] >= -1
  BY FILType DEF DueTimes
<1>2. ASSUME NEW k \in Pools
      PROVE  (Feasible(v, k) => Feasible(w, k)) /\ Overdue(v, b, k, due) \subseteq Overdue(w, b, k, due)
  <2>1. CanServe[k] \subseteq Jobs
    BY StaticAssumption
  <2> QED BY <1>1, <2>1 DEF Feasible, Overdue
<1>3. QED
  BY <1>2 DEF AllAsked, EnoughLeft

(* A pass that starts the head of line n on the server asked, or passes    *)
(* over a server that has nothing late to start, still has enough entries  *)
(* left.                                                                   *)
LEMMA AskedServerServes ==
  ASSUME NEW due \in DueTimes,
         NEW w \in Lines, NEW b \in Busy, NEW q \in Seq(Entry), NEW c \in Nat, c < Len(q),
         \A p \in Pools : BusyIn(b, p) <= Servers[p],
         NEW n, CanAssign(b, q[c + 1].k, n), q[c + 1].k \in Pools
  PROVE  /\ AllAsked(w, b, q) => AllAsked(w, AssignJob(b, q[c + 1].k, n), q)
         /\ EnoughLeft(w, b, q, c, due) => EnoughLeft(w, AssignJob(b, q[c + 1].k, n), q, c + 1, due)
<1> DEFINE k == q[c + 1].k
           g == AssignJob(b, k, n)
<1>1. g \in Busy /\ Capacity(g, k) = Capacity(b, k) - 1 /\ Capacity(b, k) \in Int
      /\ \A p \in Pools \ {k} : Capacity(g, p) = Capacity(b, p)
  BY AssignJobEffect, AssignJobCounts, BusyInType
<1>2. \A p \in Pools : /\ Capacity(b, p) \in Int /\ Capacity(g, p) \in Int
                       /\ Capacity(g, p) <= Capacity(b, p)
  BY <1>1, BusyInType
<1>3. ASSUME NEW p \in Pools PROVE Overdue(w, g, p, due) \subseteq Overdue(w, b, p, due)
  <2>1. BusyIn(b, p) \in Nat /\ BusyIn(g, p) \in Nat /\ Servers[p] \in Nat
    BY <1>1, BusyInType, StaticAssumption
  <2>2. BusyIn(b, p) <= BusyIn(g, p)
    BY <1>2, <2>1 DEF Capacity
  <2>3. \A m : CanAssign(g, p, m) => CanAssign(b, p, m)
    BY <2>1, <2>2 DEF CanAssign
  <2> QED BY <2>3 DEF Overdue
<1>4. ASSUME NEW p
      PROVE  /\ Cardinality(EntriesFrom(q, 0, p)) \in Nat
             /\ Cardinality(EntriesFrom(q, c, p)) \in Nat
             /\ Cardinality(EntriesFrom(q, c + 1, p)) \in Nat
             /\ Cardinality(EntriesFrom(q, c, p)) =
                  Cardinality(EntriesFrom(q, c + 1, p)) + IF k = p THEN 1 ELSE 0
  BY EntriesCounted
<1> HIDE DEF g, k
<1>5. AllAsked(w, b, q) => AllAsked(w, g, q)
  <2> SUFFICES ASSUME AllAsked(w, b, q), NEW p \in Pools, Feasible(w, p)
               PROVE  Cardinality(EntriesFrom(q, 0, p)) >= Capacity(g, p)
    BY DEF AllAsked
  <2>1. Cardinality(EntriesFrom(q, 0, p)) >= Capacity(b, p)
    BY DEF AllAsked
  <2> QED BY <1>2, <1>4, <2>1
<1>6. EnoughLeft(w, b, q, c, due) => EnoughLeft(w, g, q, c + 1, due)
  <2> SUFFICES ASSUME EnoughLeft(w, b, q, c, due), NEW p \in Pools, Overdue(w, g, p, due) # {}
               PROVE  Cardinality(EntriesFrom(q, c + 1, p)) >= Capacity(g, p)
    BY DEF EnoughLeft
  <2>1. Cardinality(EntriesFrom(q, c, p)) >= Capacity(b, p)
    BY <1>3 DEF EnoughLeft
  <2>2. CASE p = k
    BY <1>1, <1>4, <2>1, <2>2
  <2>3. CASE p # k
    <3>1. Capacity(g, p) = Capacity(b, p)
      BY <1>1, <2>3
    <3>2. Cardinality(EntriesFrom(q, c, p)) = Cardinality(EntriesFrom(q, c + 1, p))
      BY <1>4, <2>3
    <3> QED BY <2>1, <3>1, <3>2
  <2> QED BY <2>2, <2>3
<1>7. QED
  BY <1>5, <1>6 DEF g, k

(* A server that has nothing late to start may be passed over. *)
LEMMA IdleServerPassed ==
  ASSUME NEW due \in DueTimes,
         NEW w \in Lines, NEW b \in Busy, NEW q \in Seq(Entry), NEW c \in Nat, c < Len(q),
         Overdue(w, b, q[c + 1].k, due) = {}, EnoughLeft(w, b, q, c, due)
  PROVE  EnoughLeft(w, b, q, c + 1, due)
<1> SUFFICES ASSUME NEW p \in Pools, Overdue(w, b, p, due) # {}
             PROVE  Cardinality(EntriesFrom(q, c + 1, p)) >= Capacity(b, p)
  BY DEF EnoughLeft
<1>1. Cardinality(EntriesFrom(q, c, p)) >= Capacity(b, p)
  BY DEF EnoughLeft
<1>2. Cardinality(EntriesFrom(q, c, p)) = Cardinality(EntriesFrom(q, c + 1, p))
  <2>1. q[c + 1].k # p
    OBVIOUS
  <2>2. Cardinality(EntriesFrom(q, c, p)) =
          Cardinality(EntriesFrom(q, c + 1, p)) + IF q[c + 1].k = p THEN 1 ELSE 0
    BY EntriesCounted
  <2>3. c + 1 \in Nat
    OBVIOUS
  <2>4. Cardinality(EntriesFrom(q, c + 1, p)) \in Nat
    BY <2>3, EntriesCounted
  <2> QED BY <2>1, <2>2, <2>4
<1>3. QED
  BY <1>1, <1>2

(* Who comes to the head of a line after a refresh is no older than the    *)
(* job that left it.                                                       *)
LEMMA NewHeadIsYounger ==
  ASSUME LineInv, FilRefresh
  PROVE  \A m \in Jobs : FIL(waiting')[m] <= FIL(waiting)[m]
<1> DEFINE n == next_fil_job_type
           q == waiting[n]
<1>1. n \in Jobs /\ waiting \in Lines /\ q \in Seq(Nat) /\ q # <<>>
  BY DEF LineInv, TypeOK, Lines, FilRefresh
<1>2. PICK bottom \in Bottoms(q) : waiting' = [waiting EXCEPT ![n] = Revealed(q, bottom)]
  BY DEF FilRefresh
<1> DEFINE r == Revealed(q, bottom)
<1>3. /\ r \in Seq(Nat) /\ Len(r) \in {Len(q) - 1, Len(q)}
      /\ \A i \in 1 .. Len(q) - 1 : r[i] = q[i + 1]
      /\ Len(r) = Len(q) => r[Len(q)] <= q[Len(q)]
  BY <1>1, RevealedShape
<1>4. waiting' \in Lines /\ waiting'[n] = r /\ \A m \in Jobs \ {n} : waiting'[m] = waiting[m]
  BY <1>1, <1>2, <1>3 DEF Lines
<1>5. FIL(waiting)[n] = q[1] /\ FIL(waiting)[n] \in Nat
  BY <1>1, FILType
<1>6. \A i, j \in 1 .. Len(q) : i < j => q[i] >= q[j]
  <2>1. Ordered(q)
    BY <1>1, InOrderByLine DEF LineInv
  <2> QED BY <2>1 DEF Ordered
<1> HIDE DEF q, r
<1>7. Len(q) \in Nat \ {0} /\ \A i \in 1 .. Len(q) : q[i] \in Nat
  BY <1>1, EmptySeq
<1>8. FIL(waiting')[n] <= FIL(waiting)[n]
  <2>1. CASE r = <<>>
    <3>1. FIL(waiting')[n] = -1
      BY <1>1, <1>4, <2>1, FILType
    <3> QED BY <1>5, <3>1
  <2>2. CASE r # <<>>
    <3>1. FIL(waiting')[n] = r[1]
      BY <1>1, <1>4, <2>2, FILType
    <3>2. r[1] <= q[1]
      <4> PICK l \in Nat \ {0} : l = Len(q)
        BY <1>7
      <4>1. CASE l = 1
        <5>1. Len(r) = 1
          BY <1>3, <2>2, <4>1, EmptySeq
        <5> QED BY <1>3, <4>1, <5>1
      <4>2. CASE l # 1
        <5>1. 1 \in 1 .. l - 1 /\ 1 \in 1 .. l /\ 2 \in 1 .. l
          BY <4>2
        <5>2. r[1] = q[1 + 1]
          BY <1>3, <5>1
        <5>3. 1 < 2 /\ 1 + 1 = 2
          OBVIOUS
        <5>4. q[1] >= q[2]
          BY <1>6, <5>1, <5>3
        <5> QED BY <5>2, <5>3, <5>4, <5>1, <1>7
      <4> QED BY <4>1, <4>2
    <3> QED BY <1>5, <3>1, <3>2
  <2> QED BY <2>1, <2>2
<1>9. ASSUME NEW m \in Jobs, m # n PROVE FIL(waiting')[m] <= FIL(waiting)[m]
  <2>1. FIL(waiting')[m] = FIL(waiting)[m]
    BY <1>4, <1>9 DEF FIL
  <2>2. FIL(waiting)[m] \in Int
    BY <1>1, FILType
  <2> QED BY <2>1, <2>2
<1>10. QED
  BY <1>8, <1>9

(* A tick makes nobody wait who did not. *)
LEMMA AgeingAsksTheSame ==
  ASSUME NEW w \in Lines, NEW b, NEW q, AllAsked(w, b, q)
  PROVE  AllAsked(Aged(w), b, q)
<1>1. ASSUME NEW n \in Jobs, FIL(Aged(w))[n] >= 0 PROVE FIL(w)[n] >= 0
  BY <1>1, AgedHeads, AgedType, FILType
<1>2. \A k \in Pools : CanServe[k] \subseteq Jobs
  BY StaticAssumption
<1>3. QED
  BY <1>1, <1>2 DEF AllAsked, Feasible

-----------------------------------------------------------------------------
(* The inductive invariant: the list of servers to ask covers the idle     *)
(* ones, the rest of a pass covers the late jobs, and outside a pass there *)
(* are none.                                                               *)
OutsideAPass(due) == cat = "AwaitEvent" /\ AtRest => NoneOverdue(waiting, busy_on, due)

PassInv(due) ==
  PerEventMode =>
    /\ AllAsked(waiting, busy_on, action_queue)
    /\ EnoughLeft(waiting, busy_on, action_queue, action_counter, due)
    /\ OutsideAPass(due)

(* A new epoch asks all. *)
LEMMA StartEpochPass ==
  ASSUME NEW due \in DueTimes,
         TypeOK', PerEventMode, NEW w, NEW b, StartEpoch(w, b), w = waiting', b = busy_on'
  PROVE  PassInv(due)'
<1>1. waiting' \in Lines /\ busy_on' \in Busy /\ action_queue' \in Seq(Entry)
  BY DEF TypeOK, Lines, Busy
<1>2. action_queue' = UnitQueue(waiting', busy_on') /\ action_counter' = 0
  BY DEF StartEpoch, GenerateActions
<1>3. AllAsked(waiting', busy_on', action_queue')
  BY <1>1, <1>2, UnitQueueAsksAll
<1>4. EnoughLeft(waiting', busy_on', action_queue', action_counter', due)
  BY <1>1, <1>2, <1>3, AskedThenEnough
<1>5. OutsideAPass(due)'
  <2>1. CASE action_queue' = <<>>
    <3>1. Len(action_queue') = 0
      BY <1>1, <2>1, EmptySeq
    <3>2. EnoughLeft(waiting', busy_on', action_queue', 0, due) /\ 0 \in Nat /\ 0 >= Len(action_queue')
      BY <1>2, <1>4, <3>1
    <3>3. NoneOverdue(waiting', busy_on', due)
      BY <1>1, <3>2, AskedThenEnough
    <3> QED BY <3>3 DEF OutsideAPass
  <2>2. CASE action_queue' # <<>>
    BY <2>2 DEF StartEpoch, OutsideAPass
  <2> QED BY <2>1, <2>2
<1>6. QED
  BY <1>3, <1>4, <1>5 DEF PassInv

(* Asking the same servers again asks all, if they did. *)
LEMMA RepresentPass ==
  ASSUME NEW due \in DueTimes, TypeOK', PerEventMode, Represent, action_counter = 0,
         AllAsked(waiting', busy_on', action_queue)
  PROVE  PassInv(due)'
<1>1. waiting' \in Lines /\ busy_on' \in Busy /\ action_queue' \in Seq(Entry)
  BY DEF TypeOK, Lines, Busy
<1>2. action_queue' = action_queue /\ action_counter' = 0
  BY DEF Represent
<1>3. EnoughLeft(waiting', busy_on', action_queue', action_counter', due)
  BY <1>1, <1>2, AskedThenEnough
<1>4. OutsideAPass(due)'
  <2>1. CASE action_queue' = <<>>
    <3>1. Len(action_queue') = 0
      BY <1>1, <2>1, EmptySeq
    <3>2. EnoughLeft(waiting', busy_on', action_queue', 0, due) /\ 0 \in Nat /\ 0 >= Len(action_queue')
      BY <1>2, <1>3, <3>1
    <3>3. NoneOverdue(waiting', busy_on', due)
      BY <1>1, <3>2, AskedThenEnough
    <3> QED BY <3>3 DEF OutsideAPass
  <2>2. CASE action_queue' # <<>>
    BY <1>2, <2>2 DEF Represent, OutsideAPass
  <2> QED BY <2>1, <2>2
<1>5. QED
  BY <1>2, <1>3, <1>4 DEF PassInv

(* The pass goes on with entry c, or is over. *)
LEMMA AdvancePass ==
  ASSUME NEW due \in DueTimes,
         TypeOK', PerEventMode, NEW c \in Nat, Advance(c), UNCHANGED action_queue,
         AllAsked(waiting', busy_on', action_queue'),
         EnoughLeft(waiting', busy_on', action_queue', c, due)
  PROVE  PassInv(due)'
<1>1. waiting' \in Lines /\ busy_on' \in Busy /\ action_queue' \in Seq(Entry)
  BY DEF TypeOK, Lines, Busy
<1>2. CASE c < Len(action_queue)
  <2>1. action_counter' = c /\ cat' = "AwaitAction"
    BY <1>2 DEF Advance
  <2> QED BY <2>1 DEF PassInv, OutsideAPass
<1>3. CASE ~(c < Len(action_queue))
  <2>1. action_counter' = 0 /\ c >= Len(action_queue')
    BY <1>1, <1>3 DEF Advance
  <2>2. NoneOverdue(waiting', busy_on', due)
    BY <1>1, <2>1, AskedThenEnough
  <2>3. EnoughLeft(waiting', busy_on', action_queue', action_counter', due)
    BY <1>1, <2>1, <2>2, AskedThenEnough
  <2> QED BY <2>2, <2>3 DEF PassInv, OutsideAPass
<1>4. QED
  BY <1>2, <1>3

(* A server that has nothing late to start may be passed over. *)
LEMMA SkipPass ==
  ASSUME NEW due \in DueTimes, TypeOK, TypeOK', PassInv(due), PerEventMode, Skip,
         Overdue(waiting, busy_on, Current.k, due) = {}
  PROVE  PassInv(due)'
<1> DEFINE k == Current.k
           c == action_counter
<1>1. /\ waiting \in Lines /\ busy_on \in Busy /\ action_queue \in Seq(Entry) /\ c \in Nat
      /\ UNCHANGED <<waiting, busy_on, action_queue>> /\ Deciding /\ Advance(c + 1)
  BY DEF TypeOK, Lines, Busy, Skip, PassOver
<1>2. Overdue(waiting, busy_on, action_queue[c + 1].k, due) = {}
  BY DEF Current
<1>3. EnoughLeft(waiting, busy_on, action_queue, c + 1, due)
  BY <1>1, <1>2, IdleServerPassed DEF PassInv, Deciding
<1>4. QED
  BY <1>1, <1>3, AdvancePass DEF PassInv

(* Serving uses up the server asked with its entry. *)
LEMMA StartsPass ==
  ASSUME NEW due \in DueTimes,
         TypeOK, TypeOK', PoolCapacity, PassInv(due), NEW n \in Jobs, Starts(n)
  PROVE  PassInv(due)'
<1> DEFINE c == action_counter
<1>1. /\ waiting \in Lines /\ busy_on \in Busy /\ action_queue \in Seq(Entry) /\ c \in Nat
      /\ UNCHANGED <<waiting, action_queue>> /\ action_counter' = c + 1
      /\ PerEventMode /\ Deciding /\ c < Len(action_queue)
      /\ busy_on' = AssignJob(busy_on, action_queue[c + 1].k, n) /\ next_fil_job_type' = n
  BY DEF TypeOK, Lines, Busy, Starts, StartType, Deciding, Current
<1>2. CanAssign(busy_on, action_queue[c + 1].k, n) /\ action_queue[c + 1].k \in Pools
  BY <1>1, CurrentIsEntry DEF Starts, CouldStart, Current, Entry
<1>3. /\ AllAsked(waiting', busy_on', action_queue')
      /\ EnoughLeft(waiting', busy_on', action_queue', action_counter', due)
  BY <1>1, <1>2, AskedServerServes DEF PassInv, PoolCapacity
<1>4. OutsideAPass(due)'
  BY <1>1, JobsAndPoolsFinite DEF OutsideAPass, AtRest, None
<1>5. QED
  BY <1>3, <1>4 DEF PassInv

(* A refresh resumes the pass with younger heads. *)
LEMMA FilRefreshPass ==
  ASSUME NEW due \in DueTimes, LineInv, TypeOK', PassInv(due), PerEventMode, FilRefresh
  PROVE  PassInv(due)'
<1>1. /\ waiting \in Lines /\ waiting' \in Lines /\ busy_on \in Busy
      /\ UNCHANGED <<busy_on, action_queue>> /\ Advance(action_counter) /\ action_counter \in Nat
  BY DEF LineInv, TypeOK, Lines, Busy, FilRefresh
<1>2. /\ AllAsked(waiting', busy_on', action_queue')
      /\ EnoughLeft(waiting', busy_on', action_queue', action_counter, due)
  BY <1>1, NewHeadIsYounger, YoungerIsNotLate DEF PassInv
<1>3. QED
  BY <1>1, <1>2, AdvancePass

(* Every event asks all the idle servers anew, or the same ones again.     *)
LEMMA EventPass ==
  ASSUME NEW due \in DueTimes,
         TypeOK, TypeOK', CounterReset, PassInv(due), PerEventMode, UniformizedEvent
  PROVE  PassInv(due)'
<1>1. cat = "AwaitEvent" /\ next_fil_job_type = None /\ action_counter = 0
  BY DEF UniformizedEvent, Happens, CounterReset, AtRest
<1>2. ASSUME NEW n \in Jobs, HandleArrival(n) PROVE PassInv(due)'
  BY <1>2, StartEpochPass DEF HandleArrival
<1>3. ASSUME NEW k, NEW n, HandleCompletion(k, n) PROVE PassInv(due)'
  BY <1>3, StartEpochPass DEF HandleCompletion
<1>4. ASSUME HandleTick PROVE PassInv(due)'
  <2>1. waiting \in Lines /\ waiting' = Aged(waiting) /\ busy_on' = busy_on /\ Represent
    BY <1>4 DEF TypeOK, Lines, HandleTick
  <2>2. AllAsked(waiting', busy_on', action_queue)
    BY <2>1, AgeingAsksTheSame DEF PassInv
  <2> QED BY <1>1, <2>1, <2>2, RepresentPass
<1>5. ASSUME HandleNothing PROVE PassInv(due)'
  BY <1>1, <1>5, RepresentPass DEF HandleNothing, PassInv
<1>6. QED
  BY <1>2, <1>3, <1>4, <1>5, EventCases

(* At first nobody waits, so nobody is late. *)
LEMMA InitPass ==
  ASSUME NEW due \in DueTimes, Init
  PROVE  PassInv(due)
<1>1. waiting \in Lines /\ busy_on \in Busy /\ action_queue \in Seq(Entry) /\ action_counter = 0
  BY InitTyped DEF TypeOK, Lines, Busy, Init
<1>2. \A n \in Jobs : FIL(waiting)[n] = -1
  BY DEF Init, FIL, None
<1>3. \A k \in Pools : ~Feasible(waiting, k)
  BY <1>2, StaticAssumption DEF Feasible
<1>4. AllAsked(waiting, busy_on, action_queue) /\ NoneOverdue(waiting, busy_on, due)
  BY <1>1, <1>3, LateIsFeasible DEF AllAsked, NoneOverdue
<1>5. QED
  BY <1>1, <1>4, AskedThenEnough DEF PassInv, OutsideAPass

(* Every step keeps it, if no server is passed over that could start a     *)
(* late job.                                                               *)
LEMMA NextPass ==
  ASSUME NEW due \in DueTimes, Inv, Inv', LineInv, PassInv(due),
         \/ Serve \/ SkipAll \/ (\E n \in Jobs : Starts(n))
         \/ Skip /\ (PerEventMode => Overdue(waiting, busy_on, Current.k, due) = {})
         \/ FilRefresh \/ UniformizedEvent \/ UNCHANGED vars
  PROVE  PassInv(due)'
<1>1. TypeOK /\ TypeOK' /\ PoolCapacity /\ CounterReset
  BY DEF Inv, EpochInv
<1> SUFFICES ASSUME PerEventMode PROVE PassInv(due)'
  BY DEF PassInv
<1>2. CASE Serve \/ SkipAll
  BY <1>2 DEF Serve, StartCandidate, SkipAll
<1>3. CASE \E n \in Jobs : Starts(n)
  BY <1>1, <1>3, StartsPass
<1>4. CASE Skip /\ (PerEventMode => Overdue(waiting, busy_on, Current.k, due) = {})
  BY <1>1, <1>4, SkipPass
<1>5. CASE FilRefresh
  BY <1>1, <1>5, FilRefreshPass
<1>6. CASE UniformizedEvent
  BY <1>1, <1>6, EventPass
<1>7. CASE UNCHANGED vars
  BY <1>7 DEF vars, PassInv, OutsideAPass, AtRest
<1>8. QED
  BY <1>2, <1>3, <1>4, <1>5, <1>6, <1>7

-----------------------------------------------------------------------------
(* With force_late_service, the late jobs are those past their due times,  *)
(* and skipping is refused to a server that could start one.               *)
LEMMA SkippingNotLate ==
  ASSUME TypeOK, PerEventMode, Skip
  PROVE  LateFor(Current.k) = {}
<1> DEFINE k    == Current.k
           late == LateFor(k)
           fil  == FIL(waiting)
           best == {n \in late : \A m \in late : fil[m] <= fil[n]}
<1> SUFFICES ASSUME late # {} PROVE FALSE
  OBVIOUS
<1>1. 0 = Forced(k) + 1
  BY DEF Skip, PassOver, IsAllowedAction, IsAllowedPerEvent
<1>2. late \subseteq Jobs /\ \A m \in late : fil[m] \in Int
  BY FILType DEF LateFor, TypeOK, Lines
<1>3. best # {} /\ best \subseteq Nat
  BY <1>2, LargestExists, JobsAndPoolsFinite, FS_Subset
<1>4. Forced(k) = Least(best)
  BY DEF Forced
<1>5. Forced(k) \in Nat
  <2> HIDE DEF best
  <2> QED BY <1>3, <1>4, LeastIsMember
<1>6. QED
  BY <1>1, <1>5

LEMMA ForcedIsOverdue ==
  ASSUME ForceLateService
  PROVE  /\ PerEventMode /\ DueTime \in DueTimes
         /\ \A k : LateFor(k) = Overdue(waiting, busy_on, k, DueTime)
BY StaticAssumption DEF LateFor, Overdue, DueTimes

(* With force_late_service the process is never let go on while a free     *)
(* server could start a job past its due time, although the list of        *)
(* servers to ask is only rebuilt by arrivals and completions.             *)
THEOREM LateJobsNeverWait == Spec => []LateNeverWaits
<1> DEFINE J == ForceLateService => PassInv(DueTime)
<1>1. Init => J
  BY InitPass, ForcedIsOverdue
<1>2. Inv /\ Inv' /\ LineInv /\ J /\ [Next]_vars => J'
  <2> SUFFICES ASSUME Inv, Inv', LineInv, [Next]_vars, ForceLateService, PassInv(DueTime)
               PROVE  PassInv(DueTime)'
    OBVIOUS
  <2>1. PerEventMode /\ Skip => Overdue(waiting, busy_on, Current.k, DueTime) = {}
    BY SkippingNotLate, ForcedIsOverdue DEF Inv
  <2> QED
    BY <2>1, NextPass, ServedStarts, ForcedIsOverdue DEF Inv, Next, Decide
<1>3. J => LateNeverWaits
  <2>1. CASE ForceLateService
    BY <2>1, ForcedIsOverdue DEF PassInv, OutsideAPass, NoneOverdue, LateNeverWaits
  <2>2. CASE ~ForceLateService
    BY <2>2 DEF LateNeverWaits, LateFor
  <2> QED
    BY <2>1, <2>2
<1> HIDE DEF J
<1>4. QED
  BY <1>1, <1>2, <1>3, EpochsSound, LinesSound, PTL DEF Spec

-----------------------------------------------------------------------------
(***************************************************************************)
(* The heuristics.  Whatever they decide keeps the invariants of the       *)
(* simulator; what theirs adds is what has been passed over.               *)
(***************************************************************************)
(* What the candidate queue lists: each candidate, labelled, and none      *)
(* before the first.                                                       *)
LEMMA QueueListsCandidates ==
  ASSUME NEW w \in Lines, NEW b \in Busy, NEW q, q = CandidateQueue(w, b)
  PROVE  /\ Len(q) = Cardinality(Candidates(w, b)) /\ Len(q) \in Nat
         /\ \A i \in 1 .. Len(q) : /\ <<q[i].k, q[i].n>> \in Candidates(w, b)
                                   /\ q[i] = Labelled(w, b, <<q[i].k, q[i].n>>)
         /\ \A c \in Candidates(w, b) : \E i \in 1 .. Len(q) : q[i] = Labelled(w, b, c)
         /\ Len(q) > 0 => \A c \in Candidates(w, b) : ~Precedes(FIL(w), c, <<q[1].k, q[1].n>>)
<1> DEFINE C == Candidates(w, b)
           R == PresentationOrder(FIL(w), C)
           s == Ranked(C, R)
           N == Cardinality(C)
<1>1. IsFiniteSet(C) /\ StrictlyOrders(R, C) /\ N \in Nat
  BY PresentationOrderStrict, FS_CardinalityType
<1>2. Len(q) = N /\ q = [i \in 1 .. N |-> Labelled(w, b, s[i])]
  BY CandidateQueueType DEF CandidateQueue
<1>3. \A i \in 1 .. N : s[i] \in C /\ Cardinality(Below(C, R, s[i])) = i - 1
  BY <1>1, RankedMember
<1>4. \A c \in C : \E i \in 1 .. N : s[i] = c
  BY <1>1, RankedCovers
<1>5. ASSUME NEW c \in C
      PROVE  Labelled(w, b, c).k = c[1] /\ Labelled(w, b, c).n = c[2] /\ c = <<c[1], c[2]>>
  BY DEF Labelled, Candidates
<1>6. ASSUME NEW c \in C, NEW d \in C, Precedes(FIL(w), c, d) PROVE c \in Below(C, R, d)
  BY <1>6 DEF Below, PresentationOrder
<1> HIDE DEF C, R, s, N
<1>7. \A i \in 1 .. N : q[i] = Labelled(w, b, s[i]) /\ q[i].k = s[i][1] /\ q[i].n = s[i][2]
                        /\ <<q[i].k, q[i].n>> = s[i]
  BY <1>2, <1>3, <1>5
<1>8. ASSUME N > 0, NEW c \in C PROVE ~Precedes(FIL(w), c, <<q[1].k, q[1].n>>)
  <2>1. 1 \in 1 .. N /\ 1 - 1 = 0
    BY <1>1, <1>8
  <2>2. s[1] \in C /\ Cardinality(Below(C, R, s[1])) = 0 /\ <<q[1].k, q[1].n>> = s[1]
    BY <1>3, <1>7, <2>1
  <2>3. Below(C, R, s[1]) = {}
    BY <1>1, <2>2, FS_Subset, FS_EmptySet DEF Below
  <2> QED
    BY <1>6, <2>2, <2>3
<1>9. \A c \in C : \E i \in 1 .. N : q[i] = Labelled(w, b, c)
  BY <1>4, <1>7
<1>10. \A i \in 1 .. N : <<q[i].k, q[i].n>> \in C /\ q[i] = Labelled(w, b, <<q[i].k, q[i].n>>)
  BY <1>3, <1>7
<1>11. QED
  BY <1>1, <1>2, <1>8, <1>9, <1>10 DEF C, N

(* The types pool k could start, and the hints as statements about them.   *)
Rivals(w, b, k) == {m \in Jobs : <<k, m>> \in Candidates(w, b)}

LEMMA HintsSay ==
  ASSUME NEW w, NEW b, NEW k, NEW n
  PROVE  LET e == Labelled(w, b, <<k, n>>)
         IN  /\ e.k = k /\ e.n = n
             /\ e.fifo <=> Cardinality({m \in Rivals(w, b, k) : FIL(w)[m] > FIL(w)[n]}) < Capacity(b, k)
             /\ e.cmu <=> Cardinality({m \in Rivals(w, b, k) : CMu(k, m) > CMu(k, n)}) < Capacity(b, k)
             /\ e.rfq <=> Cardinality({m \in Rivals(w, b, k) : FIL(w)[m] < FIL(w)[n]}) < Capacity(b, k)
BY DEF Labelled, Rivals

LEMMA RivalsType ==
  ASSUME NEW w \in Lines, NEW b \in Busy, NEW k \in Pools
  PROVE  /\ Rivals(w, b, k) \subseteq Jobs /\ IsFiniteSet(Rivals(w, b, k))
         /\ Rivals(w, b, k) \subseteq Nat
         /\ \A n \in Jobs : n \in Rivals(w, b, k) <=> w[n] # <<>> /\ CanAssign(b, k, n)
         /\ \A n \in Rivals(w, b, k) :
              FIL(w)[n] \in Nat /\ CMu(k, n) \in Nat /\ Capacity(b, k) > 0
<1>1. Rivals(w, b, k) \subseteq Jobs
  BY DEF Rivals
<1>2. IsFiniteSet(Rivals(w, b, k)) /\ Rivals(w, b, k) \subseteq Nat
  BY <1>1, JobsAndPoolsFinite, FS_Subset
<1>3. ASSUME NEW n \in Jobs PROVE n \in Rivals(w, b, k) <=> w[n] # <<>> /\ CanAssign(b, k, n)
  BY FILType DEF Rivals, Candidates
<1>4. ASSUME NEW n \in Rivals(w, b, k)
      PROVE  FIL(w)[n] \in Nat /\ CMu(k, n) \in Nat /\ Capacity(b, k) > 0
  <2>1. n \in Jobs /\ w[n] # <<>> /\ CanAssign(b, k, n)
    BY <1>1, <1>3
  <2>2. CostRate[n] \in Nat /\ Mu[k][n] \in Nat /\ Servers[k] \in Nat
    BY <2>1, StaticAssumption
  <2>3. CMu(k, n) \in Nat
    BY <2>2 DEF CMu
  <2>4. BusyIn(b, k) \in Nat
    BY BusyInType
  <2> QED
    BY <2>1, <2>2, <2>3, <2>4, FILType DEF CanAssign, Capacity
<1>5. QED
  BY <1>1, <1>2, <1>3, <1>4

-----------------------------------------------------------------------------
(* The hint a deterministic policy goes by. *)
Marked(p, e) == CASE p = "FIFO policy"   -> TRUE
                  [] p = "cmu"           -> e.cmu
                  [] p = "reverse_fifo"  -> e.rfq
                  [] p = "enforced_fifo" -> e.fifo
                  [] OTHER               -> FALSE

PolicyTypeOK ==
  /\ policy \in Policies
  /\ draws \in [0 .. KServers * NJobs - 1 -> {"unread", "skip", "serve"}]

LEMMA PolicyCases ==
  ASSUME policy \in Policies
  PROVE  /\ Deterministic <=> policy \in {"FIFO policy", "cmu", "reverse_fifo", "enforced_fifo"}
         /\ PerEventMode => policy \in {"FIFO policy", "cmu"}
         /\ Deterministic \/ policy = "stochastic_FIFO"
BY DEF Policies, Deterministic

(* A queue of candidates, asked of a deterministic policy, has an entry it *)
(* serves: of the pool of any candidate, the best.                         *)
LEMMA SomeMarked ==
  ASSUME NEW w \in Lines, NEW b \in Busy, policy \in Policies, Deterministic,
         NEW q, q = CandidateQueue(w, b), Candidates(w, b) # {}
  PROVE  \E i \in 1 .. Len(q) : Marked(policy, q[i])
<1>1. PICK c \in Candidates(w, b) : TRUE
  OBVIOUS
<1> DEFINE k == c[1]
           S == Rivals(w, b, k)
           fil == FIL(w)
<1>2. c = <<k, c[2]>> /\ k \in Pools /\ c[2] \in S
  BY DEF Candidates, Rivals
<1>3. /\ S \subseteq Jobs /\ IsFiniteSet(S) /\ S \subseteq Nat
      /\ \A n \in S : fil[n] \in Nat /\ CMu(k, n) \in Nat /\ Capacity(b, k) > 0
  BY <1>2, RivalsType
<1>4. \A n \in S : <<k, n>> \in Candidates(w, b)
  BY DEF Rivals
<1> HIDE DEF k, S, fil
<1>5. ASSUME NEW n \in S, Marked(policy, Labelled(w, b, <<k, n>>))
      PROVE  \E i \in 1 .. Len(q) : Marked(policy, q[i])
  <2>1. PICK i \in 1 .. Len(q) : q[i] = Labelled(w, b, <<k, n>>)
    BY <1>4, QueueListsCandidates
  <2> QED
    BY <1>5, <2>1
<1>6. Cardinality({}) = 0
  BY FS_EmptySet
<1>7. CASE policy = "FIFO policy"
  <2>1. Marked(policy, Labelled(w, b, <<k, c[2]>>))
    BY <1>7 DEF Marked
  <2> QED
    BY <1>2, <1>5, <2>1
<1>8. CASE policy = "cmu"
  <2> DEFINE f == [n \in S |-> CMu(k, n)]
  <2>1. {n \in S : \A m \in S : f[m] <= f[n]} # {}
    <3>1. \A n \in S : f[n] \in Int
      BY <1>3
    <3> HIDE DEF f
    <3> QED BY <1>2, <1>3, <3>1, LargestExists
  <2>2. PICK n \in S : \A m \in S : CMu(k, m) <= CMu(k, n)
    BY <2>1
  <2>3. {m \in S : CMu(k, m) > CMu(k, n)} = {}
    <3>1. \A m \in S : ~ (CMu(k, m) > CMu(k, n))
      BY <1>3, <2>2
    <3> QED BY <3>1
  <2>4. Labelled(w, b, <<k, n>>).cmu
    BY <1>3, <1>6, <2>3, HintsSay DEF S
  <2> QED
    BY <1>5, <1>8, <2>4 DEF Marked
<1>9. CASE policy = "enforced_fifo"
  <2>1. {n \in S : \A m \in S : fil[m] <= fil[n]} # {}
    <3>1. \A n \in S : fil[n] \in Int
      BY <1>3
    <3> QED BY <1>2, <1>3, <3>1, LargestExists
  <2>2. PICK n \in S : \A m \in S : fil[m] <= fil[n]
    BY <2>1
  <2>3. {m \in S : fil[m] > fil[n]} = {}
    <3>1. \A m \in S : ~ (fil[m] > fil[n])
      BY <1>3, <2>2
    <3> QED BY <3>1
  <2>4. Labelled(w, b, <<k, n>>).fifo
    BY <1>3, <1>6, <2>3, HintsSay DEF S, fil
  <2> QED
    BY <1>5, <1>9, <2>4 DEF Marked
<1>10. CASE policy = "reverse_fifo"
  <2> DEFINE f == [n \in S |-> -fil[n]]
  <2>1. {n \in S : \A m \in S : f[m] <= f[n]} # {}
    <3>1. \A n \in S : f[n] \in Int
      BY <1>3
    <3> HIDE DEF f
    <3> QED BY <1>2, <1>3, <3>1, LargestExists
  <2>2. PICK n \in S : \A m \in S : f[m] <= f[n]
    BY <2>1
  <2>3. {m \in S : fil[m] < fil[n]} = {}
    <3>1. \A m \in S : ~ (fil[m] < fil[n])
      BY <1>3, <2>2
    <3> QED BY <3>1
  <2>4. Labelled(w, b, <<k, n>>).rfq
    BY <1>3, <1>6, <2>3, HintsSay DEF S, fil
  <2> QED
    BY <1>5, <1>10, <2>4 DEF Marked
<1>11. QED
  BY <1>7, <1>8, <1>9, <1>10, PolicyCases

(* With the oldest shown first, nobody in the queue is older than the      *)
(* first, and its FIFO hint is set.                                        *)
LEMMA FirstIsOldest ==
  ASSUME NEW w \in Lines, NEW b \in Busy, SortDescending,
         NEW q, q = CandidateQueue(w, b), Len(q) > 0
  PROVE  /\ \A c \in Candidates(w, b) : FIL(w)[c[2]] <= FIL(w)[q[1].n]
         /\ q[1].fifo
<1> DEFINE k == q[1].k
           n == q[1].n
           S == Rivals(w, b, k)
           fil == FIL(w)
<1>1. /\ <<k, n>> \in Candidates(w, b) /\ q[1] = Labelled(w, b, <<k, n>>)
      /\ \A c \in Candidates(w, b) : ~Precedes(fil, c, <<k, n>>)
  <2>1. 1 \in 1 .. Len(q)
    BY QueueListsCandidates
  <2> QED
    BY <2>1, QueueListsCandidates
<1>2. k \in Pools /\ n \in Jobs /\ n \in S
  BY <1>1 DEF Candidates, Rivals
<1> HIDE DEF k, n, fil
<1>3. ASSUME NEW c \in Candidates(w, b) PROVE fil[c[2]] <= fil[n]
  <2>1. ~ (fil[c[2]] > fil[n])
    BY <1>1 DEF Precedes
  <2>2. c[2] \in Jobs
    BY DEF Candidates
  <2>3. fil[c[2]] \in Int /\ fil[n] \in Int
    BY <1>2, <2>2, FILType DEF fil
  <2> QED
    BY <2>1, <2>3
<1>4. ASSUME NEW m \in S PROVE fil[m] <= fil[n]
  <2>1. <<k, m>> \in Candidates(w, b)
    BY DEF Rivals
  <2> QED
    BY <1>3, <2>1
<1>5. \A m \in S : fil[m] \in Nat /\ Capacity(b, k) > 0
  BY <1>2, RivalsType DEF fil
<1>6. {m \in S : fil[m] > fil[n]} = {}
  BY <1>2, <1>4, <1>5
<1>7. q[1].fifo
  <2>1. Cardinality({m \in S : fil[m] > fil[n]}) < Capacity(b, k)
    BY <1>2, <1>5, <1>6, FS_EmptySet
  <2>2. Labelled(w, b, <<k, n>>).fifo
    BY <2>1, HintsSay DEF fil
  <2> QED
    BY <1>1, <2>2
<1>8. QED
  BY <1>3, <1>7 DEF n, fil

(* The candidate queue in front of a policy. *)
LEMMA QueueShown ==
  ASSUME Inv, AtRest, ~PerEventMode
  PROVE  /\ waiting \in Lines /\ busy_on \in Busy /\ action_counter \in Nat
         /\ action_queue = CandidateQueue(waiting, busy_on)
BY DEF Inv, TypeOK, Lines, Busy, EpochInv, QueueFresh, GenerateActions

(* The stochastic policy has a draw for every entry it may be shown. *)
LEMMA DrawExists ==
  ASSUME Inv, Deciding, ~PerEventMode
  PROVE  action_counter \in 0 .. KServers * NJobs - 1
<1>1. AtRest /\ action_counter < Len(action_queue)
  BY DecidesAtRest DEF Inv, Deciding
<1>2. /\ waiting \in Lines /\ busy_on \in Busy /\ action_counter \in Nat
      /\ action_queue = CandidateQueue(waiting, busy_on)
  BY <1>1, QueueShown
<1> DEFINE C == Candidates(waiting, busy_on)
<1>3. Len(action_queue) = Cardinality(C) /\ Cardinality(C) \in Nat
  BY <1>2, QueueListsCandidates
<1>4. C \in SUBSET (Pools \X Jobs)
  BY DEF Candidates
<1>5. Cardinality(Pools) = KServers /\ Cardinality(Jobs) = NJobs
  <2>1. /\ NJobs \in Nat /\ KServers \in Nat /\ 0 \in Int
        /\ NJobs - 1 \in Int /\ KServers - 1 \in Int
        /\ ~(0 > NJobs - 1) /\ ~(0 > KServers - 1)
        /\ (NJobs - 1) - 0 + 1 = NJobs /\ (KServers - 1) - 0 + 1 = KServers
    BY StaticAssumption
  <2> QED
    BY <2>1, FS_Interval DEF Jobs, Pools
<1>6. /\ IsFiniteSet(Pools \X Jobs)
      /\ Cardinality(Pools \X Jobs) = KServers * NJobs
  BY <1>5, JobsAndPoolsFinite, FS_Product
<1>7. Cardinality(C) <= KServers * NJobs
  BY <1>4, <1>6, FS_Subset
<1>8. KServers * NJobs \in Nat
  BY <1>6, FS_CardinalityType
<1>9. QED
  <2> HIDE DEF C
  <2> QED BY <1>1, <1>2, <1>3, <1>7, <1>8

-----------------------------------------------------------------------------
(* Types are numbers. *)
LEMMA TypeNumber == \A n \in Jobs : n \in Nat /\ (n + 1) - 1 = n
BY JobsAndPoolsFinite

(* The choice among types: one with the largest key, or none of none. *)
LEMMA ServeBestAnswers ==
  ASSUME NEW S, S \subseteq Jobs, NEW key, \A n \in S : key[n] \in Int
  PROVE  /\ S = {} => ServeBest(S, key) = 0
         /\ S # {} => \E n \in S : ServeBest(S, key) = n + 1 /\ \A m \in S : key[m] <= key[n]
<1> DEFINE best == {n \in S : \A m \in S : key[m] <= key[n]}
<1>1. S = {} => ServeBest(S, key) = 0
  BY DEF ServeBest
<1>2. ASSUME S # {}
      PROVE  \E n \in S : ServeBest(S, key) = n + 1 /\ \A m \in S : key[m] <= key[n]
  <2>1. best # {} /\ best \subseteq Nat
    BY <1>2, LargestExists, JobsAndPoolsFinite, FS_Subset
  <2>2. ServeBest(S, key) = Least(best) + 1
    BY <1>2 DEF ServeBest, FirstLargest
  <2>3. Least(best) \in best
    <3> HIDE DEF best
    <3> QED BY <2>1, LeastIsMember
  <2> QED
    BY <2>2, <2>3
<1>3. QED
  BY <1>1, <1>2

(* What the heuristics choose among in per-event mode, and what it is      *)
(* compared by.                                                            *)
Choices == IF policy = "FIFO policy" THEN Startable ELSE Permitted \cap CanServe[Current.k]
Key     == IF policy = "FIFO policy" THEN FIL(waiting) ELSE [n \in Jobs |-> CMu(Current.k, n)]

LEMMA PerEventChoice ==
  ASSUME Inv, PerEventMode, Deciding
  PROVE  /\ Current.k \in Pools /\ Choices \subseteq Jobs /\ \A n \in Jobs : Key[n] \in Int
         /\ \A n \in Jobs : Key[n] = IF policy = "FIFO policy" THEN FIL(waiting)[n]
                                                               ELSE CMu(Current.k, n)
         /\ Choices = {} => PerEventAction = 0
         /\ Choices # {} => \E n \in Choices : /\ PerEventAction = n + 1
                                               /\ \A m \in Choices : Key[m] <= Key[n]
<1>1. waiting \in Lines /\ Current.k \in Pools
  BY CurrentIsEntry DEF Inv, TypeOK, Lines, Entry
<1>2. Choices \subseteq Jobs
  BY DEF Choices, Startable, Permitted
<1>3. \A n \in Jobs : FIL(waiting)[n] \in Int /\ CMu(Current.k, n) \in Int
  <2>1. \A n \in Jobs : CostRate[n] \in Nat /\ Mu[Current.k][n] \in Nat
    BY <1>1, StaticAssumption
  <2> QED
    BY <1>1, <2>1, FILType DEF CMu
<1>4. \A n \in Jobs : Key[n] = IF policy = "FIFO policy" THEN FIL(waiting)[n]
                                                         ELSE CMu(Current.k, n)
  BY DEF Key
<1>5. PerEventAction = ServeBest(Choices, Key)
  BY DEF PerEventAction, Choices, Key
<1>6. \A n \in Jobs : Key[n] \in Int
  BY <1>3, <1>4
<1>7. QED
  BY <1>1, <1>2, <1>4, <1>5, <1>6, ServeBestAnswers

(* A type is among the choices if it could start and none is forced.       *)
LEMMA StartableIsChosen ==
  ASSUME Inv, PerEventMode, Deciding, NEW n \in Jobs, CouldStart(n),
         policy = "FIFO policy" \/ LateFor(Current.k) = {}
  PROVE  n \in Choices
<1>1. CASE policy = "FIFO policy"
  BY <1>1 DEF Choices, Startable, CouldStart
<1>2. CASE policy # "FIFO policy"
  <2>1. IsAllowedAction(n + 1)
    <3>1. ServesStartable(n + 1)
      BY TypeNumber, Zenon DEF ServesStartable, CouldStart
    <3>2. LateFor(Current.k) = {}
      BY <1>2
    <3> QED
      BY <3>1, <3>2 DEF IsAllowedAction, IsAllowedPerEvent
  <2> QED
    BY <1>2, <2>1 DEF Choices, Permitted, CanAssign, CouldStart
<1>3. QED
  BY <1>1, <1>2

(* Nobody chosen means that nobody could start, if the answer, to idle, is *)
(* allowed.                                                                *)
LEMMA NobodyChosen ==
  ASSUME Inv, PerEventMode, Deciding, IsAllowedAction(0), Choices = {}
  PROVE  \A n \in Jobs : ~ CouldStart(n)
<1>1. LateFor(Current.k) = {}
  BY ForcedIsLate DEF IsAllowedAction, IsAllowedPerEvent, Inv
<1>2. QED
  BY <1>1, StartableIsChosen

(* What a heuristic answers is an action, and it is allowed unless late    *)
(* service is forced on a policy that does not ask what is allowed.        *)
LEMMA AnswerAllowed ==
  ASSUME Inv, PolicyTypeOK, Deciding, ForceLateService => policy = "cmu", NEW a \in GetActions
  PROVE  IsAllowedAction(a)
<1>1. CASE ~PerEventMode
  <2>1. a \in {0, 1}
    <3>1. GetActions = CandidateActions /\ \A e : If(e) \in {0, 1}
      BY <1>1 DEF GetActions, If
    <3>2. CASE policy = "stochastic_FIFO"
      <4>1. draws[action_counter] \in {"unread", "skip", "serve"}
        BY <1>1, DrawExists DEF PolicyTypeOK
      <4>2. DrawSays \subseteq {0, 1}
        BY <4>1 DEF DrawSays
      <4>3. CandidateActions = DrawSays
        BY <3>2 DEF CandidateActions
      <4> QED
        BY <3>1, <4>2, <4>3
    <3>3. CASE Deterministic
      BY <3>1, <3>3, PolicyCases DEF PolicyTypeOK, CandidateActions
    <3> QED
      BY <3>2, <3>3, PolicyCases DEF PolicyTypeOK
  <2>2. AtRest
    BY DecidesAtRest DEF Inv
  <2>3. IsAllowedAction(1) /\ IsAllowedAction(0)
    <3>1. CanAssign(busy_on, Current.k, Current.n)
      BY <1>1, <2>2, EntriesStartable, CurrentIsEntry DEF Current, Inv
    <3> QED
      BY <1>1, <3>1 DEF IsAllowedAction, IsAllowedCandidate
  <2> QED
    BY <2>1, <2>3
<1>2. CASE PerEventMode
  <2>1. a = PerEventAction
    BY <1>2 DEF GetActions
  <2>2. CASE Choices # {}
    <3>1. PICK n \in Choices : PerEventAction = n + 1
      BY <1>2, <2>2, PerEventChoice
    <3>2. n \in Jobs
      BY <1>2, <3>1, PerEventChoice
    <3>3. CASE policy = "cmu"
      BY <2>1, <3>1, <3>3 DEF Choices, Permitted
    <3>4. CASE policy # "cmu"
      <4>1. LateFor(Current.k) = {} /\ policy = "FIFO policy"
        BY <1>2, <3>4, PolicyCases DEF LateFor, PolicyTypeOK
      <4>2. waiting[n] # <<>> /\ CanAssign(busy_on, Current.k, n)
        BY <3>1, <4>1 DEF Choices, Startable
      <4>3. n \in Int /\ (n + 1) - 1 = n
        BY <3>2, JobsAndPoolsFinite
      <4>4. ServesStartable(n + 1)
        BY <3>2, <4>2, <4>3 DEF ServesStartable
      <4> QED
        BY <1>2, <2>1, <3>1, <4>1, <4>4 DEF IsAllowedAction, IsAllowedPerEvent
    <3> QED
      BY <3>3, <3>4
  <2>3. CASE Choices = {}
    <3>1. a = 0
      BY <1>2, <2>1, <2>3, PerEventChoice
    <3>2. LateFor(Current.k) = {}
      <4> DEFINE f == Forced(Current.k)
      <4> SUFFICES ASSUME LateFor(Current.k) # {} PROVE FALSE
        OBVIOUS
      <4>1. f \in LateFor(Current.k) /\ f \in Jobs
        BY ForcedIsLate DEF Inv
      <4>2. f \in Jobs /\ f \in CanServe[Current.k] /\ ForceLateService
        BY <4>1 DEF LateFor, CanAssign
      <4>3. IsAllowedAction(f + 1)
        BY <1>2 DEF IsAllowedAction, IsAllowedPerEvent
      <4> HIDE DEF f
      <4>4. f \in Choices
        BY <4>2, <4>3 DEF Choices, Permitted
      <4> QED
        BY <2>3, <4>4
    <3> QED
      BY <1>2, <3>1, <3>2 DEF IsAllowedAction, IsAllowedPerEvent
  <2> QED
    BY <2>2, <2>3
<1>3. QED
  BY <1>1, <1>2


(* Allowed or not, what is answered can be carried out: whoever idles may  *)
(* idle, for nobody could start, and a type served could start.            *)
LEMMA AnswerFits ==
  ASSUME Inv, PolicyTypeOK, Deciding
  PROVE  /\ 0 \in GetActions => IsAllowedAction(0)
         /\ ~PerEventMode => IsAllowedAction(1)
         /\ PerEventMode => \A n \in Jobs : n + 1 \in GetActions => CouldStart(n)
<1>1. CASE ~PerEventMode
  <2>1. AtRest
    BY DecidesAtRest DEF Inv
  <2>2. CanAssign(busy_on, Current.k, Current.n)
    BY <1>1, <2>1, EntriesStartable, CurrentIsEntry DEF Current, Inv
  <2> QED
    BY <1>1, <2>2 DEF IsAllowedAction, IsAllowedCandidate
<1>2. CASE PerEventMode
  <2>1. policy \in {"FIFO policy", "cmu"} /\ GetActions = {PerEventAction}
    BY <1>2 DEF PolicyTypeOK, Policies, GetActions
  <2>2. ASSUME NEW n \in Jobs, n + 1 \in GetActions PROVE CouldStart(n)
    <3>1. n \in Nat /\ PerEventAction = n + 1
      BY <2>1, <2>2, TypeNumber
    <3>2. Choices # {}
      <4>1. n + 1 # 0
        BY <3>1
      <4>2. Choices = {} => PerEventAction = 0
        BY <1>2, PerEventChoice
      <4> QED
        BY <3>1, <4>1, <4>2
    <3>3. PICK m \in Choices : PerEventAction = m + 1
      BY <1>2, <3>2, PerEventChoice
    <3>4. m = n
      <4>1. m \in Nat
        BY <1>2, <3>3, PerEventChoice, TypeNumber
      <4> QED
        BY <3>1, <3>3, <4>1
    <3>5. CASE policy = "FIFO policy"
      BY <3>3, <3>4, <3>5 DEF Choices, Startable, CouldStart
    <3>6. CASE policy = "cmu"
      <4>1. IsAllowedAction(n + 1)
        BY <3>3, <3>4, <3>6 DEF Choices, Permitted
      <4> QED
        BY <1>2, <4>1, AllowedTypeIsStartable DEF Inv
    <3> QED
      BY <2>1, <3>5, <3>6
  <2>3. ASSUME 0 \in GetActions PROVE IsAllowedAction(0)
    <3>1. CASE policy = "cmu"
      BY <2>3, <3>1, AnswerAllowed
    <3>2. CASE policy = "FIFO policy"
      <4> DEFINE f == Forced(Current.k)
      <4> SUFFICES ASSUME LateFor(Current.k) # {} PROVE FALSE
        BY <1>2 DEF IsAllowedAction, IsAllowedPerEvent
      <4>1. f \in LateFor(Current.k) /\ f \in Jobs
        BY ForcedIsLate DEF Inv
      <4> HIDE DEF f
      <4>2. FIL(waiting)[f] > DueTime[f] /\ CanAssign(busy_on, Current.k, f)
        BY <4>1 DEF LateFor
      <4>3. waiting[f] # <<>>
        <5>1. DueTime[f] \in Nat /\ waiting \in Lines
          BY <4>1, StaticAssumption DEF Inv, TypeOK, Lines
        <5> QED
          BY <4>1, <4>2, <5>1, FILType
      <4>4. f \in Choices
        BY <1>2, <3>2, <4>1, <4>2, <4>3, StartableIsChosen DEF CouldStart
      <4>5. PICK n \in Choices : PerEventAction = n + 1
        BY <1>2, <4>4, PerEventChoice
      <4>6. n \in Nat
        BY <1>2, <4>5, PerEventChoice, TypeNumber
      <4>7. n + 1 # 0
        BY <4>6
      <4>8. PerEventAction = 0
        BY <2>1, <2>3
      <4> QED
        BY <4>5, <4>7, <4>8
    <3> QED
      BY <2>1, <3>1, <3>2
  <2> QED
    BY <1>2, <2>2, <2>3
<1> QED
  BY <1>1, <1>2

LEMMA WhatPolicyDecides ==
  ASSUME Inv, PolicyTypeOK, PolicyDecides
  PROVE  \/ 0 \in GetActions /\ Skip
         \/ 1 \in GetActions /\ Serve
         \/ \E n \in Jobs : n + 1 \in GetActions /\ Starts(n)
<1>1. Deciding
  BY DEF PolicyDecides
<1>2. CASE 0 \in GetActions /\ PassOver
  BY <1>1, <1>2, AnswerFits DEF Skip
<1>3. CASE 1 \in GetActions /\ StartCandidate
  BY <1>1, <1>3, AnswerFits DEF Serve, StartCandidate
<1>4. ASSUME NEW n \in Jobs, n + 1 \in GetActions, StartType(n) PROVE Starts(n)
  BY <1>1, <1>4, AnswerFits DEF Starts, StartType
<1> QED
  BY <1>2, <1>3, <1>4 DEF PolicyDecides

LEMMA PolicySteps == Inv /\ PolicyTypeOK /\ [PolicyNext]_policyVars => [AnyNext]_vars
<1> SUFFICES ASSUME Inv, PolicyTypeOK, [PolicyNext]_policyVars PROVE [AnyNext]_vars
  OBVIOUS
<1>1. PolicyDecides => AnyDecision
  BY WhatPolicyDecides DEF AnyDecision
<1>2. ASSUME NEW u \in 0 .. UniformizationRate - 1, Happens(u) PROVE UniformizedEvent
  BY <1>2 DEF UniformizedEvent
<1>3. PolicyNext => AnyNext
  BY <1>1, <1>2 DEF PolicyNext, AnyNext
<1>4. UNCHANGED policyVars => UNCHANGED vars
  BY DEF policyVars, vars
<1>5. QED
  BY <1>3, <1>4

-----------------------------------------------------------------------------
(* The inductive invariant of a heuristic's run: in the candidate queue    *)
(* every entry it has been shown was one it skips; in per-event mode, with *)
(* anybody who waits taken for late, the pass has enough servers left to   *)
(* ask; and WorkConserving itself, for queues shown again.                 *)
Anybody == [n \in Jobs |-> -1]

PassedOver ==
  (~PerEventMode /\ Deterministic /\ AtRest) =>
    \A i \in 1 .. action_counter : ~ Marked(policy, action_queue[i])

PolicyInv == PolicyTypeOK /\ PassedOver /\ PassInv(Anybody) /\ WorkConserving

LEMMA AnybodyIsDue == Anybody \in DueTimes
BY DEF Anybody, DueTimes

(* The overdue are then all that could start. *)
LEMMA OverdueAnybody ==
  ASSUME NEW w \in Lines, NEW b, NEW k
  PROVE  /\ \A n \in Jobs : n \in Overdue(w, b, k, Anybody) <=> w[n] # <<>> /\ CanAssign(b, k, n)
         /\ NoneOverdue(w, b, Anybody) => Candidates(w, b) = {}
<1>1. ASSUME NEW n \in Jobs
      PROVE  /\ FIL(w)[n] > Anybody[n] <=> w[n] # <<>>
             /\ FIL(w)[n] > Anybody[n] <=> FIL(w)[n] >= 0
  BY FILType DEF Anybody
<1>2. NoneOverdue(w, b, Anybody) => Candidates(w, b) = {}
  BY <1>1 DEF NoneOverdue, Overdue, Candidates
<1>3. QED
  BY <1>1, <1>2 DEF Overdue

(* A heuristic asked in per-event mode only idles if nobody could start.   *)
LEMMA IdlesForNobody ==
  ASSUME Inv, PerEventMode, Deciding, Skip, 0 \in GetActions
  PROVE  Overdue(waiting, busy_on, Current.k, Anybody) = {}
<1>1. PerEventAction = 0 /\ IsAllowedAction(0) /\ waiting \in Lines
  BY DEF GetActions, Skip, PassOver, Inv, TypeOK, Lines
<1>2. Choices = {}
  <2> SUFFICES ASSUME Choices # {} PROVE FALSE
    OBVIOUS
  <2>1. PICK n \in Choices : PerEventAction = n + 1
    BY PerEventChoice
  <2>2. n \in Nat
    BY PerEventChoice, JobsAndPoolsFinite
  <2> QED
    BY <1>1, <2>1, <2>2
<1>3. \A n \in Jobs : ~ CouldStart(n)
  BY <1>1, <1>2, NobodyChosen
<1>4. \A n \in Jobs : n \notin Overdue(waiting, busy_on, Current.k, Anybody)
  BY <1>1, <1>3, OverdueAnybody DEF CouldStart
<1>5. Overdue(waiting, busy_on, Current.k, Anybody) \subseteq Jobs
  BY DEF Overdue
<1>6. QED
  BY <1>4, <1>5

(* What a deterministic heuristic answers about a candidate. *)
LEMMA MarkAnswers ==
  ASSUME policy \in Policies, Deterministic, ~PerEventMode, Deciding, Inv
  PROVE  GetActions = IF Marked(policy, Current) THEN {1} ELSE {0}
<1>1. GetActions = CandidateActions
  BY DEF GetActions
<1>2. CASE policy = "FIFO policy"
  BY <1>1, <1>2 DEF CandidateActions, Marked
<1>3. CASE policy = "cmu"
  BY <1>1, <1>3 DEF CandidateActions, Marked, If
<1>4. CASE policy = "reverse_fifo"
  BY <1>1, <1>4 DEF CandidateActions, Marked, If
<1>5. CASE policy = "enforced_fifo"
  BY <1>1, <1>5 DEF CandidateActions, Marked, If
<1>6. QED
  BY <1>2, <1>3, <1>4, <1>5, PolicyCases

(* Steps that leave the policy alone. *)
LEMMA SamePolicy ==
  ASSUME UNCHANGED policy
  PROVE  /\ Deterministic' <=> Deterministic
         /\ \A e : Marked(policy, e)' <=> Marked(policy, e)
BY DEF Deterministic, Marked

LEMMA PolicyTypeKept ==
  ASSUME Inv, PolicyTypeOK, [PolicyNext]_policyVars
  PROVE  PolicyTypeOK' /\ policy' = policy
<1> DEFINE D == [0 .. KServers * NJobs - 1 -> {"unread", "skip", "serve"}]
<1>1. Unread \in D
  BY DEF Unread
<1>2. ASSUME NEW o \in {"skip", "serve"}, ReadDraw(o) PROVE draws' \in D
  BY <1>2 DEF ReadDraw, PolicyTypeOK
<1>3. PolicyDecides => draws' \in D
  BY <1>2 DEF PolicyDecides, PolicyTypeOK
<1>4. PolicyNext => draws' \in D /\ policy' = policy
  BY <1>1, <1>3 DEF PolicyNext, PolicyTypeOK
<1>5. UNCHANGED policyVars => UNCHANGED <<policy, draws>>
  BY DEF policyVars
<1>6. Policies' = Policies
  BY DEF Policies
<1>7. QED
  BY <1>4, <1>5, <1>6 DEF PolicyTypeOK

-----------------------------------------------------------------------------
(* A step that ends in a new candidate queue at its top. *)
LEMMA StartEpochPolicy ==
  ASSUME Inv', ~PerEventMode, policy \in Policies, UNCHANGED policy,
         NEW w, NEW b, StartEpoch(w, b), w = waiting', b = busy_on'
  PROVE  PassedOver' /\ WorkConserving'
<1>1. /\ waiting' \in Lines /\ busy_on' \in Busy
      /\ action_queue' = CandidateQueue(waiting', busy_on') /\ action_counter' = 0
      /\ cat' = IF action_queue' = <<>> THEN "AwaitEvent" ELSE "AwaitAction"
  BY DEF Inv, TypeOK, Lines, Busy, StartEpoch, GenerateActions
<1>2. PassedOver'
  BY <1>1 DEF PassedOver
<1>3. WorkConserving'
  <2> SUFFICES ASSUME action_queue' = <<>> PROVE Candidates(waiting', busy_on') = {}
    BY <1>1 DEF WorkConserving
  <2>1. Len(CandidateQueue(waiting', busy_on')) = 0
    BY <1>1
  <2> SUFFICES ASSUME NEW c \in Candidates(waiting', busy_on') PROVE FALSE
    OBVIOUS
  <2>2. \E i \in 1 .. Len(CandidateQueue(waiting', busy_on')) : TRUE
    BY <1>1, QueueListsCandidates
  <2> QED
    BY <2>1, <2>2
<1>4. QED
  BY <1>2, <1>3

(* A step that shows the queue again. *)
LEMMA RepresentPolicy ==
  ASSUME Inv, Inv', ~PerEventMode, cat = "AwaitEvent", next_fil_job_type = None,
         Represent, UNCHANGED next_fil_job_type
  PROVE  PassedOver' /\ WorkConserving'
<1>1. AtRest /\ AtRest'
  BY DEF AtRest
<1>2. /\ action_counter' = 0
      /\ cat' = IF action_queue' = <<>> THEN "AwaitEvent" ELSE "AwaitAction"
  BY <1>1 DEF Represent, Inv, EpochInv, CounterReset
<1>3. /\ waiting' \in Lines /\ busy_on' \in Busy
      /\ action_queue' = CandidateQueue(waiting', busy_on')
  BY <1>1 DEF Inv, TypeOK, Lines, Busy, EpochInv, QueueFresh, GenerateActions
<1>4. PassedOver'
  BY <1>2 DEF PassedOver
<1>5. WorkConserving'
  <2> SUFFICES ASSUME action_queue' = <<>> PROVE Candidates(waiting', busy_on') = {}
    BY <1>2 DEF WorkConserving
  <2>1. Len(CandidateQueue(waiting', busy_on')) = 0
    BY <1>3
  <2> SUFFICES ASSUME NEW c \in Candidates(waiting', busy_on') PROVE FALSE
    OBVIOUS
  <2>2. \E i \in 1 .. Len(CandidateQueue(waiting', busy_on')) : TRUE
    BY <1>3, QueueListsCandidates
  <2> QED
    BY <2>1, <2>2
<1>6. QED
  BY <1>4, <1>5

(* A candidate that is skipped is passed over; when all are, there are     *)
(* none, for one would have been marked.                                   *)
LEMMA SkipPolicy ==
  ASSUME Inv, ~PerEventMode, policy \in Policies, PassedOver, Skip, 0 \in GetActions,
         UNCHANGED policy
  PROVE  PassedOver' /\ WorkConserving'
<1>1. /\ Deciding /\ Advance(action_counter + 1)
      /\ UNCHANGED <<waiting, busy_on, action_queue, next_fil_job_type>>
  BY DEF Skip, PassOver
<1>2. AtRest /\ AtRest'
  BY <1>1, DecidesAtRest DEF Inv, AtRest
<1>3. /\ waiting \in Lines /\ busy_on \in Busy /\ action_counter \in Nat
      /\ action_queue = CandidateQueue(waiting, busy_on)
  BY <1>2, QueueShown
<1>4. Len(action_queue) \in Nat
  BY <1>3, QueueListsCandidates
<1> SUFFICES ASSUME Deterministic PROVE PassedOver' /\ WorkConserving'
  BY DEF PassedOver, WorkConserving, Deterministic
<1>5. \A i \in 1 .. action_counter + 1 : ~ Marked(policy, action_queue[i])
  <2>1. ~ Marked(policy, Current)
    <3>1. 0 \notin {1}
      OBVIOUS
    <3> QED
      BY <1>1, <3>1, MarkAnswers
  <2>2. \A i \in 1 .. action_counter : ~ Marked(policy, action_queue[i])
    BY <1>2 DEF PassedOver
  <2>3. \A i \in 1 .. action_counter + 1 : i \in 1 .. action_counter \/ i = action_counter + 1
    BY <1>3
  <2> QED
    BY <2>1, <2>2, <2>3, Zenon DEF Current
<1>6. PassedOver'
  <2> SUFFICES ASSUME NEW i \in 1 .. action_counter' PROVE ~ Marked(policy', action_queue'[i])
    BY DEF PassedOver
  <2>1. action_counter' \in {0, action_counter + 1}
    BY <1>1 DEF Advance
  <2>2. i \in 1 .. action_counter + 1
    BY <1>3, <2>1
  <2> QED
    BY <1>1, <1>5, <2>2
<1>7. WorkConserving'
  <2> SUFFICES ASSUME cat' = "AwaitEvent" PROVE Candidates(waiting, busy_on) = {}
    BY <1>1 DEF WorkConserving
  <2>1. ~ (action_counter + 1 < Len(action_queue))
    BY <1>1 DEF Advance
  <2>2. \A i \in 1 .. Len(action_queue) : i \in 1 .. action_counter + 1
    BY <1>3, <1>4, <2>1
  <2> QED
    BY <1>3, <1>5, <2>2, SomeMarked
<1>8. QED
  BY <1>6, <1>7

-----------------------------------------------------------------------------
(* Every step of a heuristic's run keeps what it has passed over. *)
LEMMA NextPassedOver ==
  ASSUME Inv, Inv', ~PerEventMode, PolicyInv, [PolicyNext]_policyVars, policy' = policy
  PROVE  PassedOver' /\ WorkConserving'
<1>1. policy \in Policies /\ PassedOver /\ WorkConserving
  BY DEF PolicyInv, PolicyTypeOK
<1>2. ASSUME Serve PROVE PassedOver' /\ WorkConserving'
  <2>1. Deciding /\ next_fil_job_type' = Current.n /\ AtRest
    BY <1>2, DecidesAtRest DEF Serve, StartCandidate, Inv
  <2>2. Current.n \in Jobs
    <3>1. CanAssign(busy_on, Current.k, Current.n) /\ Current.k \in Pools
      BY <2>1, EntriesStartable, CurrentIsEntry DEF Current, Inv, Entry
    <3> QED
      BY <3>1, StaticAssumption DEF CanAssign
  <2>3. ~ AtRest'
    BY <2>1, <2>2, TypeNumber DEF AtRest, None
  <2> QED
    BY <2>3 DEF PassedOver, WorkConserving
<1>3. ASSUME PolicyDecides PROVE PassedOver' /\ WorkConserving'
  <2>1. CASE 0 \in GetActions /\ Skip
    BY <1>1, <2>1, SkipPolicy
  <2>2. CASE Serve
    BY <1>2, <2>2
  <2> QED
    BY <1>3, <2>1, <2>2, WhatPolicyDecides DEF PolicyInv, Starts, StartType
<1>4. ASSUME FilRefresh PROVE PassedOver' /\ WorkConserving'
  <2>1. StartEpoch(waiting', busy_on) /\ busy_on' = busy_on
    BY <1>4 DEF FilRefresh
  <2> QED
    BY <1>1, <2>1, StartEpochPolicy
<1>5. ASSUME UniformizedEvent PROVE PassedOver' /\ WorkConserving'
  <2>1. cat = "AwaitEvent" /\ next_fil_job_type = None
    BY <1>5 DEF UniformizedEvent, Happens
  <2>2. ASSUME NEW n \in Jobs, HandleArrival(n) PROVE PassedOver' /\ WorkConserving'
    <3>1. StartEpoch(waiting', busy_on) /\ busy_on' = busy_on
      BY <2>2 DEF HandleArrival
    <3> QED
      BY <1>1, <3>1, StartEpochPolicy
  <2>3. ASSUME NEW k, NEW n, HandleCompletion(k, n) PROVE PassedOver' /\ WorkConserving'
    <3>1. StartEpoch(waiting, busy_on') /\ waiting' = waiting
      BY <2>3 DEF HandleCompletion
    <3> QED
      BY <1>1, <3>1, StartEpochPolicy
  <2>4. HandleTick => PassedOver' /\ WorkConserving'
    BY <2>1, RepresentPolicy DEF HandleTick
  <2>5. HandleNothing => PassedOver' /\ WorkConserving'
    BY <2>1, RepresentPolicy DEF HandleNothing
  <2>6. TypeOK
    BY DEF Inv
  <2> QED
    BY <1>5, <2>2, <2>3, <2>4, <2>5, <2>6, EventCases
<1>6. ASSUME UNCHANGED policyVars PROVE PassedOver' /\ WorkConserving'
  BY <1>1, <1>6 DEF policyVars, PassedOver, WorkConserving, AtRest, Deterministic
<1>7. ASSUME NEW u \in 0 .. UniformizationRate - 1, Happens(u) PROVE UniformizedEvent
  BY <1>7 DEF UniformizedEvent
<1>8. QED
  BY <1>3, <1>4, <1>5, <1>6, <1>7 DEF PolicyNext

(* In per-event mode, the pass over the servers. *)
LEMMA NextPolicyPass ==
  ASSUME Inv, Inv', LineInv, PolicyInv, [PolicyNext]_policyVars
  PROVE  PassInv(Anybody)'
<1>1. Anybody \in DueTimes /\ PassInv(Anybody)
  BY AnybodyIsDue DEF PolicyInv
<1>2. (0 \in GetActions /\ Skip)
        => (PerEventMode => Overdue(waiting, busy_on, Current.k, Anybody) = {})
  <2>1. Skip => Deciding
    BY DEF Skip, PassOver
  <2> QED
    BY <2>1, IdlesForNobody
<1>3. ASSUME NEW u \in 0 .. UniformizationRate - 1, Happens(u) PROVE UniformizedEvent
  BY <1>3 DEF UniformizedEvent
<1>4. UNCHANGED policyVars => UNCHANGED vars
  BY DEF policyVars, vars
<1>5. \/ Serve \/ SkipAll \/ (\E n \in Jobs : Starts(n))
      \/ Skip /\ (PerEventMode => Overdue(waiting, busy_on, Current.k, Anybody) = {})
      \/ FilRefresh \/ UniformizedEvent \/ UNCHANGED vars
  BY <1>2, <1>3, <1>4, WhatPolicyDecides DEF PolicyNext, PolicyInv
<1>6. QED
  BY <1>1, <1>5, NextPass

LEMMA NextPolicy ==
  ASSUME Inv, Inv', LineInv, PolicyInv, [PolicyNext]_policyVars
  PROVE  PolicyInv'
<1>1. PolicyTypeOK' /\ policy' = policy
  BY PolicyTypeKept DEF PolicyInv
<1>2. PassInv(Anybody)'
  BY NextPolicyPass
<1>3. CASE ~PerEventMode
  BY <1>1, <1>2, <1>3, NextPassedOver DEF PolicyInv
<1>4. CASE PerEventMode
  <2>1. PassedOver'
    BY <1>4 DEF PassedOver
  <2>2. OutsideAPass(Anybody)'
    BY <1>2, <1>4 DEF PassInv
  <2>3. waiting' \in Lines
    BY DEF Inv, TypeOK, Lines
  <2>4. WorkConserving'
    BY <2>2, <2>3, OverdueAnybody DEF OutsideAPass, WorkConserving
  <2> QED
    BY <1>1, <1>2, <2>1, <2>4 DEF PolicyInv
<1>5. QED
  BY <1>3, <1>4

LEMMA InitPolicy == PolicyInit => PolicyInv
<1> SUFFICES ASSUME PolicyInit PROVE PolicyInv
  OBVIOUS
<1>1. Init /\ policy \in Policies /\ draws = Unread
  BY DEF PolicyInit
<1>2. PolicyTypeOK
  BY <1>1 DEF PolicyTypeOK, Unread
<1>3. PassInv(Anybody)
  BY <1>1, AnybodyIsDue, InitPass
<1>4. PassedOver
  BY <1>1 DEF Init, PassedOver
<1>5. WorkConserving
  <2>1. \A n \in Jobs : FIL(waiting)[n] = -1
    BY <1>1 DEF Init, FIL, None
  <2> QED
    BY <2>1 DEF WorkConserving, Candidates
<1>6. QED
  BY <1>2, <1>3, <1>4, <1>5 DEF PolicyInv

(* The invariants of the simulator and that of the heuristic hold in each  *)
(* run of a heuristic.                                                     *)
(* The inductive invariant of a behaviour that a heuristic decides. *)
DecidedInv == Inv /\ LineInv /\ PolicyInv

LEMMA InitDecided == PolicyInit => DecidedInv
BY InitTyped, InitEpoch, InitLine, InitPolicy DEF PolicyInit, Inv, DecidedInv

LEMMA NextDecided == DecidedInv /\ [PolicyNext]_policyVars => DecidedInv'
BY PolicySteps, AnyEpoch, AnyLine, NextPolicy DEF DecidedInv, PolicyInv

LEMMA PolicySound == PolicySpec => []DecidedInv
BY InitDecided, NextDecided, PTL DEF PolicySpec

-----------------------------------------------------------------------------
(* A heuristic answers allowed actions only, which the loops that ask it   *)
(* rely on.  The exception is the FIFO policy under forced late service,   *)
(* which may answer another type than the one that is forced.              *)
LEMMA AnswersLegal == DecidedInv => ((ForceLateService => policy = "cmu") => PolicyLegal)
BY AnswerAllowed DEF DecidedInv, PolicyInv, PolicyLegal

THEOREM AnswersAreAllowed == PolicySpec => []((ForceLateService => policy = "cmu") => PolicyLegal)
BY AnswersLegal, PolicySound, PTL

(* No deterministic heuristic lets the process go on while a server is     *)
(* idle that could start a waiting job, in either mode.                    *)
LEMMA ConservesWork == DecidedInv => WorkConserving
BY DEF DecidedInv, PolicyInv

THEOREM NoServerIdles == PolicySpec => []WorkConserving
BY ConservesWork, PolicySound, PTL

(* With the oldest shown first, the enforced FIFO policy serves whatever   *)
(* it is shown: it skips nothing, so it is only shown the first, which has *)
(* its mark.                                                               *)
ServesByAge == policy \in {"FIFO policy", "enforced_fifo"}

LEMMA FirstIsMarked ==
  ASSUME NEW e, e.fifo, ServesByAge
  PROVE  Marked(policy, e) /\ Deterministic
BY DEF Marked, Deterministic, ServesByAge

LEMMA OnlyFirstShown ==
  ASSUME Inv, PolicyInv, Deciding, ~PerEventMode, SortDescending, ServesByAge
  PROVE  /\ action_counter = 0 /\ Current = action_queue[1] /\ AtRest
         /\ Len(action_queue) > 0 /\ Marked(policy, Current)
<1>1. AtRest /\ action_counter < Len(action_queue)
  BY DecidesAtRest DEF Inv, Deciding
<1>2. /\ waiting \in Lines /\ busy_on \in Busy /\ action_counter \in Nat
      /\ action_queue = CandidateQueue(waiting, busy_on)
  BY <1>1, QueueShown
<1>3. Len(action_queue) > 0
  <2>1. Len(action_queue) \in Nat
    BY <1>2, QueueListsCandidates
  <2> QED
    BY <1>1, <1>2, <2>1
<1>4. Marked(policy, action_queue[1])
  <2>1. action_queue[1].fifo
    BY <1>2, <1>3, FirstIsOldest
  <2> QED
    BY <2>1, FirstIsMarked
<1>5. Deterministic
  <2>1. action_queue[1].fifo
    BY <1>2, <1>3, FirstIsOldest
  <2> QED
    BY <2>1, FirstIsMarked
<1>6. action_counter = 0
  <2> SUFFICES ASSUME action_counter # 0 PROVE FALSE
    OBVIOUS
  <2>1. 1 \in 1 .. action_counter
    BY <1>2
  <2> QED
    BY <1>1, <1>4, <1>5, <2>1 DEF PolicyInv, PassedOver
<1>7. QED
  BY <1>1, <1>3, <1>4, <1>6 DEF Current

(* With the oldest candidate first, enforced FIFO decides as the greedy    *)
(* FIFO policy does.                                                       *)
LEMMA EnforcedGreedy == DecidedInv => EnforcedIsGreedy
<1> SUFFICES ASSUME Inv, PolicyInv, policy = "enforced_fifo", SortDescending, Deciding
             PROVE  1 \in GetActions
  BY DEF DecidedInv, EnforcedIsGreedy
<1>1. policy \in Policies
  BY DEF PolicyInv, PolicyTypeOK
<1>2. ~PerEventMode /\ Deterministic
  BY <1>1, PolicyCases
<1>3. Marked(policy, Current)
  BY <1>2, OnlyFirstShown DEF ServesByAge
<1> QED
  BY <1>1, <1>2, <1>3, MarkAnswers

THEOREM EnforcedServesWhatItIsShown == PolicySpec => []EnforcedIsGreedy
BY EnforcedGreedy, PolicySound, PTL

-----------------------------------------------------------------------------
(* A heuristic's step that starts a job serves the candidate shown, as its *)
(* mark says, or the type it chose.                                        *)
LEMMA WhoIsStarted ==
  ASSUME Inv, Inv', PolicyInv, [PolicyNext]_policyVars, AtRest, next_fil_job_type' # None
  PROVE  /\ Deciding
         /\ \/ /\ ~PerEventMode /\ next_fil_job_type' = Current.n
               /\ Deterministic => Marked(policy, Current)
            \/ /\ PerEventMode
               /\ \E n \in Jobs : /\ n + 1 \in GetActions /\ next_fil_job_type' = n
                                  /\ CouldStart(n)
<1>1. next_fil_job_type = None
  BY DEF AtRest
<1>2. PolicyDecides
  <2>1. ASSUME NEW u, Happens(u) PROVE next_fil_job_type' = None
    BY <1>1, <2>1 DEF Happens, HandleEvent, HandleArrival, HandleCompletion, HandleTick, HandleNothing
  <2> QED
    BY <1>1, <2>1 DEF PolicyNext, FilRefresh, policyVars
<1>3. CASE 1 \in GetActions /\ Serve
  <2>1. Deciding /\ ~PerEventMode /\ next_fil_job_type' = Current.n
    BY <1>3 DEF Serve, StartCandidate
  <2>2. Deterministic => Marked(policy, Current)
    <3>1. 1 \notin {0}
      OBVIOUS
    <3> QED
      BY <1>3, <2>1, <3>1, MarkAnswers DEF PolicyInv, PolicyTypeOK
  <2> QED
    BY <2>1, <2>2
<1>4. ASSUME NEW n \in Jobs, n + 1 \in GetActions, Starts(n)
      PROVE  /\ Deciding /\ PerEventMode /\ n + 1 \in GetActions
             /\ next_fil_job_type' = n /\ CouldStart(n)
  BY <1>4 DEF Starts, StartType
<1>5. ~Skip
  BY <1>1 DEF Skip, PassOver
<1>6. QED
  BY <1>2, <1>3, <1>4, <1>5, WhatPolicyDecides DEF PolicyInv

(* The types that could start and are better are among the rivals. *)
LEMMA BetterAreRivals ==
  ASSUME Inv, NEW k \in Pools, NEW n
  PROVE  /\ policy \in {"FIFO policy", "enforced_fifo"} =>
              Better(k, n) = {m \in Rivals(waiting, busy_on, k) : FIL(waiting)[m] > FIL(waiting)[n]}
         /\ policy = "cmu" =>
              Better(k, n) = {m \in Rivals(waiting, busy_on, k) : CMu(k, m) > CMu(k, n)}
         /\ policy = "reverse_fifo" =>
              Better(k, n) = {m \in Rivals(waiting, busy_on, k) : FIL(waiting)[m] < FIL(waiting)[n]}
         /\ policy = "stochastic_FIFO" => Better(k, n) = {}
<1> DEFINE R == Rivals(waiting, busy_on, k)
<1>1. waiting \in Lines /\ busy_on \in Busy
  BY DEF Inv, TypeOK, Lines, Busy
<1>2. R \subseteq Jobs /\ \A m \in Jobs : m \in R <=> waiting[m] # <<>> /\ CanAssign(busy_on, k, m)
  BY <1>1, RivalsType
<1> HIDE DEF R
<1>3. ASSUME policy \in {"FIFO policy", "enforced_fifo"}
      PROVE  Better(k, n) = {m \in R : FIL(waiting)[m] > FIL(waiting)[n]}
  BY <1>2, <1>3 DEF Better
<1>4. ASSUME policy = "cmu"
      PROVE  Better(k, n) = {m \in R : CMu(k, m) > CMu(k, n)}
  BY <1>2, <1>4 DEF Better
<1>5. ASSUME policy = "reverse_fifo"
      PROVE  Better(k, n) = {m \in R : FIL(waiting)[m] < FIL(waiting)[n]}
  BY <1>2, <1>5 DEF Better
<1>6. ASSUME policy = "stochastic_FIFO" PROVE Better(k, n) = {}
  BY <1>6 DEF Better
<1>7. QED
  BY <1>3, <1>4, <1>5, <1>6 DEF R

-----------------------------------------------------------------------------
(* The candidate shown could start now, and its labels are those of now.   *)
LEMMA ShownIsCandidate ==
  ASSUME Inv, Deciding, ~PerEventMode
  PROVE  /\ waiting \in Lines /\ busy_on \in Busy
         /\ <<Current.k, Current.n>> \in Candidates(waiting, busy_on)
         /\ Current = Labelled(waiting, busy_on, <<Current.k, Current.n>>)
         /\ Current.k \in Pools /\ Current.n \in Rivals(waiting, busy_on, Current.k)
         /\ Capacity(busy_on, Current.k) > 0
<1>1. AtRest /\ action_counter < Len(action_queue)
  BY DecidesAtRest DEF Inv, Deciding
<1>2. /\ waiting \in Lines /\ busy_on \in Busy /\ action_counter \in Nat
      /\ action_queue = CandidateQueue(waiting, busy_on)
  BY <1>1, QueueShown
<1>3. Len(action_queue) \in Nat
  BY <1>2, QueueListsCandidates
<1>4. action_counter + 1 \in 1 .. Len(action_queue)
  BY <1>1, <1>2, <1>3
<1>5. /\ <<Current.k, Current.n>> \in Candidates(waiting, busy_on)
      /\ Current = Labelled(waiting, busy_on, <<Current.k, Current.n>>)
  BY <1>2, <1>4, QueueListsCandidates DEF Current
<1>6. Current.k \in Pools /\ Current.n \in Rivals(waiting, busy_on, Current.k)
  BY <1>5 DEF Candidates, Rivals
<1>7. Capacity(busy_on, Current.k) > 0
  BY <1>2, <1>6, RivalsType
<1>8. QED
  BY <1>2, <1>5, <1>6, <1>7

(* No candidate is older than the one greedy FIFO serves, as long as the   *)
(* oldest is shown first.                                                  *)
LEMMA GreedyServesOldest ==
  ASSUME Inv, PolicyInv, Deciding, ~PerEventMode, SortDescending, ServesByAge
  PROVE  \A c \in Candidates(waiting, busy_on) : FIL(waiting)[c[2]] <= FIL(waiting)[Current.n]
<1>1. /\ Current = action_queue[1] /\ AtRest /\ Len(action_queue) > 0
  BY OnlyFirstShown
<1>2. /\ waiting \in Lines /\ busy_on \in Busy
      /\ action_queue = CandidateQueue(waiting, busy_on)
  BY <1>1, QueueShown
<1>3. QED
  BY <1>1, <1>2, FirstIsOldest

(* Of a server's types, the better ones are none when the choice is made   *)
(* per event.                                                              *)
LEMMA NoneBetterPerEvent ==
  ASSUME Inv, policy \in Policies, PerEventMode, Deciding, ~OrderOverruled,
         NEW n \in Jobs, n + 1 \in GetActions
  PROVE  Better(Current.k, n) = {}
<1>1. n \in Nat /\ n + 1 # 0 /\ PerEventAction = n + 1
  BY TypeNumber DEF GetActions
<1>2. Choices # {}
  BY <1>1, PerEventChoice
<1>3. PICK j \in Choices : PerEventAction = j + 1 /\ \A m \in Choices : Key[m] <= Key[j]
  BY <1>2, PerEventChoice
<1>4. j = n /\ j \in Jobs
  <2>1. j \in Jobs
    BY <1>3, PerEventChoice
  <2> QED
    BY <1>1, <1>3, <2>1, TypeNumber
<1>5. \A m \in Choices : Key[m] <= Key[n]
  BY <1>3, <1>4
<1>6. policy = "FIFO policy" \/ policy = "cmu"
  BY DEF Policies
<1>7. policy = "FIFO policy" \/ LateFor(Current.k) = {}
  BY <1>6 DEF OrderOverruled, LateFor
<1>8. ASSUME NEW m \in Jobs, waiting[m] # <<>>, CanAssign(busy_on, Current.k, m)
      PROVE  m \in Choices
  BY <1>7, <1>8, StartableIsChosen DEF CouldStart
<1>9. \A m \in Jobs : Key[m] \in Int
  BY PerEventChoice
<1>10. ASSUME NEW m \in Jobs, waiting[m] # <<>>, CanAssign(busy_on, Current.k, m)
       PROVE  Key[m] <= Key[n] /\ ~(Key[m] > Key[n])
  BY <1>5, <1>8, <1>9, <1>10
<1>11. CASE policy = "FIFO policy"
  <2>1. \A m \in Jobs : Key[m] = FIL(waiting)[m]
    BY <1>11, PerEventChoice
  <2>2. Better(Current.k, n) = {m \in Jobs : /\ waiting[m] # <<>> /\ CanAssign(busy_on, Current.k, m)
                                             /\ FIL(waiting)[m] > FIL(waiting)[n]}
    BY <1>11 DEF Better
  <2>3. Better(Current.k, n) = {m \in Jobs : /\ waiting[m] # <<>> /\ CanAssign(busy_on, Current.k, m)
                                             /\ Key[m] > Key[n]}
    BY <2>1, <2>2
  <2> QED
    BY <1>10, <2>3
<1>12. CASE policy = "cmu"
  <2>1. \A m \in Jobs : Key[m] = CMu(Current.k, m)
    BY <1>12, PerEventChoice
  <2>2. Better(Current.k, n) = {m \in Jobs : /\ waiting[m] # <<>> /\ CanAssign(busy_on, Current.k, m)
                                             /\ CMu(Current.k, m) > CMu(Current.k, n)}
    BY <1>12 DEF Better
  <2>3. Better(Current.k, n) = {m \in Jobs : /\ waiting[m] # <<>> /\ CanAssign(busy_on, Current.k, m)
                                             /\ Key[m] > Key[n]}
    BY <2>1, <2>2
  <2> QED
    BY <1>10, <2>3
<1>13. QED
  BY <1>6, <1>11, <1>12

(* Of the candidate's pool, fewer types than it has free servers are       *)
(* better: the mark says so, or the candidate is the oldest there is.      *)
LEMMA FewBetterShown ==
  ASSUME Inv, PolicyInv, Deciding, ~PerEventMode, ~GreedyAscending,
         Deterministic => Marked(policy, Current)
  PROVE  Cardinality(Better(Current.k, Current.n)) < Capacity(busy_on, Current.k)
<1> DEFINE k == Current.k
           n == Current.n
           S == Rivals(waiting, busy_on, k)
<1>1. /\ Current = Labelled(waiting, busy_on, <<k, n>>)
      /\ k \in Pools /\ Capacity(busy_on, k) > 0
  BY ShownIsCandidate
<1>2. Better(k, n) = {} => Cardinality(Better(k, n)) < Capacity(busy_on, k)
  <2> HIDE DEF k, n
  <2>1. Cardinality({}) = 0
    BY FS_EmptySet
  <2> QED
    BY <1>1, <2>1
<1>3. /\ Current.fifo => Cardinality({m \in S : FIL(waiting)[m] > FIL(waiting)[n]}) < Capacity(busy_on, k)
      /\ Current.cmu => Cardinality({m \in S : CMu(k, m) > CMu(k, n)}) < Capacity(busy_on, k)
      /\ Current.rfq => Cardinality({m \in S : FIL(waiting)[m] < FIL(waiting)[n]}) < Capacity(busy_on, k)
  BY <1>1, HintsSay
<1>4. policy \in Policies
  BY DEF PolicyInv, PolicyTypeOK
<1>5. CASE policy = "stochastic_FIFO"
  BY <1>1, <1>2, <1>5, BetterAreRivals
<1>6. CASE policy = "FIFO policy"
  <2>1. SortDescending /\ ServesByAge
    BY <1>6 DEF GreedyAscending, ServesByAge
  <2>2. \A c \in Candidates(waiting, busy_on) : FIL(waiting)[c[2]] <= FIL(waiting)[n]
    BY <2>1, GreedyServesOldest
  <2>3. \A m \in S : ~(FIL(waiting)[m] > FIL(waiting)[n])
    <3>1. waiting \in Lines /\ busy_on \in Busy /\ n \in S
      BY ShownIsCandidate
    <3>2. \A m \in S : FIL(waiting)[m] <= FIL(waiting)[n]
      BY <2>2 DEF Rivals
    <3>3. \A m \in S : FIL(waiting)[m] \in Nat
      BY <1>1, <3>1, RivalsType
    <3> HIDE DEF S, n
    <3> QED
      BY <3>1, <3>2, <3>3
  <2>4. Better(k, n) = {m \in S : FIL(waiting)[m] > FIL(waiting)[n]}
    BY <1>1, <1>6, BetterAreRivals
  <2>5. Better(k, n) = {}
    <3> HIDE DEF S, n, k
    <3> QED BY <2>3, <2>4
  <2> QED
    BY <1>2, <2>5
<1>7. CASE policy = "enforced_fifo"
  <2>1. Current.fifo
    BY <1>7 DEF Deterministic, Marked
  <2> QED
    BY <1>1, <1>3, <1>7, <2>1, BetterAreRivals
<1>8. CASE policy = "cmu"
  <2>1. Current.cmu
    BY <1>8 DEF Deterministic, Marked
  <2> QED
    BY <1>1, <1>3, <1>8, <2>1, BetterAreRivals
<1>9. CASE policy = "reverse_fifo"
  <2>1. Current.rfq
    BY <1>9 DEF Deterministic, Marked
  <2> QED
    BY <1>1, <1>3, <1>9, <2>1, BetterAreRivals
<1>10. QED
  BY <1>4, <1>5, <1>6, <1>7, <1>8, <1>9 DEF Policies

(* Every heuristic serves in the order it is named after: when a job is    *)
(* started, fewer types that it ranks higher wait for the pool than the    *)
(* pool has free servers.                                                  *)
LEMMA ServesItsOrder ==
  DecidedInv /\ DecidedInv' /\ [PolicyNext]_policyVars => ServesInOrder
<1> SUFFICES ASSUME Inv, Inv', PolicyInv, [PolicyNext]_policyVars,
                    AtRest, next_fil_job_type' # None, ~GreedyAscending, ~OrderOverruled
             PROVE  Cardinality(Better(Current.k, next_fil_job_type'))
                      < Capacity(busy_on, Current.k)
  BY DEF DecidedInv, ServesInOrder
<1>1. Deciding
  BY WhoIsStarted
<1>2. CASE ~PerEventMode
  <2>1. next_fil_job_type' = Current.n /\ (Deterministic => Marked(policy, Current))
    BY <1>2, WhoIsStarted
  <2> QED
    BY <1>1, <1>2, <2>1, FewBetterShown
<1>3. CASE PerEventMode
  <2>1. PICK n \in Jobs : /\ n + 1 \in GetActions /\ next_fil_job_type' = n
                          /\ CouldStart(n)
    BY <1>3, WhoIsStarted
  <2>2. Better(Current.k, n) = {}
    BY <1>1, <1>3, <2>1, NoneBetterPerEvent DEF PolicyInv, PolicyTypeOK
  <2>3. CanAssign(busy_on, Current.k, n)
    BY <2>1 DEF CouldStart
  <2>4. Capacity(busy_on, Current.k) > 0
    <3>1. Current.k \in Pools /\ busy_on \in Busy
      BY <1>1, <1>3, PerEventChoice DEF Inv, TypeOK, Busy
    <3>2. BusyIn(busy_on, Current.k) \in Int /\ Servers[Current.k] \in Int
      BY <3>1, BusyInType, StaticAssumption
    <3> QED
      BY <2>3, <3>2 DEF CanAssign, Capacity
  <2>5. Cardinality({}) = 0
    BY FS_EmptySet
  <2> QED
    BY <2>1, <2>2, <2>4, <2>5
<1> QED
  BY <1>2, <1>3

THEOREM OrdersAreHonoured == PolicySpec => HonoursItsOrder
BY ServesItsOrder, PolicySound, PTL DEF HonoursItsOrder, PolicySpec

(* With the oldest shown first, greedy FIFO starts the oldest of all jobs  *)
(* that some free server could start.                                      *)
LEMMA StartsOldest ==
  SortDescending /\ DecidedInv /\ DecidedInv' /\ [PolicyNext]_policyVars => ServesOldest
<1> SUFFICES ASSUME SortDescending, Inv, Inv', PolicyInv, [PolicyNext]_policyVars,
                    policy = "FIFO policy", AtRest, next_fil_job_type' # None, ~PerEventMode
             PROVE  \A c \in Candidates(waiting, busy_on) :
                      FIL(waiting)[c[2]] <= FIL(waiting)[next_fil_job_type']
  BY DEF DecidedInv, ServesOldest
<1>1. Deciding /\ next_fil_job_type' = Current.n
  BY WhoIsStarted
<1>2. ServesByAge
  BY DEF ServesByAge
<1> QED
  BY <1>1, <1>2, GreedyServesOldest

THEOREM OldestFirst == SortDescending => (PolicySpec => FifoServesOldest)
<1> SUFFICES ASSUME SortDescending PROVE PolicySpec => FifoServesOldest
  OBVIOUS
<1>1. DecidedInv /\ DecidedInv' /\ [PolicyNext]_policyVars => ServesOldest
  BY StartsOldest
<1>2. QED
  BY <1>1, PolicySound, PTL DEF FifoServesOldest, PolicySpec
=============================================================================
