----------------------------- MODULE RingLemmas -----------------------------
(***************************************************************************)
(* Facts that the proofs about rings, windows and tables rest on: least    *)
(* elements, division with remainder by a ring's capacity, sets of numbers *)
(* laid out in ascending order, induction over numbers and over the        *)
(* subsets of a finite set, what a sum is when an element comes, goes or   *)
(* counts for nothing, and, at the end, open addressing tables.            *)
(***************************************************************************)
EXTENDS Ascending, FiniteSetsExt, FiniteSetTheorems, WellFoundedInduction, TLAPS

\* A set of naturals with an element has a least one, and Min is it.
LEMMA MinOfNaturals ==
  ASSUME NEW S \in SUBSET Nat, S # {}
  PROVE  Min(S) \in S /\ \A m \in S : Min(S) <= m
<1> DEFINE R == {ss \in Nat \X Nat : ss[1] < ss[2]}
<1>1. IsWellFoundedOn(R, Nat)
  BY NatLessThanWellFounded DEF OpToRel
<1>2. \E x \in S : \A y \in S : ~ (<<y, x>> \in R)
  <2> HIDE DEF R
  <2> QED BY <1>1, WFMin
<1>3. PICK x \in S : \A y \in S : ~ (<<y, x>> \in R)
  BY <1>2
<1>4. ASSUME NEW y \in S PROVE x <= y
  <2>1. y < x => <<y, x>> \in R
    OBVIOUS
  <2> QED BY <2>1, <1>3
<1> QED BY <1>4 DEF Min

\* A set of naturals with an element and a bound has a greatest one.
LEMMA GreatestOfNaturals ==
  ASSUME NEW S \in SUBSET Nat, S # {}, NEW b \in Nat, \A m \in S : m <= b
  PROVE  \E x \in S : \A y \in S : y <= x
<1> DEFINE U == {u \in Nat : \A m \in S : m <= u}
<1>1. Min(U) \in U /\ \A u \in U : Min(U) <= u
  <2>1. U \in SUBSET Nat /\ U # {}
    OBVIOUS
  <2> HIDE DEF U
  <2> QED BY <2>1, MinOfNaturals
<1>2. Min(U) \in S
  <2> SUFFICES ASSUME Min(U) \notin S PROVE FALSE
    OBVIOUS
  <2> DEFINE u == Min(U)
  <2>1. u \in U /\ (\A w \in U : u <= w) /\ u \notin S
    BY <1>1
  <2> HIDE DEF u
  <2>2. \A m \in S : m <= u - 1 /\ m >= 0
    BY <2>1
  <2>3. u - 1 \in Nat
    <3>1. PICK m \in S : TRUE
      OBVIOUS
    <3>2. m \in Nat /\ m <= u - 1 /\ u \in Nat
      BY <2>1, <2>2, <3>1
    <3> QED BY <3>2
  <2>4. u - 1 \in U
    BY <2>2, <2>3
  <2> QED BY <2>1, <2>4
<1> QED BY <1>1, <1>2

-----------------------------------------------------------------------------
\* A number is its quotient times the divisor plus its remainder.
LEMMA Division ==
  ASSUME NEW c \in Nat \ {0}, NEW s \in Nat
  PROVE  /\ s \div c \in Nat
         /\ s % c \in 0 .. c - 1
         /\ s = c * (s \div c) + (s % c)
OBVIOUS

\* A multiple of c that is not zero is at least c.
LEMMA ProductGrows ==
  ASSUME NEW c \in Nat, NEW p \in Int, NEW q \in Int, p > q
  PROVE  c * p >= c * q + c
<1>1. c * (p - q - 1) >= 0
  <2>1. p - q - 1 \in Nat
    OBVIOUS
  <2>2. \A a, b \in Nat : a * b >= 0
    OBVIOUS
  <2> QED BY <2>1, <2>2
<1>2. c * (p - q - 1) = c * p - c * q - c
  OBVIOUS
<1>3. c * p \in Int /\ c * q \in Int
  OBVIOUS
<1> QED BY <1>1, <1>2, <1>3

\* Two numbers less than a lap apart never share a slot.
LEMMA SlotsDiffer ==
  ASSUME NEW c \in Nat \ {0}, NEW s \in Nat, NEW t \in Nat, s < t, t < s + c
  PROVE  s % c # t % c
<1> SUFFICES ASSUME s % c = t % c PROVE FALSE
  OBVIOUS
<1>1. s = c * (s \div c) + (s % c) /\ t = c * (t \div c) + (t % c)
  BY Division
<1>2. s \div c \in Nat /\ t \div c \in Nat /\ s % c \in 0 .. c - 1
  BY Division
<1>3. ~ t \div c > s \div c
  BY <1>1, <1>2, ProductGrows
<1>4. ~ s \div c > t \div c
  BY <1>1, <1>2, ProductGrows
<1>5. s \div c = t \div c
  BY <1>2, <1>3, <1>4
<1> QED BY <1>1, <1>5

\* A lap later it is the same slot.
LEMMA SlotRepeats ==
  ASSUME NEW c \in Nat \ {0}, NEW s \in Nat
  PROVE  (s + c) % c = s % c
<1> DEFINE p == s \div c
           q == (s + c) \div c
           r == s % c
           t == (s + c) % c
<1>1. s = c * p + r /\ p \in Nat /\ r \in 0 .. c - 1
  BY Division
<1>2. s + c = c * q + t /\ q \in Nat /\ t \in 0 .. c - 1
  <2>1. s + c \in Nat
    OBVIOUS
  <2> QED BY <2>1, Division
<1> HIDE DEF p, q, r, t
<1>3. c * (p + 1) = c * p + c /\ c * p \in Int /\ c * q \in Int
  BY <1>1, <1>2
<1>4. ~ p + 1 > q
  <2> SUFFICES ASSUME p + 1 > q PROVE FALSE
    OBVIOUS
  <2>1. c * (p + 1) >= c * q + c
    BY <1>1, <1>2, ProductGrows
  <2> QED BY <1>1, <1>2, <1>3, <2>1
<1>5. ~ q > p + 1
  <2> SUFFICES ASSUME q > p + 1 PROVE FALSE
    OBVIOUS
  <2>1. c * q >= c * (p + 1) + c
    BY <1>1, <1>2, ProductGrows
  <2> QED BY <1>1, <1>2, <1>3, <2>1
<1>6. q = p + 1
  BY <1>1, <1>2, <1>4, <1>5
<1>7. r = t
  BY <1>1, <1>2, <1>3, <1>6
<1> QED BY <1>7 DEF r, t

-----------------------------------------------------------------------------
(***************************************************************************)
(* Ascending order.                                                        *)
(***************************************************************************)
\* The rank of an element is a number from 1 to the size of the set.
LEMMA RankFacts ==
  ASSUME NEW S \in SUBSET Nat, IsFiniteSet(S), NEW n \in Nat
  PROVE  /\ IsFiniteSet({m \in S : m <= n})
         /\ Rank(n, S) \in Nat
         /\ Rank(n, S) <= Cardinality(S)
<1>1. {m \in S : m <= n} \in SUBSET S
  OBVIOUS
<1> QED BY <1>1, FS_Subset, FS_CardinalityType DEF Rank

\* A greater element has a greater rank.
LEMMA RankGrows ==
  ASSUME NEW S \in SUBSET Nat, IsFiniteSet(S),
         NEW x \in S, NEW y \in S, x < y
  PROVE  Rank(x, S) < Rank(y, S)
<1> DEFINE X == {m \in S : m <= x}
           Y == {m \in S : m <= y}
<1>1. IsFiniteSet(X) /\ IsFiniteSet(Y)
  BY RankFacts
<1>2. X \in SUBSET Y /\ X # Y
  <2>1. y \in Y /\ y \notin X
    OBVIOUS
  <2>2. ASSUME NEW m \in S, m <= x PROVE m <= y
    BY <2>2
  <2> QED BY <2>1, <2>2
<1> HIDE DEF X, Y
<1>3. Cardinality(X) <= Cardinality(Y) /\ Cardinality(X) # Cardinality(Y)
  BY <1>1, <1>2, FS_Subset
<1>4. Cardinality(X) \in Nat /\ Cardinality(Y) \in Nat
  BY <1>1, FS_CardinalityType
<1> QED BY <1>3, <1>4 DEF Rank, X, Y

\* Every rank from 1 to the size of the set is taken.
LEMMA RankTaken ==
  ASSUME NEW S \in SUBSET Nat, IsFiniteSet(S), NEW b \in Nat,
         \A m \in S : m <= b, NEW i \in 1 .. Cardinality(S)
  PROVE  \E n \in S : Rank(n, S) = i
<1> DEFINE T == {n \in S : Rank(n, S) >= i}
<1>0. Cardinality(S) \in Nat
  BY FS_CardinalityType
<1>1. T # {}
  <2>1. S # {}
    BY <1>0, FS_EmptySet
  <2>2. PICK x \in S : \A y \in S : y <= x
    BY <2>1, GreatestOfNaturals
  <2>3. {m \in S : m <= x} = S
    BY <2>2
  <2>4. Rank(x, S) = Cardinality(S)
    BY <2>3 DEF Rank
  <2> QED BY <2>4, <1>0
<1>2. Min(T) \in T /\ \A m \in T : Min(T) <= m
  <2>1. T \in SUBSET Nat
    OBVIOUS
  <2> HIDE DEF T
  <2> QED BY <1>1, <2>1, MinOfNaturals
<1> DEFINE n == Min(T)
<1>3. n \in S /\ n \in Nat /\ Rank(n, S) >= i /\ \A m \in T : n <= m
  BY <1>2
<1> HIDE DEF n
<1>4. Rank(n, S) \in Nat
  BY <1>3, RankFacts
<1>5. CASE Rank(n, S) = i
  BY <1>3, <1>5
<1>6. CASE Rank(n, S) > i
  <2> DEFINE B == {m \in S : m < n}
  <2>1. {m \in S : m <= n} = B \cup {n} /\ n \notin B
    <3>1. ASSUME NEW m \in S, m <= n PROVE m < n \/ m = n
      BY <3>1, <1>3
    <3>2. ASSUME NEW m \in S, m < n PROVE m <= n
      BY <3>2, <1>3
    <3>3. n <= n /\ ~ n < n
      BY <1>3
    <3> QED BY <3>1, <3>2, <3>3, <1>3
  <2>2. B \in SUBSET S /\ B \in SUBSET Nat
    OBVIOUS
  <2>3. IsFiniteSet(B) /\ Cardinality(B) \in Nat
    BY <2>2, FS_Subset, FS_CardinalityType
  <2> HIDE DEF B
  <2>4. Rank(n, S) = Cardinality(B) + 1
    BY <2>1, <2>3, FS_AddElement DEF Rank
  <2>5. Cardinality(B) >= i
    BY <2>3, <2>4, <1>4, <1>6
  <2>6. B # {}
    BY <2>3, <2>5, FS_EmptySet
  <2>7. \A m \in B : m <= n
    BY <1>3 DEF B
  <2>8. PICK x \in B : \A y \in B : y <= x
    BY <2>2, <2>6, <2>7, <1>3, GreatestOfNaturals
  <2>9. {m \in S : m <= x} = B
    <3>1. ASSUME NEW m \in S, m <= x PROVE m < n
      BY <3>1, <2>8, <1>3 DEF B
    <3>2. ASSUME NEW m \in B PROVE m \in S /\ m <= x
      BY <3>2, <2>8 DEF B
    <3> QED BY <3>1, <3>2 DEF B
  <2>10. x \in T
    BY <2>9, <2>5, <2>2 DEF Rank
  <2> QED BY <2>10, <1>3, <2>8 DEF B
<1> QED BY <1>3, <1>4, <1>5, <1>6

\* InOrderOf(S) lists the elements of S, all of them, in ascending order.
LEMMA InOrderOfFacts ==
  ASSUME NEW S \in SUBSET Nat, IsFiniteSet(S), NEW b \in Nat,
         \A m \in S : m <= b
  PROVE  /\ Cardinality(S) \in Nat
         /\ DOMAIN InOrderOf(S) = 1 .. Cardinality(S)
         /\ \A i \in 1 .. Cardinality(S) :
              InOrderOf(S)[i] \in S /\ Rank(InOrderOf(S)[i], S) = i
         /\ \A i, j \in 1 .. Cardinality(S) :
              i < j => InOrderOf(S)[i] < InOrderOf(S)[j]
<1>1. Cardinality(S) \in Nat
  BY FS_CardinalityType
<1>2. ASSUME NEW i \in 1 .. Cardinality(S)
      PROVE  InOrderOf(S)[i] \in S /\ Rank(InOrderOf(S)[i], S) = i
  BY RankTaken DEF InOrderOf
<1>3. ASSUME NEW i \in 1 .. Cardinality(S), NEW j \in 1 .. Cardinality(S), i < j
      PROVE  InOrderOf(S)[i] < InOrderOf(S)[j]
  <2> DEFINE x == InOrderOf(S)[i]
             y == InOrderOf(S)[j]
  <2>1. x \in S /\ y \in S /\ Rank(x, S) = i /\ Rank(y, S) = j
    BY <1>2
  <2>2. i \in Nat /\ j \in Nat
    BY <1>1
  <2> HIDE DEF x, y
  <2>3. x # y
    BY <2>1, <2>2, <1>3
  <2>4. ~ y < x
    <3> SUFFICES ASSUME y < x PROVE FALSE
      OBVIOUS
    <3>1. Rank(y, S) < Rank(x, S)
      BY <2>1, RankGrows
    <3> QED BY <3>1, <2>1, <2>2, <1>3
  <2>5. x < y
    BY <2>1, <2>3, <2>4
  <2> QED BY <2>5 DEF x, y
<1>4. DOMAIN InOrderOf(S) = 1 .. Cardinality(S)
  BY DEF InOrderOf
<1> QED BY <1>1, <1>2, <1>3, <1>4

\* An interval in ascending order counts up from its first element.
LEMMA InOrderOfInterval ==
  ASSUME NEW lo \in Nat, NEW hi \in Nat, lo <= hi
  PROVE  /\ Cardinality(lo .. hi - 1) = hi - lo
         /\ \A i \in 1 .. hi - lo : InOrderOf(lo .. hi - 1)[i] = lo + i - 1
<1> DEFINE S == lo .. hi - 1
<1>1. IsFiniteSet(S) /\ Cardinality(S) = hi - lo
  <2> DEFINE h == hi - 1
  <2>1. lo \in Int /\ h \in Int
    OBVIOUS
  <2>2. (IF lo > h THEN 0 ELSE h - lo + 1) = hi - lo
    OBVIOUS
  <2>3. IsFiniteSet(lo .. h)
        /\ Cardinality(lo .. h) = IF lo > h THEN 0 ELSE h - lo + 1
    <3> HIDE DEF h
    <3> QED BY <2>1, FS_Interval
  <2> QED BY <2>2, <2>3
<1>2. S \in SUBSET Nat /\ \A m \in S : m <= hi
  OBVIOUS
<1>3. ASSUME NEW i \in 1 .. hi - lo
      PROVE  InOrderOf(S)[i] = lo + i - 1
  <2> DEFINE n == InOrderOf(S)[i]
  <2>1. n \in S /\ Rank(n, S) = i
    <3> HIDE DEF S
    <3> QED BY <1>1, <1>2, InOrderOfFacts
  <2> HIDE DEF n
  <2>2. {m \in S : m <= n} = lo .. n
    BY <2>1
  <2>3. Rank(n, S) = n - lo + 1
    <3>1. lo \in Int /\ n \in Int /\ ~ lo > n
      BY <2>1
    <3>2. Cardinality(lo .. n) = n - lo + 1
      BY <3>1, FS_Interval
    <3> QED BY <2>2, <3>2 DEF Rank
  <2>4. n = lo + i - 1
    BY <2>1, <2>3
  <2> QED BY <2>4 DEF n
<1> QED BY <1>1, <1>3

-----------------------------------------------------------------------------
(***************************************************************************)
(* Induction, for a set of numbers and for the subsets of a finite set.    *)
(***************************************************************************)
\* A set with zero in it, and with every number the next one, is all of them.
LEMMA CountingUp ==
  ASSUME NEW G, 0 \in G, \A n \in Nat : n \in G => n + 1 \in G
  PROVE  Nat \subseteq G
<1> DEFINE B == {n \in Nat : n \notin G}
<1>1. SUFFICES ASSUME B # {} PROVE FALSE
  OBVIOUS
<1>2. B \in SUBSET Nat
  OBVIOUS
<1>3. Min(B) \in B /\ \A m \in B : Min(B) <= m
  BY <1>1, <1>2, MinOfNaturals
<1>4. PICK k \in B : \A m \in B : k <= m
  BY <1>3
<1>5. k \in Nat /\ k \notin G /\ k # 0
  BY <1>4
<1>6. k - 1 \in Nat /\ k - 1 \notin B
  BY <1>4, <1>5
<1>7. k - 1 \in G
  BY <1>6
<1>8. (k - 1) + 1 \in G
  BY <1>6, <1>7
<1> QED BY <1>5, <1>8

\* w goes n steps from a in S, and step d takes what there is to F[d][that].
Follows(w, S, a, n, F) ==
  w \in [0 .. n -> S] /\ w[0] = a /\ \A d \in 1 .. n : w[d] = F[d][w[d - 1]]

\* Step by step there is such a sequence, of any length.
LEMMA Recursion ==
  ASSUME NEW S, NEW a \in S, NEW n \in Nat, NEW F \in [1 .. n -> [S -> S]]
  PROVE  \E w : Follows(w, S, a, n, F)
<1> DEFINE Upto(m, w) == w[0] = a /\ \A d \in 1 .. m : w[d] = F[d][w[d - 1]]
           N == {m \in Nat : m <= n => \E w \in [0 .. m -> S] : Upto(m, w)}
<1>1. 0 \in N
  <2> DEFINE w == [d \in 0 .. 0 |-> a]
  <2>1. w \in [0 .. 0 -> S] /\ Upto(0, w)
    OBVIOUS
  <2> QED BY <2>1
<1>2. ASSUME NEW m \in Nat, m \in N
      PROVE  m + 1 \in N
  <2> SUFFICES ASSUME m + 1 <= n
               PROVE  \E w \in [0 .. m + 1 -> S] : Upto(m + 1, w)
    OBVIOUS
  <2>1. PICK w \in [0 .. m -> S] : Upto(m, w)
    BY <1>2
  <2> DEFINE z == [d \in 0 .. m + 1 |-> IF d = m + 1 THEN F[m + 1][w[m]] ELSE w[d]]
  <2>2. w[m] \in S /\ m + 1 \in 1 .. n
    OBVIOUS
  <2>3. F[m + 1][w[m]] \in S
    BY <2>2
  <2>4. z \in [0 .. m + 1 -> S]
    BY <2>3
  <2>5. z[m + 1] = F[m + 1][w[m]] /\ \A d \in 0 .. m : z[d] = w[d]
    OBVIOUS
  <2> HIDE DEF z
  <2>6. Upto(m + 1, z)
    <3>1. z[0] = a
      BY <2>1, <2>5
    <3>2. ASSUME NEW d \in 1 .. m + 1
          PROVE  z[d] = F[d][z[d - 1]]
      <4>1. CASE d = m + 1
        <5>1. d - 1 = m /\ m \in 0 .. m
          BY <4>1
        <5> QED BY <2>5, <4>1, <5>1
      <4>2. CASE d # m + 1
        <5>1. d \in 1 .. m /\ d \in 0 .. m /\ d - 1 \in 0 .. m
          BY <4>2
        <5> QED BY <2>1, <2>5, <5>1
      <4> QED BY <4>1, <4>2
    <3> QED BY <3>1, <3>2
  <2> QED BY <2>4, <2>6
<1> HIDE DEF N
<1>3. n \in N
  BY <1>1, <1>2, CountingUp
<1> QED BY <1>3 DEF N, Follows

\* What holds of a subset as soon as it holds of all the smaller ones holds of all.
LEMMA SubsetsGrow ==
  ASSUME NEW S, IsFiniteSet(S), NEW G,
         \A s \in SUBSET S :
           (\A t \in SUBSET S : Cardinality(t) < Cardinality(s) => t \in G) => s \in G
  PROVE  SUBSET S \subseteq G
<1> DEFINE N == {n \in Nat : \A s \in SUBSET S : Cardinality(s) < n => s \in G}
<1>1. \A s \in SUBSET S : IsFiniteSet(s) /\ Cardinality(s) \in Nat
  BY FS_Subset, FS_CardinalityType
<1>2. 0 \in N
  <2>1. \A s \in SUBSET S : ~ Cardinality(s) < 0
    BY <1>1
  <2> QED BY <2>1
<1>3. ASSUME NEW n \in Nat, n \in N
      PROVE  n + 1 \in N
  <2>1. ASSUME NEW s \in SUBSET S, Cardinality(s) < n + 1
        PROVE  s \in G
    <3>1. \A t \in SUBSET S : Cardinality(t) < Cardinality(s) => Cardinality(t) < n
      BY <1>1, <2>1
    <3> QED BY <1>3, <3>1
  <2> QED BY <2>1
<1> HIDE DEF N
<1>4. Nat \subseteq N
  BY <1>2, <1>3, CountingUp
<1>5. ASSUME NEW s \in SUBSET S
      PROVE  s \in G
  <2>1. Cardinality(s) + 1 \in N /\ Cardinality(s) < Cardinality(s) + 1
    BY <1>1, <1>4
  <2> QED BY <2>1 DEF N
<1> QED BY <1>5

-----------------------------------------------------------------------------
(***************************************************************************)
(* Sums.                                                                   *)
(***************************************************************************)
\* The element that a sum takes first, and what is left when it has.
First(s) == CHOOSE x \in s : TRUE
Others(s) == s \ {First(s)}

\* it adds f up, for every subset of S.
AddsUp(f, S, it) ==
  it = [s \in SUBSET S |-> IF s = {} THEN 0 ELSE f[First(s)] + it[Others(s)]]

\* What is left is smaller.
LEMMA OthersFacts ==
  ASSUME NEW s, IsFiniteSet(s), s # {}
  PROVE  /\ First(s) \in s /\ Others(s) \in SUBSET s /\ IsFiniteSet(Others(s))
         /\ Cardinality(Others(s)) \in Nat /\ Cardinality(s) = Cardinality(Others(s)) + 1
<1>1. First(s) \in s
  BY DEF First
<1>2. /\ IsFiniteSet(s \ {First(s)})
      /\ Cardinality(s \ {First(s)}) = Cardinality(s) - 1
  BY <1>1, FS_RemoveElement
<1>3. Cardinality(s \ {First(s)}) \in Nat /\ Cardinality(s) \in Nat
  BY <1>2, FS_CardinalityType
<1> QED BY <1>1, <1>2, <1>3 DEF Others

\* There is a way to add up.
LEMMA SumExists ==
  ASSUME NEW f, NEW S, IsFiniteSet(S)
  PROVE  \E it : AddsUp(f, S, it)
<1> DEFINE P(n) == {s \in SUBSET S : Cardinality(s) <= n}
           Step(g, s) == IF s = {} THEN 0 ELSE f[First(s)] + g[Others(s)]
           N == {n \in Nat : \E g : g = [s \in P(n) |-> Step(g, s)]}
<1>1. \A s \in SUBSET S : IsFiniteSet(s) /\ Cardinality(s) \in Nat
  BY FS_Subset, FS_CardinalityType
<1>2. 0 \in N
  <2> DEFINE g == [s \in P(0) |-> 0]
  <2>1. \A s \in P(0) : s = {}
    BY <1>1, FS_EmptySet
  <2>2. g = [s \in P(0) |-> Step(g, s)]
    BY <2>1
  <2> QED BY <2>2
<1>3. ASSUME NEW n \in Nat, n \in N
      PROVE  n + 1 \in N
  <2>1. PICK g : g = [s \in P(n) |-> Step(g, s)]
    BY <1>3
  <2> DEFINE h == [s \in P(n + 1) |-> Step(g, s)]
  <2>2. ASSUME NEW s \in P(n + 1)
        PROVE  Step(g, s) = Step(h, s)
    <3>1. CASE s = {}
      BY <3>1
    <3>2. CASE s # {}
      <4>1. /\ Others(s) \in SUBSET S /\ Cardinality(Others(s)) \in Nat
            /\ Cardinality(s) = Cardinality(Others(s)) + 1
            /\ Cardinality(s) <= n + 1
        BY <1>1, <3>2, OthersFacts
      <4>2. Cardinality(Others(s)) <= n /\ Cardinality(Others(s)) <= n + 1
        BY <4>1
      <4>3. Others(s) \in P(n) /\ Others(s) \in P(n + 1)
        BY <4>1, <4>2
      <4> DEFINE r == Others(s)
      <4> HIDE DEF P, r
      <4>4. r \in P(n) /\ r \in P(n + 1)
        BY <4>3 DEF r
      <4>5. g[r] = Step(g, r) /\ h[r] = Step(g, r)
        <5> HIDE DEF Step
        <5>1. g[r] = Step(g, r)
          BY <2>1, <4>4
        <5> QED BY <4>4, <5>1
      <4> QED BY <4>5 DEF r
    <3> QED BY <3>1, <3>2
  <2> HIDE DEF Step, P
  <2>3. h = [s \in P(n + 1) |-> Step(h, s)]
    BY <2>2
  <2> HIDE DEF h
  <2> QED BY <2>3
<1> HIDE DEF N
<1>4. Nat \subseteq N
  BY <1>2, <1>3, CountingUp
<1>5. PICK g : g = [s \in P(Cardinality(S)) |-> Step(g, s)]
  <2>1. Cardinality(S) \in N
    BY <1>1, <1>4
  <2> QED BY <2>1 DEF N
<1>6. P(Cardinality(S)) = SUBSET S
  <2>1. \A s \in SUBSET S : Cardinality(s) <= Cardinality(S)
    BY FS_Subset
  <2> QED BY <2>1
<1>7. AddsUp(f, S, g)
  BY <1>5, <1>6 DEF AddsUp
<1> QED BY <1>7

\* Two ways to add up the same values agree.
LEMMA SumUnique ==
  ASSUME NEW f, NEW g, NEW S, NEW T, NEW it, NEW jt, IsFiniteSet(S), T \in SUBSET S,
         AddsUp(f, S, it), AddsUp(g, T, jt), \A x \in T : f[x] = g[x]
  PROVE  \A s \in SUBSET T : it[s] = jt[s]
<1> DEFINE G == {s \in SUBSET T : it[s] = jt[s]}
<1>1. IsFiniteSet(T) /\ \A s \in SUBSET T : IsFiniteSet(s) /\ s \in SUBSET S
  BY FS_Subset
<1>2. ASSUME NEW s \in SUBSET T,
             \A t \in SUBSET T : Cardinality(t) < Cardinality(s) => t \in G
      PROVE  s \in G
  <2>1. /\ it[s] = IF s = {} THEN 0 ELSE f[First(s)] + it[Others(s)]
        /\ jt[s] = IF s = {} THEN 0 ELSE g[First(s)] + jt[Others(s)]
    <3>1. s \in SUBSET S
      BY <1>1
    <3> QED BY <3>1 DEF AddsUp
  <2>2. CASE s = {}
    BY <2>1, <2>2
  <2>3. CASE s # {}
    <3>1. First(s) \in s /\ Others(s) \in SUBSET s /\ Cardinality(Others(s)) < Cardinality(s)
      BY <1>1, <2>3, OthersFacts
    <3>2. Others(s) \in SUBSET T
      BY <3>1
    <3>3. it[Others(s)] = jt[Others(s)]
      BY <1>2, <3>1, <3>2
    <3>4. f[First(s)] = g[First(s)]
      BY <3>1
    <3> QED BY <2>1, <2>3, <3>3, <3>4
  <2> QED BY <2>2, <2>3
<1> HIDE DEF G
<1>3. SUBSET T \subseteq G
  BY <1>1, <1>2, SubsetsGrow
<1> QED BY <1>3 DEF G

\* SumFunctionOnSet adds up, its first element first.
LEMMA SumFacts ==
  ASSUME NEW f, NEW S, IsFiniteSet(S)
  PROVE  /\ SumFunctionOnSet(f, {}) = 0
         /\ S # {} => SumFunctionOnSet(f, S)
                        = f[First(S)] + SumFunctionOnSet(f, Others(S))
         /\ \A g : (\A x \in S : f[x] = g[x])
                     => SumFunctionOnSet(f, S) = SumFunctionOnSet(g, S)
<1> DEFINE It(h, T) == CHOOSE it : AddsUp(h, T, it)
<1>1. \A h, T : SumFunctionOnSet(h, T) = It(h, T)[T]
  BY DEF SumFunctionOnSet, FoldFunctionOnSet, MapThenFoldSet, AddsUp, First, Others
<1>2. \A h, T : IsFiniteSet(T) => AddsUp(h, T, It(h, T))
  BY SumExists
<1> HIDE DEF It
<1>3. SumFunctionOnSet(f, {}) = 0
  <2>1. IsFiniteSet({})
    BY FS_EmptySet
  <2>2. AddsUp(f, {}, It(f, {}))
    BY <1>2, <2>1
  <2>3. It(f, {})[{}] = 0
    BY <2>2 DEF AddsUp
  <2> QED BY <1>1, <2>3
<1>4. ASSUME S # {}
      PROVE  SumFunctionOnSet(f, S) = f[First(S)] + SumFunctionOnSet(f, Others(S))
  <2>1. Others(S) \in SUBSET S /\ IsFiniteSet(Others(S))
    BY <1>4, OthersFacts
  <2>2. AddsUp(f, S, It(f, S)) /\ AddsUp(f, Others(S), It(f, Others(S)))
    BY <1>2, <2>1
  <2>3. It(f, S)[S] = f[First(S)] + It(f, S)[Others(S)]
    <3> DEFINE it == It(f, S)
    <3>1. it = [s \in SUBSET S |-> IF s = {} THEN 0 ELSE f[First(s)] + it[Others(s)]]
      BY <2>2 DEF AddsUp
    <3> HIDE DEF it
    <3>2. S \in SUBSET S
      OBVIOUS
    <3>3. it[S] = IF S = {} THEN 0 ELSE f[First(S)] + it[Others(S)]
      BY <3>1, <3>2
    <3> QED BY <1>4, <3>3 DEF it
  <2>4. It(f, S)[Others(S)] = It(f, Others(S))[Others(S)]
    BY <2>1, <2>2, SumUnique
  <2> QED BY <1>1, <2>3, <2>4
<1>5. ASSUME NEW g, \A x \in S : f[x] = g[x]
      PROVE  SumFunctionOnSet(f, S) = SumFunctionOnSet(g, S)
  <2>1. AddsUp(f, S, It(f, S)) /\ AddsUp(g, S, It(g, S))
    BY <1>2
  <2>2. It(f, S)[S] = It(g, S)[S]
    BY <1>5, <2>1, SumUnique
  <2> QED BY <1>1, <2>2
<1> QED BY <1>3, <1>4, <1>5

\* The sum of numbers is a number.
LEMMA SumType ==
  ASSUME NEW f, NEW S, IsFiniteSet(S), \A x \in S : f[x] \in Nat
  PROVE  SumFunctionOnSet(f, S) \in Nat
<1> DEFINE G == {s \in SUBSET S : SumFunctionOnSet(f, s) \in Nat}
<1>1. ASSUME NEW s \in SUBSET S,
             \A t \in SUBSET S : Cardinality(t) < Cardinality(s) => t \in G
      PROVE  s \in G
  <2>1. IsFiniteSet(s)
    BY FS_Subset
  <2>2. CASE s = {}
    <3>1. SumFunctionOnSet(f, {}) = 0
      BY SumFacts
    <3> QED BY <2>2, <3>1
  <2>3. CASE s # {}
    <3>1. First(s) \in s /\ Others(s) \in SUBSET S /\ Cardinality(Others(s)) < Cardinality(s)
      BY <2>1, <2>3, OthersFacts
    <3>2. SumFunctionOnSet(f, Others(s)) \in Nat /\ f[First(s)] \in Nat
      BY <1>1, <3>1
    <3>3. SumFunctionOnSet(f, s) = f[First(s)] + SumFunctionOnSet(f, Others(s))
      BY <2>1, <2>3, SumFacts
    <3> QED BY <3>2, <3>3
  <2> QED BY <2>2, <2>3
<1> HIDE DEF G
<1>2. SUBSET S \subseteq G
  BY <1>1, SubsetsGrow
<1> QED BY <1>2 DEF G

\* Any element may be taken out of a sum.
LEMMA SumRemove ==
  ASSUME NEW f, NEW S, IsFiniteSet(S), \A x \in S : f[x] \in Nat, NEW y \in S
  PROVE  SumFunctionOnSet(f, S) = f[y] + SumFunctionOnSet(f, S \ {y})
<1> DEFINE Sum(s) == SumFunctionOnSet(f, s)
           G == {s \in SUBSET S : \A x \in s : Sum(s) = f[x] + Sum(s \ {x})}
<1>0. \A s \in SUBSET S : IsFiniteSet(s) /\ Sum(s) \in Nat
  <2> TAKE s \in SUBSET S
  <2>1. IsFiniteSet(s) /\ \A x \in s : f[x] \in Nat
    BY FS_Subset
  <2> QED BY <2>1, SumType
<1>1. ASSUME NEW s \in SUBSET S,
             \A t \in SUBSET S : Cardinality(t) < Cardinality(s) => t \in G
      PROVE  s \in G
  <2>1. SUFFICES ASSUME NEW x \in s
                 PROVE  Sum(s) = f[x] + Sum(s \ {x})
    OBVIOUS
  <2> DEFINE z == First(s)
  <2>2. /\ z \in s /\ Others(s) \in SUBSET S /\ Cardinality(Others(s)) < Cardinality(s)
        /\ Others(s) = s \ {z}
    <3>1. IsFiniteSet(s) /\ s # {}
      BY <1>0
    <3>2. /\ First(s) \in s /\ Others(s) \in SUBSET s /\ Cardinality(Others(s)) \in Nat
          /\ Cardinality(s) = Cardinality(Others(s)) + 1
      BY <3>1, OthersFacts
    <3>3. Others(s) = s \ {z}
      BY DEF Others
    <3> QED BY <3>2, <3>3
  <2>3. Sum(s) = f[z] + Sum(s \ {z})
    BY <1>0, <2>2, SumFacts
  <2> HIDE DEF z
  <2>4. CASE x = z
    BY <2>3, <2>4
  <2>5. CASE x # z
    <3>1. /\ x \in s \ {z} /\ z \in s \ {x}
          /\ s \ {x} \in SUBSET S /\ s \ {z} \in SUBSET S
          /\ (s \ {z}) \ {x} = (s \ {x}) \ {z} /\ (s \ {x}) \ {z} \in SUBSET S
      BY <2>2, <2>5
    <3>2. /\ Cardinality(s \ {x}) = Cardinality(s) - 1
          /\ Cardinality(s) \in Nat
      BY <1>0, FS_RemoveElement, FS_CardinalityType
    <3>3. Cardinality(s \ {x}) < Cardinality(s)
      BY <3>2
    <3>4. s \ {x} \in G /\ s \ {z} \in G
      BY <1>1, <2>2, <3>1, <3>3
    <3>5. /\ Sum(s \ {z}) = f[x] + Sum((s \ {z}) \ {x})
          /\ Sum(s \ {x}) = f[z] + Sum((s \ {x}) \ {z})
      BY <3>1, <3>4
    <3>6. f[x] \in Nat /\ f[z] \in Nat /\ Sum((s \ {x}) \ {z}) \in Nat
      BY <1>0, <2>2, <3>1
    <3>7. Sum(s \ {z}) = f[x] + Sum((s \ {x}) \ {z})
      BY <3>1, <3>5
    <3> HIDE DEF Sum
    <3> QED BY <2>3, <3>5, <3>6, <3>7
  <2> QED BY <2>4, <2>5
<1> HIDE DEF G
<1>2. SUBSET S \subseteq G
  BY <1>1, SubsetsGrow
<1>3. S \in G
  BY <1>2
<1> QED BY <1>3 DEF G

\* A sum over two sets that share nothing is the sum of their sums.
LEMMA SumUnion ==
  ASSUME NEW f, NEW S, NEW T, IsFiniteSet(S), IsFiniteSet(T), S \cap T = {},
         \A x \in S \cup T : f[x] \in Nat
  PROVE  /\ SumFunctionOnSet(f, S \cup T)
              = SumFunctionOnSet(f, S) + SumFunctionOnSet(f, T)
         /\ SumFunctionOnSet(f, S \cup T) \in Nat
         /\ SumFunctionOnSet(f, S) \in Nat /\ SumFunctionOnSet(f, T) \in Nat
<1> DEFINE Sum(s) == SumFunctionOnSet(f, s)
           G == {t \in SUBSET T : Sum(S \cup t) = Sum(S) + Sum(t)}
<1>0. \A t \in SUBSET T : /\ IsFiniteSet(t) /\ Sum(t) \in Nat
                          /\ IsFiniteSet(S \cup t) /\ Sum(S \cup t) \in Nat
  <2> TAKE t \in SUBSET T
  <2>1. IsFiniteSet(t) /\ \A x \in t : f[x] \in Nat
    BY FS_Subset
  <2>2. IsFiniteSet(S \cup t) /\ \A x \in S \cup t : f[x] \in Nat
    BY <2>1, FS_Union
  <2> QED BY <2>1, <2>2, SumType
<1>a. Sum(S) \in Nat
  BY SumType
<1>1. ASSUME NEW t \in SUBSET T,
             \A u \in SUBSET T : Cardinality(u) < Cardinality(t) => u \in G
      PROVE  t \in G
  <2>1. CASE t = {}
    <3>1. Sum({}) = 0 /\ S \cup {} = S
      BY SumFacts
    <3>2. Sum(S \cup {}) = Sum(S) + Sum({})
      BY <1>a, <3>1
    <3> QED BY <2>1, <3>2
  <2>2. CASE t # {}
    <3> DEFINE z == First(t)
               r == t \ {z}
    <3>1. z \in t /\ r \in SUBSET T /\ Cardinality(r) < Cardinality(t)
      <4>1. IsFiniteSet(t)
        BY <1>0
      <4>2. /\ First(t) \in t /\ Others(t) \in SUBSET t /\ Cardinality(Others(t)) \in Nat
            /\ Cardinality(t) = Cardinality(Others(t)) + 1
        BY <2>2, <4>1, OthersFacts
      <4>3. Others(t) = r
        BY DEF Others
      <4> QED BY <4>2, <4>3
    <3> HIDE DEF z
    <3>2. Sum(S \cup r) = Sum(S) + Sum(r)
      BY <1>1, <3>1
    <3>3. z \in S \cup t /\ (S \cup t) \ {z} = S \cup r
      BY <3>1
    <3>4. \A x \in S \cup t : f[x] \in Nat
      OBVIOUS
    <3>a. IsFiniteSet(S \cup t) /\ IsFiniteSet(t) /\ \A x \in t : f[x] \in Nat
      BY <1>0, <3>4
    <3>5. Sum(S \cup t) = f[z] + Sum((S \cup t) \ {z})
      BY <3>a, <3>3, <3>4, SumRemove
    <3>6. Sum(t) = f[z] + Sum(r)
      BY <3>a, <3>1, SumRemove
    <3>7. f[z] \in Nat /\ Sum(r) \in Nat
      BY <1>0, <3>1, <3>4
    <3>8. Sum(S \cup t) = f[z] + Sum(S \cup r)
      BY <3>3, <3>5
    <3> HIDE DEF Sum, r
    <3>9. Sum(S \cup t) = Sum(S) + Sum(t)
      BY <1>a, <3>2, <3>6, <3>7, <3>8
    <3> QED BY <3>9
  <2> QED BY <2>1, <2>2
<1> HIDE DEF G
<1>2. SUBSET T \subseteq G
  BY <1>1, SubsetsGrow
<1>3. T \in G
  BY <1>2
<1>4. Sum(S \cup T) = Sum(S) + Sum(T)
  BY <1>3 DEF G
<1> QED BY <1>0, <1>4, <1>a

\* More terms, no smaller sum.
LEMMA SumGrows ==
  ASSUME NEW f, NEW S, NEW T, IsFiniteSet(T), S \in SUBSET T, \A x \in T : f[x] \in Nat
  PROVE  /\ SumFunctionOnSet(f, S) <= SumFunctionOnSet(f, T)
         /\ SumFunctionOnSet(f, S) \in Nat /\ SumFunctionOnSet(f, T) \in Nat
<1> DEFINE R == T \ S
<1>1. IsFiniteSet(S) /\ IsFiniteSet(R)
  BY FS_Subset
<1>2. S \cap R = {} /\ S \cup R = T
  OBVIOUS
<1>3. \A x \in S \cup R : f[x] \in Nat
  OBVIOUS
<1> HIDE DEF R
<1>4. /\ SumFunctionOnSet(f, S \cup R) = SumFunctionOnSet(f, S) + SumFunctionOnSet(f, R)
      /\ SumFunctionOnSet(f, S) \in Nat /\ SumFunctionOnSet(f, R) \in Nat
  BY <1>1, <1>2, <1>3, SumUnion
<1>5. SumFunctionOnSet(f, T) = SumFunctionOnSet(f, S) + SumFunctionOnSet(f, R)
  BY <1>2, <1>4
<1> QED BY <1>4, <1>5

\* A sum with one more term, and a sum with one term changed.
LEMMA SumAdd ==
  ASSUME NEW f, NEW S, IsFiniteSet(S), NEW y, y \notin S, \A x \in S \cup {y} : f[x] \in Nat
  PROVE  /\ SumFunctionOnSet(f, S \cup {y}) = f[y] + SumFunctionOnSet(f, S)
         /\ SumFunctionOnSet(f, S) \in Nat
<1>1. IsFiniteSet(S \cup {y})
  BY FS_AddElement
<1>2. (S \cup {y}) \ {y} = S
  OBVIOUS
<1> QED BY <1>1, <1>2, SumRemove, SumType

\* A sum of ones is how many there are.
LEMMA SumOfOnes ==
  ASSUME NEW f, NEW S, IsFiniteSet(S), \A x \in S : f[x] = 1
  PROVE  SumFunctionOnSet(f, S) = Cardinality(S)
<1> DEFINE G == {s \in SUBSET S : SumFunctionOnSet(f, s) = Cardinality(s)}
<1>1. ASSUME NEW s \in SUBSET S,
             \A t \in SUBSET S : Cardinality(t) < Cardinality(s) => t \in G
      PROVE  s \in G
  <2>1. IsFiniteSet(s)
    BY FS_Subset
  <2>2. CASE s = {}
    <3>1. SumFunctionOnSet(f, {}) = 0 /\ Cardinality({}) = 0
      BY SumFacts, FS_EmptySet
    <3> QED BY <2>2, <3>1
  <2>3. CASE s # {}
    <3>1. /\ First(s) \in s /\ Others(s) \in SUBSET S
          /\ Cardinality(Others(s)) \in Nat /\ Cardinality(s) = Cardinality(Others(s)) + 1
      BY <2>1, <2>3, OthersFacts
    <3>2. SumFunctionOnSet(f, Others(s)) = Cardinality(Others(s)) /\ f[First(s)] = 1
      BY <1>1, <3>1
    <3>3. SumFunctionOnSet(f, s) = f[First(s)] + SumFunctionOnSet(f, Others(s))
      BY <2>1, <2>3, SumFacts
    <3> QED BY <3>1, <3>2, <3>3
  <2> QED BY <2>2, <2>3
<1> HIDE DEF G
<1>2. SUBSET S \subseteq G
  BY <1>1, SubsetsGrow
<1> QED BY <1>2 DEF G

\* A sum of zeros is zero.
LEMMA SumOfZeros ==
  ASSUME NEW f, NEW S, IsFiniteSet(S), \A x \in S : f[x] = 0
  PROVE  SumFunctionOnSet(f, S) = 0
<1> DEFINE G == {s \in SUBSET S : SumFunctionOnSet(f, s) = 0}
<1>1. ASSUME NEW s \in SUBSET S,
             \A t \in SUBSET S : Cardinality(t) < Cardinality(s) => t \in G
      PROVE  s \in G
  <2>1. IsFiniteSet(s)
    BY FS_Subset
  <2>2. CASE s = {}
    BY <2>2, SumFacts
  <2>3. CASE s # {}
    <3>1. First(s) \in s /\ Others(s) \in SUBSET S /\ Cardinality(Others(s)) < Cardinality(s)
      BY <2>1, <2>3, OthersFacts
    <3>2. SumFunctionOnSet(f, Others(s)) = 0 /\ f[First(s)] = 0
      BY <1>1, <3>1
    <3>3. SumFunctionOnSet(f, s) = f[First(s)] + SumFunctionOnSet(f, Others(s))
      BY <2>1, <2>3, SumFacts
    <3> QED BY <3>2, <3>3
  <2> QED BY <2>2, <2>3
<1> HIDE DEF G
<1>2. SUBSET S \subseteq G
  BY <1>1, SubsetsGrow
<1> QED BY <1>2 DEF G

\* What is zero may be left out of a sum.
LEMMA SumOfSome ==
  ASSUME NEW f, NEW S, IsFiniteSet(S), \A x \in S : f[x] \in Nat,
         NEW W \in SUBSET S, \A x \in S \ W : f[x] = 0
  PROVE  SumFunctionOnSet(f, S) = SumFunctionOnSet(f, W)
<1> DEFINE R == S \ W
<1>1. IsFiniteSet(W) /\ IsFiniteSet(R)
  BY FS_Subset
<1>2. W \cap R = {} /\ W \cup R = S
  OBVIOUS
<1>3. \A x \in W \cup R : f[x] \in Nat
  OBVIOUS
<1>4. SumFunctionOnSet(f, R) = 0
  BY <1>1, SumOfZeros
<1> HIDE DEF R
<1>5. /\ SumFunctionOnSet(f, W \cup R) = SumFunctionOnSet(f, W) + SumFunctionOnSet(f, R)
      /\ SumFunctionOnSet(f, W) \in Nat
  BY <1>1, <1>2, <1>3, SumUnion
<1>6. SumFunctionOnSet(f, S) = SumFunctionOnSet(f, W) + 0
  BY <1>2, <1>4, <1>5
<1> QED BY <1>5, <1>6

\* A sum of sums over parts that share nothing is the sum over all of them.
LEMMA SumOfParts ==
  ASSUME NEW c, NEW S, IsFiniteSet(S), NEW f, NEW T, IsFiniteSet(T),
         \A x \in T : f[x] \in Nat, NEW part,
         \A i \in S : \E K \in SUBSET T : /\ \A x \in T : x \in K <=> part[x] = i
                                         /\ c[i] = SumFunctionOnSet(f, K),
         NEW U \in SUBSET T, \A x \in T : x \in U <=> part[x] \in S
  PROVE  SumFunctionOnSet(c, S) = SumFunctionOnSet(f, U)
<1> DEFINE Of(s) == {x \in T : part[x] \in s}
           G == {s \in SUBSET S : SumFunctionOnSet(c, s) = SumFunctionOnSet(f, Of(s))}
<1>1. \A t \in SUBSET T : /\ IsFiniteSet(t) /\ SumFunctionOnSet(f, t) \in Nat
                          /\ \A x \in t : f[x] \in Nat
  <2> TAKE t \in SUBSET T
  <2>1. IsFiniteSet(t) /\ \A x \in t : f[x] \in Nat
    BY FS_Subset
  <2> QED BY <2>1, SumType
<1>2. ASSUME NEW s \in SUBSET S,
             \A t \in SUBSET S : Cardinality(t) < Cardinality(s) => t \in G
      PROVE  s \in G
  <2>1. IsFiniteSet(s)
    BY FS_Subset
  <2>2. CASE s = {}
    <3>1. Of({}) = {}
      OBVIOUS
    <3>2. SumFunctionOnSet(c, {}) = 0 /\ SumFunctionOnSet(f, {}) = 0
      BY <2>1, <2>2, FS_EmptySet, SumFacts
    <3> QED BY <2>2, <3>1, <3>2
  <2>3. CASE s # {}
    <3> DEFINE z == First(s)
               P == {x \in T : part[x] = z}
               Q == Of(Others(s))
    <3>1. /\ z \in s /\ Others(s) \in SUBSET S /\ Cardinality(Others(s)) < Cardinality(s)
          /\ Others(s) = s \ {z}
      <4>1. /\ First(s) \in s /\ Others(s) \in SUBSET s /\ Cardinality(Others(s)) \in Nat
            /\ Cardinality(s) = Cardinality(Others(s)) + 1
        BY <2>1, <2>3, OthersFacts
      <4>2. Others(s) = s \ {z}
        BY DEF Others
      <4> QED BY <4>1, <4>2
    <3>2. SumFunctionOnSet(c, s) = c[z] + SumFunctionOnSet(c, Others(s))
      BY <2>1, <2>3, SumFacts
    <3> HIDE DEF z
    <3>3. SumFunctionOnSet(c, Others(s)) = SumFunctionOnSet(f, Q)
      BY <1>2, <3>1
    <3>4. c[z] = SumFunctionOnSet(f, P)
      <4>1. PICK K \in SUBSET T : /\ \A x \in T : x \in K <=> part[x] = z
                                 /\ c[z] = SumFunctionOnSet(f, K)
        BY <3>1
      <4>2. K = P
        BY <4>1
      <4> QED BY <4>1, <4>2
    <3>5. Of(s) = P \cup Q /\ P \cap Q = {} /\ P \in SUBSET T /\ Q \in SUBSET T
      BY <3>1
    <3>6. IsFiniteSet(P) /\ IsFiniteSet(Q) /\ \A x \in P \cup Q : f[x] \in Nat
      BY <1>1, <3>5
    <3> HIDE DEF P, Q
    <3>7. SumFunctionOnSet(f, P \cup Q) = SumFunctionOnSet(f, P) + SumFunctionOnSet(f, Q)
      BY <3>5, <3>6, SumUnion
    <3>8. SumFunctionOnSet(c, s) = SumFunctionOnSet(f, P \cup Q)
      BY <3>2, <3>3, <3>4, <3>7
    <3> QED BY <3>5, <3>8
  <2> QED BY <2>2, <2>3
<1> HIDE DEF G
<1>3. SUBSET S \subseteq G
  BY <1>2, SubsetsGrow
<1>4. S \in G
  BY <1>3
<1>5. Of(S) = U
  OBVIOUS
<1> QED BY <1>4, <1>5 DEF G

\* A sum in which one term grows.
LEMMA SumOneMore ==
  ASSUME NEW f, NEW g, NEW S, IsFiniteSet(S), NEW y \in S,
         \A x \in S : f[x] \in Nat, g[y] = f[y] + 1, \A x \in S \ {y} : g[x] = f[x]
  PROVE  SumFunctionOnSet(g, S) = SumFunctionOnSet(f, S) + 1
<1> DEFINE R == S \ {y}
<1>1. IsFiniteSet(R) /\ \A x \in R : f[x] \in Nat
  BY FS_Subset
<1>2. \A x \in S : g[x] \in Nat
  <2> TAKE x \in S
  <2>1. f[x] \in Nat /\ f[y] \in Nat
    OBVIOUS
  <2>2. CASE x = y
    BY <2>1, <2>2
  <2>3. CASE x # y
    BY <2>1, <2>3
  <2> QED BY <2>2, <2>3
<1>3. SumFunctionOnSet(f, S) = f[y] + SumFunctionOnSet(f, R)
  BY SumRemove
<1>4. SumFunctionOnSet(g, S) = g[y] + SumFunctionOnSet(g, R)
  BY <1>2, SumRemove
<1>5. SumFunctionOnSet(g, R) = SumFunctionOnSet(f, R)
  BY <1>1, SumFacts
<1>6. SumFunctionOnSet(f, R) \in Nat /\ f[y] \in Nat
  BY <1>1, SumType
<1> HIDE DEF R
<1> QED BY <1>3, <1>4, <1>5, <1>6

-----------------------------------------------------------------------------
(***************************************************************************)
(* Quotients and remainders of what may be negative or nearly a word.      *)
(***************************************************************************)
\* What division with remainder gives a number that may be negative.
LEMMA IntDivision ==
  ASSUME NEW c \in Nat \ {0}, NEW s \in Int
  PROVE  /\ s \div c \in Int
         /\ s % c \in 0 .. c - 1
         /\ s = c * (s \div c) + (s % c)
OBVIOUS

\* s is p times c and r more.
Splits(s, c, p, r) == s = c * p + r

\* The quotient and the remainder are the only ones.
LEMMA DivisionUnique ==
  ASSUME NEW c \in Nat \ {0}, NEW s \in Int, NEW p \in Int, NEW r \in 0 .. c - 1,
         Splits(s, c, p, r)
  PROVE  s \div c = p /\ s % c = r
<1> DEFINE q == s \div c
           t == s % c
<1>1. s = c * q + t /\ q \in Int /\ t \in 0 .. c - 1
  BY IntDivision
<1> HIDE DEF q, t
<1>2. c * p \in Int /\ c * q \in Int /\ s = c * p + r
  BY <1>1 DEF Splits
<1>3. ~ p > q
  <2> SUFFICES ASSUME p > q PROVE FALSE
    OBVIOUS
  <2>1. c * p >= c * q + c
    BY <1>1, ProductGrows
  <2> QED BY <1>1, <1>2, <2>1
<1>4. ~ q > p
  <2> SUFFICES ASSUME q > p PROVE FALSE
    OBVIOUS
  <2>1. c * q >= c * p + c
    BY <1>1, ProductGrows
  <2> QED BY <1>1, <1>2, <2>1
<1>5. p = q
  BY <1>1, <1>3, <1>4
<1>6. r = t
  BY <1>1, <1>2, <1>5
<1> QED BY <1>5, <1>6 DEF q, t

\* A number less than the divisor is its own remainder.
LEMMA SmallRemainder ==
  ASSUME NEW c \in Nat \ {0}, NEW r \in 0 .. c - 1
  PROVE  r \div c = 0 /\ r % c = r
<1>1. Splits(r, c, 0, r) /\ r \in Int
  BY DEF Splits
<1> QED BY <1>1, DivisionUnique

\* A remainder may be taken early.
LEMMA RemainderEarly ==
  ASSUME NEW c \in Nat \ {0}, NEW s \in Nat, NEW d \in Nat
  PROVE  ((s % c) + d) % c = (s + d) % c
<1> DEFINE p == s \div c
           t == s % c
           u == t + d
           q == u \div c
           r == u % c
<1>1. s = c * p + t /\ p \in Nat /\ t \in 0 .. c - 1
  BY Division
<1>2. u \in Nat
  BY <1>1
<1>3. u = c * q + r /\ q \in Nat /\ r \in 0 .. c - 1
  BY <1>2, Division
<1>4. u = t + d
  OBVIOUS
<1> HIDE DEF p, t, q, r, u
<1>5. c * p \in Nat /\ c * q \in Nat /\ c * (p + q) = c * p + c * q /\ p + q \in Int
  BY <1>1, <1>3
<1>6. s + d = c * (p + q) + r /\ s + d \in Nat
  BY <1>1, <1>3, <1>4, <1>5
<1>7. (s + d) % c = r
  <2>1. Splits(s + d, c, p + q, r)
    BY <1>6 DEF Splits
  <2>2. s + d \in Int /\ p + q \in Int /\ r \in 0 .. c - 1
    BY <1>3, <1>5, <1>6
  <2> QED BY <2>1, <2>2, DivisionUnique
<1> QED BY <1>7 DEF r, u, t

\* A product of three may be taken from either end.
LEMMA ProductsRegroup ==
  ASSUME NEW a \in Nat, NEW b \in Nat, NEW d \in Nat
  PROVE  (a * b) * d = a * (b * d) /\ b * d \in Nat
OBVIOUS

\* A remainder of a multiple may be taken first.
LEMMA RemainderOfMultiple ==
  ASSUME NEW c \in Nat \ {0}, NEW k \in Nat \ {0}, NEW s \in Nat
  PROVE  (s % (c * k)) % c = s % c
<1> DEFINE m == c * k
           p == s \div m
           t == s % m
           q == t \div c
           r == t % c
<1>1. m \in Nat \ {0}
  <2>1. \A a, b \in Nat \ {0} : a * b \in Nat \ {0}
    OBVIOUS
  <2> QED BY <2>1
<1>2. s = m * p + t /\ p \in Nat /\ t \in 0 .. m - 1
  BY <1>1, Division
<1>3. t \in Nat
  BY <1>1, <1>2
<1>4. t = c * q + r /\ q \in Nat /\ r \in 0 .. c - 1
  BY <1>3, Division
<1>5. m * p = c * (k * p) /\ k * p \in Nat
  <2>1. p \in Nat
    BY <1>2
  <2> HIDE DEF p
  <2> QED BY <2>1, ProductsRegroup
<1> HIDE DEF m, p, t, q, r
<1> DEFINE e == k * p
<1>6. e \in Nat /\ s = c * e + (c * q + r)
  BY <1>2, <1>4, <1>5
<1> HIDE DEF e
<1>7. c * e \in Nat /\ c * q \in Nat /\ c * (e + q) = c * e + c * q /\ e + q \in Int
  BY <1>4, <1>6
<1>8. s = c * (e + q) + r
  BY <1>4, <1>6, <1>7
<1>9. s % c = r
  <2>1. Splits(s, c, e + q, r)
    BY <1>8 DEF Splits
  <2>2. s \in Int /\ e + q \in Int /\ r \in 0 .. c - 1
    BY <1>4, <1>7
  <2> QED BY <2>1, <2>2, DivisionUnique
<1> QED BY <1>9 DEF r, t, m

\* Equal ranks, equal numbers.
LEMMA RankTellsApart ==
  ASSUME NEW S \in SUBSET Nat, IsFiniteSet(S), NEW x \in S, NEW y \in S,
         Rank(x, S) = Rank(y, S)
  PROVE  x = y
<1>1. Rank(x, S) \in Nat /\ Rank(y, S) \in Nat
  BY RankFacts
<1>2. x < y => Rank(x, S) < Rank(y, S)
  BY RankGrows
<1>3. y < x => Rank(y, S) < Rank(x, S)
  BY RankGrows
<1> QED BY <1>1, <1>2, <1>3

\* A map that is one to one and reaches every element.
LEMMA OneToOne ==
  ASSUME NEW S, NEW T, NEW f \in [S -> T],
         \A a, b \in S : f[a] = f[b] => a = b,
         \A t \in T : \E s \in S : f[s] = t
  PROVE  ExistsBijection(S, T)
<1>1. f \in Injection(S, T)
  BY DEF Injection, IsInjective
<1>2. f \in Surjection(S, T)
  BY DEF Surjection
<1> QED BY <1>1, <1>2 DEF Bijection, ExistsBijection

\* A step taken n times.
Iterates(w, S, x, f, n) ==
  w \in [0 .. n -> S] /\ w[0] = x /\ \A d \in 1 .. n : w[d] = f[w[d - 1]]

\* There is such a sequence, of any length.
LEMMA Iteration ==
  ASSUME NEW S, NEW x \in S, NEW f \in [S -> S], NEW n \in Nat
  PROVE  \E w : Iterates(w, S, x, f, n)
<1> DEFINE F == [d \in 1 .. n |-> f]
<1>1. F \in [1 .. n -> [S -> S]]
  OBVIOUS
<1>2. \A d \in 1 .. n : F[d] = f
  OBVIOUS
<1> HIDE DEF F
<1>3. PICK w : Follows(w, S, x, n, F)
  BY <1>1, Recursion
<1> QED BY <1>2, <1>3 DEF Follows, Iterates

-----------------------------------------------------------------------------
(***************************************************************************)
(* Knuth's algorithm R, for every number of slots and every hash: open     *)
(* addressing with linear probing, and deletion by backward shift.  Two    *)
(* tables of the program use it, each with code of its own.                *)
(*                                                                         *)
(* A table is sound when no two of its entries have the same key and every *)
(* slot on the way from where the probe for an entry starts to the entry   *)
(* is occupied.  A probe then finds what is there and nothing else; an     *)
(* entry put where the probe ends, and an entry taken out by the backward  *)
(* shift, leave a sound table, as long as one slot is vacant.              *)
(*                                                                         *)
(* The walk of the deletion is followed with slots numbered from the one   *)
(* that is erased, so that the cluster behind it does not wrap.            *)
(*                                                                         *)
(* What a table is like comes as a record c: c.size slots, c.none in those *)
(* that are vacant, c.key for the key of an entry, c.keys for all keys,    *)
(* c.home for the slot where the probe for a key starts.                   *)
(***************************************************************************)

Places(c) == 0 .. c.size - 1

\* A table with entries of E.
Tables(c, E) == [Places(c) -> E \cup {c.none}]

Taken(c, t) == {j \in Places(c) : t[j] # c.none}

\* There are slots.
Sized(c) == c.size \in Nat \ {0}

\* E can be the entries of such a table.
Scheme(c, E) ==
  /\ c.none \notin E
  /\ \A e \in E : c.key[e] \in c.keys
  /\ \A k \in c.keys : c.home[k] \in Places(c)

\* Where a probe for key k ends: at k, or at the first vacant slot.
ProbeEnd(c, t, k) ==
  LET at(d) == (c.home[k] + d) % c.size
      ends == {d \in Places(c) : t[at(d)] = c.none \/ c.key[t[at(d)]] = k}
  IN  at(Min(ends))

\* The entry of slot j, whose probe starts at k, would be found in the hole.
MayFall(hole, j, k) ==
  IF j >= hole THEN k <= hole \/ k > j ELSE k <= hole /\ k > j

\* The hole is filled by the entry of slot j, when that may move.
Tumble(c, was, j) ==
  IF MayFall(was.hole, j, c.home[c.key[was.table[j]]])
    THEN [hole |-> j,
          table |-> [was.table EXCEPT ![was.hole] = was.table[j], ![j] = c.none]]
    ELSE was

\* x is passed on the way from a to b.
OnWay(a, x, b) == IF a <= b THEN a <= x /\ x < b ELSE a <= x \/ x < b

Chained(c, t) ==
  \A j \in Taken(c, t), x \in Places(c) : OnWay(c.home[c.key[t[j]]], x, j) => t[x] # c.none

Distinct(c, t) ==
  \A j, k \in Taken(c, t) : c.key[t[j]] = c.key[t[k]] => j = k

Sound(c, t) == Chained(c, t) /\ Distinct(c, t)

\* How far j is behind i.
Rel(c, i, j) == IF j >= i THEN j - i ELSE j - i + c.size

\* What entries may be counted by.
Measures(c, E) == {v \in [E \cup {c.none} -> Nat] : v[c.none] = 0}

\* What the entries of t weigh, each v[e].
Weight(c, t, v) == SumFunctionOnSet([j \in Places(c) |-> v[t[j]]], Places(c))

-----------------------------------------------------------------------------
\* The table has slots, finitely many, and one of them is the first.
LEMMA SlotFacts ==
  ASSUME NEW c, Sized(c)
  PROVE  c.size \in Nat /\ c.size > 0 /\ IsFiniteSet(Places(c)) /\ 0 \in Places(c)
<1>1. c.size \in Nat /\ c.size > 0
  BY DEF Sized
<1>2. IsFiniteSet(0 .. c.size - 1)
  BY <1>1, FS_Interval
<1> QED BY <1>1, <1>2 DEF Places

\* The slot d further on.
LEMMA StepFacts ==
  ASSUME NEW c, Sized(c), NEW i \in Places(c), NEW d \in Places(c)
  PROVE  /\ (i + d) % c.size = IF i + d < c.size THEN i + d ELSE i + d - c.size
         /\ (i + d) % c.size \in Places(c)
         /\ Rel(c, i, (i + d) % c.size) = d
<1>1. c.size \in Nat \ {0} /\ i \in Nat /\ d \in Nat /\ i < c.size /\ d < c.size /\ i + d \in Nat
  BY SlotFacts DEF Places
<1> DEFINE q == (i + d) \div c.size
           r == (i + d) % c.size
<1>2. q \in Nat /\ r \in 0 .. c.size - 1 /\ i + d = c.size * q + r
  BY <1>1, Division
<1> HIDE DEF q, r
<1>3. q = 0 \/ q = 1
  <2>1. CASE q >= 2
    <3>1. c.size * q >= c.size * 1 + c.size
      BY <1>1, <1>2, <2>1, ProductGrows
    <3> QED BY <1>1, <1>2, <3>1
  <2> QED BY <1>2, <2>1
<1>4. r = IF i + d < c.size THEN i + d ELSE i + d - c.size
  BY <1>1, <1>2, <1>3
<1>5. r \in Places(c) /\ Rel(c, i, r) = d
  BY <1>1, <1>4 DEF Places, Rel
<1> QED BY <1>4, <1>5 DEF r

\* Every slot is some way on from i.
LEMMA RelFacts ==
  ASSUME NEW c, Sized(c), NEW i \in Places(c), NEW j \in Places(c)
  PROVE  /\ Rel(c, i, j) \in Places(c) /\ (i + Rel(c, i, j)) % c.size = j
         /\ Rel(c, i, j) = 0 <=> j = i
<1>1. c.size \in Nat /\ i \in Nat /\ j \in Nat /\ i < c.size /\ j < c.size
  BY SlotFacts DEF Places
<1>2. Rel(c, i, j) \in Places(c)
  BY <1>1 DEF Places, Rel
<1>3. Rel(c, i, j) = 0 <=> j = i
  BY <1>1 DEF Rel
<1>4. (i + Rel(c, i, j)) % c.size =
        IF i + Rel(c, i, j) < c.size THEN i + Rel(c, i, j) ELSE i + Rel(c, i, j) - c.size
  BY <1>2, StepFacts
<1>5. (i + Rel(c, i, j)) % c.size = j
  BY <1>1, <1>4 DEF Rel
<1> QED BY <1>2, <1>3, <1>5

\* Numbering the slots from i changes neither what lies on the way nor what may
\* move.
LEMMA Rotation ==
  ASSUME NEW c, Sized(c), NEW i \in Places(c), NEW a \in Places(c), NEW x \in Places(c), NEW b \in Places(c)
  PROVE  /\ OnWay(a, x, b) <=> OnWay(Rel(c, i, a), Rel(c, i, x), Rel(c, i, b))
         /\ Rel(c, i, a) = Rel(c, i, b) <=> a = b
         /\ Rel(c, i, x) < Rel(c, i, b) =>
              (MayFall(x, b, a) <=> Rel(c, i, a) <= Rel(c, i, x) \/ Rel(c, i, a) > Rel(c, i, b))
<1>1. c.size \in Nat /\ i \in Nat /\ a \in Nat /\ x \in Nat /\ b \in Nat
  BY SlotFacts DEF Places
<1>2. i < c.size /\ a < c.size /\ x < c.size /\ b < c.size
  BY SlotFacts DEF Places
<1>3. OnWay(a, x, b) <=> OnWay(Rel(c, i, a), Rel(c, i, x), Rel(c, i, b))
  BY <1>1, <1>2 DEF OnWay, Rel
<1>4. Rel(c, i, a) = Rel(c, i, b) <=> a = b
  BY <1>1, <1>2 DEF Rel
<1>5. Rel(c, i, x) < Rel(c, i, b) =>
        (MayFall(x, b, a) <=> Rel(c, i, a) <= Rel(c, i, x) \/ Rel(c, i, a) > Rel(c, i, b))
  BY <1>1, <1>2, SMTT(30) DEF MayFall, Rel
<1> QED BY <1>3, <1>4, <1>5

\* What is passed on the way from the first slot comes before the end of the way.
LEMMA OnWayFromFirst ==
  ASSUME NEW c, Sized(c), NEW x \in Places(c), NEW m \in Places(c), OnWay(0, x, m)
  PROVE  x < m
BY DEF OnWay, Places

-----------------------------------------------------------------------------
\* Where a probe ends: every slot before it is occupied by another key, and it
\* is vacant or has the key.
LEMMA ProbeFacts ==
  ASSUME NEW c, Sized(c), NEW E, Scheme(c, E), NEW t \in Tables(c, E), NEW k \in c.keys,
         \E j \in Places(c) : t[j] = c.none
  PROVE  /\ ProbeEnd(c, t, k) \in Places(c)
         /\ t[ProbeEnd(c, t, k)] = c.none \/ c.key[t[ProbeEnd(c, t, k)]] = k
         /\ \A x \in Places(c) : OnWay(c.home[k], x, ProbeEnd(c, t, k)) =>
              t[x] # c.none /\ c.key[t[x]] # k
<1> DEFINE h == c.home[k]
           at(d) == (h + d) % c.size
           S == {d \in Places(c) : t[at(d)] = c.none \/ c.key[t[at(d)]] = k}
           m == Min(S)
           p == at(m)
<1>1. h \in Places(c)
  BY DEF Scheme, Places
<1>2. \A j \in Places(c) : Rel(c, h, j) \in Places(c) /\ at(Rel(c, h, j)) = j
  BY <1>1, RelFacts
<1>3. \A d \in Places(c) : at(d) \in Places(c) /\ Rel(c, h, at(d)) = d
  BY <1>1, StepFacts
<1>4. S # {} /\ S \in SUBSET Nat
  <2>1. PICK j \in Places(c) : t[j] = c.none
    OBVIOUS
  <2>2. Rel(c, h, j) \in S
    BY <1>2, <2>1, SMTT(30)
  <2>3. Places(c) \in SUBSET Nat /\ S \in SUBSET Places(c)
    BY SlotFacts DEF Places
  <2> HIDE DEF S
  <2> QED BY <2>2, <2>3
<1>5. m \in S /\ \A d \in S : m <= d
  BY <1>4, MinOfNaturals
<1>6. ProbeEnd(c, t, k) = p
  BY DEF ProbeEnd
<1>7. m \in Places(c) /\ p \in Places(c) /\ Rel(c, h, p) = m
  BY <1>3, <1>5
<1>8. t[p] = c.none \/ c.key[t[p]] = k
  BY <1>5
<1>9. ASSUME NEW x \in Places(c), OnWay(h, x, p)
      PROVE  t[x] # c.none /\ c.key[t[x]] # k
  <2>1. OnWay(Rel(c, h, h), Rel(c, h, x), Rel(c, h, p)) /\ Rel(c, h, h) = 0
    <3>1. Rel(c, h, h) = 0
      BY <1>1, RelFacts
    <3> HIDE DEF h, p
    <3>2. OnWay(h, x, p)
      BY <1>9
    <3> QED BY <1>1, <1>7, <3>1, <3>2, Rotation
  <2>2. Rel(c, h, x) \in Places(c) /\ Rel(c, h, x) < m
    <3>1. OnWay(0, Rel(c, h, x), m)
      BY <1>7, <2>1
    <3>2. Rel(c, h, x) \in Places(c) /\ m \in Places(c)
      BY <1>2, <1>7
    <3> HIDE DEF h, m
    <3> QED BY <3>1, <3>2, OnWayFromFirst
  <2>3. ~ m <= Rel(c, h, x)
    <3> HIDE DEF h, m
    <3>1. m \in Nat /\ Rel(c, h, x) \in Nat
      BY <1>7, <2>2, SlotFacts DEF Places
    <3> QED BY <2>2, <3>1
  <2>4. Rel(c, h, x) \notin S
    BY <1>5, <2>3
  <2> QED BY <1>2, <2>2, <2>4
<1> QED BY <1>6, <1>7, <1>8, <1>9

\* Of two slots one is passed on the way to the other.
LEMMA OneIsOnTheWay ==
  ASSUME NEW c, Sized(c), NEW a \in Places(c), NEW x \in Places(c), NEW y \in Places(c), x # y
  PROVE  OnWay(a, x, y) \/ OnWay(a, y, x)
<1>1. c.size \in Nat /\ a \in Nat /\ x \in Nat /\ y \in Nat
  BY SlotFacts DEF Places
<1> QED BY <1>1 DEF OnWay

\* A probe of a sound table finds the entry with the key, and nothing else.
LEMMA FindFacts ==
  ASSUME NEW c, Sized(c), NEW E, Scheme(c, E), NEW t \in Tables(c, E), Sound(c, t),
         \E j \in Places(c) : t[j] = c.none
  PROVE  /\ \A j \in Taken(c, t) : ProbeEnd(c, t, c.key[t[j]]) = j
         /\ \A k \in c.keys : t[ProbeEnd(c, t, k)] # c.none =>
              /\ ProbeEnd(c, t, k) \in Taken(c, t)
              /\ c.key[t[ProbeEnd(c, t, k)]] = k
         /\ \A k \in c.keys : t[ProbeEnd(c, t, k)] = c.none =>
              \A j \in Taken(c, t) : c.key[t[j]] # k
<1>1. ASSUME NEW j \in Taken(c, t)
      PROVE  ProbeEnd(c, t, c.key[t[j]]) = j
  <2> DEFINE k == c.key[t[j]]
             p == ProbeEnd(c, t, k)
  <2>1. j \in Places(c) /\ t[j] \in E /\ k \in c.keys
    BY DEF Taken, Tables, Scheme
  <2>2. /\ p \in Places(c) /\ (t[p] = c.none \/ c.key[t[p]] = k)
        /\ \A x \in Places(c) : OnWay(c.home[k], x, p) => t[x] # c.none /\ c.key[t[x]] # k
    BY <2>1, ProbeFacts
  <2>3. c.home[k] \in Places(c)
    BY <2>1 DEF Scheme
  <2> SUFFICES ASSUME p # j PROVE FALSE
    OBVIOUS
  <2>4. ~ OnWay(c.home[k], j, p)
    BY <2>1, <2>2
  <2>5. OnWay(c.home[k], p, j)
    BY <2>1, <2>2, <2>3, <2>4, OneIsOnTheWay
  <2>6. t[p] # c.none
    BY <2>2, <2>5 DEF Sound, Chained
  <2>7. p \in Taken(c, t) /\ c.key[t[p]] = c.key[t[j]]
    BY <2>2, <2>6 DEF Taken
  <2> QED BY <2>7 DEF Sound, Distinct
<1>2. ASSUME NEW k \in c.keys, t[ProbeEnd(c, t, k)] # c.none
      PROVE  ProbeEnd(c, t, k) \in Taken(c, t) /\ c.key[t[ProbeEnd(c, t, k)]] = k
  BY <1>2, ProbeFacts DEF Taken
<1>3. ASSUME NEW k \in c.keys, t[ProbeEnd(c, t, k)] = c.none, NEW j \in Taken(c, t)
      PROVE  c.key[t[j]] # k
  BY <1>1, <1>3 DEF Taken
<1> QED BY <1>1, <1>2, <1>3

\* An entry that goes where its probe ends, and is not there yet, leaves the table
\* sound.
LEMMA InsertFacts ==
  ASSUME NEW c, Sized(c), NEW E, Scheme(c, E), NEW t \in Tables(c, E), Sound(c, t),
         \E j \in Places(c) : t[j] = c.none,
         NEW e \in E, t[ProbeEnd(c, t, c.key[e])] = c.none
  PROVE  /\ ProbeEnd(c, t, c.key[e]) \in Places(c)
         /\ [t EXCEPT ![ProbeEnd(c, t, c.key[e])] = e] \in Tables(c, E)
         /\ Sound(c, [t EXCEPT ![ProbeEnd(c, t, c.key[e])] = e])
<1> DEFINE k == c.key[e]
           p == ProbeEnd(c, t, k)
           u == [t EXCEPT ![p] = e]
<1>1. k \in c.keys /\ e # c.none
  BY DEF Scheme
<1>2. /\ p \in Places(c)
      /\ \A x \in Places(c) : OnWay(c.home[k], x, p) => t[x] # c.none /\ c.key[t[x]] # k
  BY <1>1, ProbeFacts
<1>3. t[p] = c.none /\ \A j \in Taken(c, t) : c.key[t[j]] # k
  BY <1>1, FindFacts
<1> HIDE DEF p
<1>6. u \in Tables(c, E) /\ u[p] = e /\ \A j \in Places(c) : j # p => u[j] = t[j]
  BY <1>2 DEF Tables
<1> HIDE DEF u
<1>7. Chained(c, u)
  <2> SUFFICES ASSUME NEW j \in Taken(c, u), NEW x \in Places(c), OnWay(c.home[c.key[u[j]]], x, j)
               PROVE  u[x] # c.none
    BY DEF Chained
  <2>1. CASE x = p
    BY <1>1, <1>6, <2>1
  <2>2. CASE x # p /\ j = p
    BY <1>2, <1>6, <2>2
  <2>3. CASE x # p /\ j # p
    <3>1. j \in Taken(c, t) /\ u[j] = t[j] /\ u[x] = t[x]
      BY <1>6, <2>3 DEF Taken
    <3> QED BY <3>1 DEF Sound, Chained
  <2> QED BY <2>1, <2>2, <2>3
<1>8. Distinct(c, u)
  <2> SUFFICES ASSUME NEW i \in Taken(c, u), NEW j \in Taken(c, u),
                      c.key[u[i]] = c.key[u[j]]
               PROVE  i = j
    BY DEF Distinct
  <2>1. \A m \in Taken(c, u) : m # p => m \in Taken(c, t) /\ u[m] = t[m]
    BY <1>6 DEF Taken
  <2> QED BY <1>3, <1>6, <2>1 DEF Sound, Distinct
<1> QED BY <1>2, <1>6, <1>7, <1>8 DEF Sound, u, p, k

\* An entry that keeps its key leaves the table sound.
LEMMA ChangeFacts ==
  ASSUME NEW c, Sized(c), NEW E, NEW t \in Tables(c, E), Sound(c, t), NEW j \in Taken(c, t),
         NEW changed \in Tables(c, E), changed[j] # c.none, c.key[changed[j]] = c.key[t[j]],
         \A x \in Places(c) : x # j => changed[x] = t[x]
  PROVE  Sound(c, changed)
<1>1. \A x \in Places(c) : changed[x] # c.none <=> t[x] # c.none
  BY DEF Taken
<1>2. \A x \in Taken(c, changed) : x \in Taken(c, t) /\ c.key[changed[x]] = c.key[t[x]]
  BY <1>1 DEF Taken
<1>3. Chained(c, changed)
  BY <1>1, <1>2 DEF Sound, Chained
<1>4. Distinct(c, changed)
  BY <1>2 DEF Sound, Distinct
<1> QED BY <1>3, <1>4 DEF Sound

-----------------------------------------------------------------------------
\* A slot changes: the weights change by the difference.
LEMMA WeightOfChange ==
  ASSUME NEW c, Sized(c), NEW E, NEW t \in Tables(c, E), NEW v \in Measures(c, E),
         NEW j \in Places(c), NEW e \in E \cup {c.none}
  PROVE  /\ Weight(c, [t EXCEPT ![j] = e], v) + v[t[j]] = Weight(c, t, v) + v[e]
         /\ Weight(c, t, v) \in Nat /\ Weight(c, [t EXCEPT ![j] = e], v) \in Nat
         /\ v[t[j]] <= Weight(c, t, v)
<1> DEFINE u == [t EXCEPT ![j] = e]
           f == [i \in Places(c) |-> v[t[i]]]
           g == [i \in Places(c) |-> v[u[i]]]
           S == Places(c) \ {j}
<1>0. v \in [E \cup {c.none} -> Nat]
  BY DEF Measures
<1>1. t \in [Places(c) -> E \cup {c.none}]
  BY DEF Tables
<1>2. u \in [Places(c) -> E \cup {c.none}] /\ u[j] = e /\ \A i \in S : u[i] = t[i]
  BY <1>1
<1> HIDE DEF u
<1>3. /\ \A i \in Places(c) : f[i] \in Nat /\ g[i] \in Nat
      /\ f[j] = v[t[j]] /\ g[j] = v[e]
      /\ \A i \in S : f[i] = g[i]
  BY <1>0, <1>1, <1>2
<1> HIDE DEF f, g
<1>4. IsFiniteSet(Places(c)) /\ IsFiniteSet(S)
  BY SlotFacts, FS_Subset
<1>5. /\ SumFunctionOnSet(f, Places(c)) = f[j] + SumFunctionOnSet(f, S)
      /\ SumFunctionOnSet(g, Places(c)) = g[j] + SumFunctionOnSet(g, S)
  BY <1>3, <1>4, SumRemove
<1>6. \A i \in S : f[i] \in Nat
  BY <1>3
<1> HIDE DEF S
<1>7. SumFunctionOnSet(f, S) = SumFunctionOnSet(g, S) /\ SumFunctionOnSet(f, S) \in Nat
  BY <1>3, <1>4, <1>6, SumFacts, SumType
<1>8. Weight(c, t, v) = f[j] + SumFunctionOnSet(f, S) /\ Weight(c, u, v) = g[j] + SumFunctionOnSet(g, S)
  BY <1>5 DEF Weight, f, g
<1>9. f[j] \in Nat /\ g[j] \in Nat
  BY <1>3
<1> QED BY <1>3, <1>7, <1>8, <1>9 DEF u

\* An entry goes: the weights are less by what it weighed.
LEMMA WeightOfVacating ==
  ASSUME NEW c, Sized(c), NEW E, NEW t \in Tables(c, E), NEW v \in Measures(c, E),
         NEW j \in Places(c)
  PROVE  /\ Weight(c, [t EXCEPT ![j] = c.none], v) + v[t[j]] = Weight(c, t, v)
         /\ Weight(c, [t EXCEPT ![j] = c.none], v) \in Nat
         /\ Weight(c, t, v) \in Nat /\ v[t[j]] \in Nat
<1>1. PICK e \in E \cup {c.none} : e = c.none
  OBVIOUS
<1>2. /\ Weight(c, t, v) \in Nat /\ Weight(c, [t EXCEPT ![j] = e], v) \in Nat
  BY WeightOfChange
<1>3. v[t[j]] \in Nat /\ v[e] \in Nat /\ v[e] = 0
  BY <1>1 DEF Tables, Measures
<1>4. Weight(c, [t EXCEPT ![j] = e], v) + v[t[j]] = Weight(c, t, v) + v[e]
  BY <1>2, <1>3, WeightOfChange, SMTT(30)
<1> DEFINE u == [t EXCEPT ![j] = e]
<1>5. Weight(c, u, v) + v[t[j]] = Weight(c, t, v)
  <2>1. Weight(c, u, v) \in Nat /\ Weight(c, u, v) + v[t[j]] = Weight(c, t, v) + v[e]
    BY <1>2, <1>4
  <2> HIDE DEF u
  <2> QED BY <1>2, <1>3, <2>1
<1> QED BY <1>1, <1>2, <1>3, <1>5

\* What is not counted may be left out of the weight.
LEMMA WeightOfSome ==
  ASSUME NEW c, Sized(c), NEW E, NEW t \in Tables(c, E), NEW v \in Measures(c, E), NEW W \in SUBSET Places(c),
         \A j \in Places(c) \ W : v[t[j]] = 0
  PROVE  /\ Weight(c, t, v) \in Nat
         /\ \A f : (\A j \in W : f[j] = v[t[j]]) => Weight(c, t, v) = SumFunctionOnSet(f, W)
         /\ (\A j \in W : v[t[j]] = 1) => Weight(c, t, v) = Cardinality(W)
<1> DEFINE g == [j \in Places(c) |-> v[t[j]]]
<1>1. \A j \in Places(c) : v[t[j]] \in Nat /\ g[j] = v[t[j]]
  BY DEF Tables, Measures
<1>2. IsFiniteSet(Places(c)) /\ IsFiniteSet(W)
  BY SlotFacts, FS_Subset
<1>3. Weight(c, t, v) = SumFunctionOnSet(g, Places(c))
  BY DEF Weight
<1> HIDE DEF g
<1>4. SumFunctionOnSet(g, Places(c)) \in Nat
  BY <1>1, <1>2, SumType
<1>5. SumFunctionOnSet(g, Places(c)) = SumFunctionOnSet(g, W)
  BY <1>1, <1>2, SumOfSome
<1>6. ASSUME NEW f, \A j \in W : f[j] = v[t[j]]
      PROVE  SumFunctionOnSet(g, W) = SumFunctionOnSet(f, W)
  <2>1. \A j \in W : g[j] = f[j]
    BY <1>1, <1>6
  <2> QED BY <1>2, <2>1, SumFacts
<1>7. ASSUME \A j \in W : v[t[j]] = 1
      PROVE  SumFunctionOnSet(g, W) = Cardinality(W)
  <2>1. \A j \in W : g[j] = 1
    BY <1>1, <1>7
  <2> QED BY <1>2, <2>1, SumOfOnes
<1> QED BY <1>3, <1>4, <1>5, <1>6, <1>7

\* A table weighs nothing when none of its entries counts, and only then.
LEMMA WeightOfNothing ==
  ASSUME NEW c, Sized(c), NEW E, NEW t \in Tables(c, E), NEW v \in Measures(c, E)
  PROVE  Weight(c, t, v) = 0 <=> \A j \in Places(c) : v[t[j]] = 0
<1>1. ASSUME \A j \in Places(c) : v[t[j]] = 0
      PROVE  Weight(c, t, v) = 0
  <2> DEFINE g == [j \in Places(c) |-> v[t[j]]]
  <2>1. \A j \in Places(c) : g[j] = 0
    BY <1>1
  <2>2. Weight(c, t, v) = SumFunctionOnSet(g, Places(c))
    BY DEF Weight
  <2> HIDE DEF g
  <2> QED BY <2>1, <2>2, SlotFacts, SumOfZeros
<1>2. ASSUME Weight(c, t, v) = 0, NEW j \in Places(c)
      PROVE  v[t[j]] = 0
  <2>1. PICK e \in E \cup {c.none} : e = t[j]
    BY DEF Tables
  <2>2. v[t[j]] \in Nat
    BY DEF Tables, Measures
  <2>3. v[t[j]] <= Weight(c, t, v)
    BY <2>1, WeightOfChange
  <2> QED BY <1>2, <2>2, <2>3
<1> QED BY <1>1, <1>2

-----------------------------------------------------------------------------
(***************************************************************************)
(* The walk of erase_at behind slot i of table t, as far as the vacant     *)
(* slot that ends the cluster, r slots further on.                         *)
(***************************************************************************)
Cluster(c, t, i, r) ==
  /\ t[(i + r) % c.size] = c.none
  /\ \A d \in 1 .. r - 1 : t[(i + d) % c.size] # c.none

Vacated(c, t, i) == [hole |-> i, table |-> [t EXCEPT ![i] = c.none]]

\* w is that walk, entry by entry.
Walk(c, E, t, i, r, w) ==
  /\ w[0] = Vacated(c, t, i)
  /\ \A d \in 1 .. r - 1 :
       LET j == (i + d) % c.size
       IN  /\ w[d - 1].hole \in Places(c) /\ w[d - 1].table \in Tables(c, E)
           /\ j \in Taken(c, w[d - 1].table)
           => w[d] = Tumble(c, w[d - 1], j)

\* The entry e is in slot j, r slots or less from i: it has not passed the end of
\* the cluster, or it has come all the way round the table to where it is.
Near(c, t, i, r, j, e) ==
  LET h == Rel(c, i, c.home[c.key[e]])
  IN  \/ h <= Rel(c, i, j)
      \/ h > r /\ \A x \in Places(c) : Rel(c, i, x) >= h => t[x] # c.none

\* d slots behind i have been looked at, of r: what is behind them is as it was,
\* the cluster has one hole, what is behind the hole would not be found in it.
Walked(c, E, t, i, r, v, d, hole, u) ==
  /\ hole \in Places(c) /\ u \in Tables(c, E) /\ Rel(c, i, hole) <= d /\ u[hole] = c.none
  /\ \A j \in Places(c) : Rel(c, i, j) > d => u[j] = t[j]
  /\ \A j \in Places(c) : j # hole /\ Rel(c, i, j) < r => u[j] # c.none
  /\ Distinct(c, u)
  /\ \A j \in Taken(c, u) : \E k \in Taken(c, t) : k # i /\ u[j] = t[k]
  /\ \A j \in Taken(c, u) : Rel(c, i, j) < r => Near(c, t, i, r, j, u[j])
  /\ \A j \in Taken(c, u) : Rel(c, i, hole) < Rel(c, i, j) /\ Rel(c, i, j) <= d =>
       /\ Rel(c, i, hole) < Rel(c, i, c.home[c.key[u[j]]])
       /\ Rel(c, i, c.home[c.key[u[j]]]) <= Rel(c, i, j)
  /\ Weight(c, u, v) + v[t[i]] = Weight(c, t, v)

\* The walk begins with the hole where the entry was.
LEMMA WalkStarts ==
  ASSUME NEW c, Sized(c), NEW E, Scheme(c, E), NEW t \in Tables(c, E), Sound(c, t), NEW i \in Taken(c, t),
         NEW r \in Places(c), Cluster(c, t, i, r),
         NEW v \in Measures(c, E)
  PROVE  Walked(c, E, t, i, r, v, 0, i, [t EXCEPT ![i] = c.none])
<1> DEFINE u == [t EXCEPT ![i] = c.none]
<1>1. i \in Places(c) /\ t[i] # c.none /\ t \in [Places(c) -> E \cup {c.none}]
  BY DEF Taken, Tables
<1>2. u \in Tables(c, E) /\ u[i] = c.none /\ \A j \in Places(c) : j # i => u[j] = t[j]
  BY <1>1 DEF Tables
<1>3. \A j \in Places(c) : Rel(c, i, j) \in Nat /\ Rel(c, i, j) < c.size /\ (Rel(c, i, j) = 0 <=> j = i)
  <2>1. \A j \in Places(c) : Rel(c, i, j) \in Places(c) /\ (Rel(c, i, j) = 0 <=> j = i)
    BY <1>1, RelFacts
  <2> QED BY <2>1, SlotFacts, SMTT(30) DEF Places
<1>4. Rel(c, i, i) = 0
  BY <1>1, <1>3
<1>5. r \in Nat
  BY DEF Places
<1>6. Weight(c, u, v) + v[t[i]] = Weight(c, t, v)
  <2>1. Weight(c, u, v) \in Nat /\ Weight(c, t, v) \in Nat /\ v[t[i]] \in Nat
    BY <1>1, WeightOfVacating
  <2> QED BY <1>1, <2>1, WeightOfVacating
<1> HIDE DEF u
<1>7. \A j \in Places(c) : Rel(c, i, j) > 0 => u[j] = t[j]
  BY <1>2, <1>4
<1>8. ASSUME NEW j \in Places(c), j # i, Rel(c, i, j) < r
      PROVE  u[j] # c.none
  <2>1. Rel(c, i, j) \in 1 .. r - 1
    BY <1>3, <1>5, <1>8
  <2>2. (i + Rel(c, i, j)) % c.size = j
    BY <1>1, RelFacts
  <2>3. t[(i + Rel(c, i, j)) % c.size] # c.none
    BY <2>1 DEF Cluster
  <2> QED BY <1>2, <1>8, <2>2, <2>3
<1>9. \A j \in Taken(c, u) : j \in Taken(c, t) /\ j # i /\ u[j] = t[j]
  BY <1>2 DEF Taken
<1>10. Distinct(c, u)
  BY <1>9 DEF Sound, Distinct
<1>11. ASSUME NEW j \in Taken(c, u), Rel(c, i, j) < r
       PROVE  Near(c, t, i, r, j, u[j])
  <2> DEFINE a == c.home[c.key[t[j]]]
             h == Rel(c, i, a)
  <2>1. j \in Taken(c, t) /\ u[j] = t[j] /\ j \in Places(c) /\ t[j] \in E
    BY <1>1, <1>9 DEF Taken
  <2>2. a \in Places(c)
    BY <2>1 DEF Scheme, Places, Scheme
  <2>3. h \in Nat
    BY <1>3, <2>2
  <2>4. \A x \in Places(c) : OnWay(h, Rel(c, i, x), Rel(c, i, j)) => t[x] # c.none
    BY <1>1, <2>1, <2>2, Rotation DEF Sound, Chained
  <2> HIDE DEF h
  <2>5. CASE h <= Rel(c, i, j)
    BY <2>1, <2>5 DEF Near, h
  <2>6. CASE h > Rel(c, i, j)
    <3>1. ASSUME NEW x \in Places(c), Rel(c, i, x) >= h
          PROVE  t[x] # c.none
      <4>1. OnWay(h, Rel(c, i, x), Rel(c, i, j))
        BY <1>3, <2>1, <2>3, <2>6, <3>1 DEF OnWay
      <4> QED BY <2>4, <4>1
    <3>2. h > r
      <4>1. (i + r) % c.size \in Places(c) /\ Rel(c, i, (i + r) % c.size) = r
        BY <1>1, StepFacts
      <4>2. ~ r >= h
        BY <3>1, <4>1 DEF Cluster
      <4> QED BY <1>5, <2>3, <4>2
    <3> QED BY <2>1, <3>1, <3>2 DEF Near, h
  <2> QED BY <1>3, <2>1, <2>3, <2>5, <2>6
<1>12. \A j \in Taken(c, u) : ~ (Rel(c, i, i) < Rel(c, i, j) /\ Rel(c, i, j) <= 0)
  BY <1>3, <1>4 DEF Taken
<1>13. Rel(c, i, i) <= 0
  BY <1>4
<1> QED BY <1>1, <1>2, <1>6, <1>7, <1>8, <1>9, <1>10, <1>11, <1>12, <1>13 DEF Walked, u

\* An entry comes to a vacant slot: the weights are more by what it weighs.
LEMMA WeightOfFilling ==
  ASSUME NEW c, Sized(c), NEW E, NEW t \in Tables(c, E), NEW v \in Measures(c, E),
         NEW j \in Places(c), t[j] = c.none, NEW e \in E,
         NEW filled \in Tables(c, E), filled[j] = e, \A x \in Places(c) : x # j => filled[x] = t[x]
  PROVE  Weight(c, filled, v) = Weight(c, t, v) + v[e]
<1> DEFINE u == [t EXCEPT ![j] = e]
<1>0. filled = u
  BY DEF Tables
<1>1. Weight(c, t, v) \in Nat /\ Weight(c, u, v) \in Nat
  BY WeightOfChange
<1>2. v[t[j]] = 0 /\ v[e] \in Nat
  BY DEF Measures
<1>3. Weight(c, u, v) + v[t[j]] = Weight(c, t, v) + v[e]
  BY <1>1, <1>2, WeightOfChange
<1> HIDE DEF u
<1>4. Weight(c, u, v) + 0 = Weight(c, t, v) + v[e]
  BY <1>2, <1>3
<1>5. Weight(c, u, v) = Weight(c, t, v) + v[e]
  BY <1>1, <1>4
<1> QED BY <1>0, <1>5

\* An entry moves to a vacant slot: nothing changes in the weights.
LEMMA WeightOfMove ==
  ASSUME NEW c, Sized(c), NEW E, NEW t \in Tables(c, E), NEW v \in Measures(c, E),
         NEW hole \in Places(c), t[hole] = c.none, NEW j \in Places(c), j # hole,
         NEW moved \in Tables(c, E), moved[hole] = t[j], moved[j] = c.none,
         \A x \in Places(c) : x # j /\ x # hole => moved[x] = t[x]
  PROVE  Weight(c, moved, v) = Weight(c, t, v)
<1>1. PICK e \in E \cup {c.none} : e = t[j]
  BY DEF Tables
<1> DEFINE s == [t EXCEPT ![hole] = e]
           u == [s EXCEPT ![j] = c.none]
<1>2. s \in Tables(c, E) /\ s[j] = e
  BY <1>1 DEF Tables
<1>3. Weight(c, s, v) \in Nat /\ Weight(c, t, v) \in Nat
  BY WeightOfChange
<1>4. v[t[hole]] = 0 /\ v[e] \in Nat
  BY DEF Measures
<1>5. Weight(c, s, v) + v[t[hole]] = Weight(c, t, v) + v[e]
  BY WeightOfChange
<1>6. moved = u
  BY <1>1 DEF Tables
<1> HIDE DEF s
<1>7. Weight(c, u, v) \in Nat
  BY <1>2, WeightOfVacating
<1>8. Weight(c, u, v) + v[s[j]] = Weight(c, s, v)
  BY <1>2, <1>3, <1>4, <1>7, WeightOfVacating
<1> HIDE DEF u
<1>9. Weight(c, u, v) + v[e] = Weight(c, s, v)
  BY <1>2, <1>8
<1>10. Weight(c, s, v) + 0 = Weight(c, t, v) + v[e]
  BY <1>4, <1>5
<1>11. Weight(c, u, v) = Weight(c, t, v)
  BY <1>3, <1>4, <1>7, <1>9, <1>10
<1> QED BY <1>6, <1>11

\* The next entry of the cluster falls into the hole, or it may not.
LEMMA WalkContinues ==
  ASSUME NEW c, Sized(c), NEW E, Scheme(c, E), NEW t \in Tables(c, E), NEW i \in Taken(c, t),
         NEW r \in Places(c), NEW v \in Measures(c, E),
         NEW d \in Nat, 0 < d, d < r, NEW j \in Places(c), Rel(c, i, j) = d,
         NEW was, NEW hole, NEW u, was.hole = hole, was.table = u,
         Walked(c, E, t, i, r, v, d - 1, hole, u)
  PROVE  LET now == Tumble(c, was, j)
         IN  Walked(c, E, t, i, r, v, d, now.hole, now.table)
<1> DEFINE e == u[j]
           p == Rel(c, i, hole)
           h == Rel(c, i, c.home[c.key[e]])
           now == Tumble(c, was, j)
<1> SUFFICES Walked(c, E, t, i, r, v, d, now.hole, now.table)
  OBVIOUS
<1> HIDE DEF now
<1>1. i \in Places(c) /\ t[i] # c.none
  BY DEF Taken
<1>2. j \in Places(c) /\ Rel(c, i, j) = d
  OBVIOUS
<1>3. /\ hole \in Places(c) /\ u \in Tables(c, E) /\ p <= d - 1 /\ u[hole] = c.none
      /\ \A x \in Places(c) : Rel(c, i, x) > d - 1 => u[x] = t[x]
      /\ \A x \in Places(c) : x # hole /\ Rel(c, i, x) < r => u[x] # c.none
      /\ Distinct(c, u)
  BY DEF Walked
<1>4. /\ \A x \in Taken(c, u) : \E k \in Taken(c, t) : k # i /\ u[x] = t[k]
      /\ \A x \in Taken(c, u) : Rel(c, i, x) < r => Near(c, t, i, r, x, u[x])
      /\ \A x \in Taken(c, u) : p < Rel(c, i, x) /\ Rel(c, i, x) <= d - 1 =>
           p < Rel(c, i, c.home[c.key[u[x]]]) /\ Rel(c, i, c.home[c.key[u[x]]]) <= Rel(c, i, x)
      /\ Weight(c, u, v) + v[t[i]] = Weight(c, t, v)
  BY DEF Walked
<1>5. /\ c.size \in Nat /\ r \in Nat /\ d \in Nat
      /\ \A x \in Places(c) : Rel(c, i, x) \in Nat /\ Rel(c, i, x) < c.size
  <2>1. \A x \in Places(c) : Rel(c, i, x) \in Places(c)
    BY <1>1, RelFacts
  <2>2. \A x \in Places(c) : x \in Nat /\ x < c.size
    BY SlotFacts DEF Places
  <2> QED BY <2>1, <2>2, SlotFacts
<1>6. j # hole /\ e # c.none /\ j \in Taken(c, u)
  <2>1. j # hole
    <3> SUFFICES ASSUME j = hole PROVE FALSE
      OBVIOUS
    <3>1. d <= d - 1
      BY <1>2, <1>3
    <3> QED BY <1>5, <3>1
  <2>2. Rel(c, i, j) < r
    BY <1>2
  <2> QED BY <1>2, <1>3, <2>1, <2>2 DEF Taken
<1>7. c.home[c.key[e]] \in Places(c) /\ e \in E
  BY <1>2, <1>3, <1>6 DEF Tables, Scheme, Places
<1>8. h \in Nat /\ p \in Nat
  BY <1>3, <1>5, <1>7
<1>9. MayFall(hole, j, c.home[c.key[e]]) <=> h <= p \/ h > d
  <2> DEFINE a == c.home[c.key[e]]
  <2>1. a \in Places(c) /\ Rel(c, i, a) = h /\ Rel(c, i, hole) = p
    BY <1>7
  <2> HIDE DEF a, h, p
  <2>2. Rel(c, i, hole) < Rel(c, i, j)
    BY <1>2, <1>3, <1>5, <1>8, <2>1
  <2>3. MayFall(hole, j, a) <=> Rel(c, i, a) <= Rel(c, i, hole) \/ Rel(c, i, a) > Rel(c, i, j)
    BY <1>1, <1>2, <1>3, <2>1, <2>2, Rotation
  <2>4. MayFall(hole, j, a) <=> h <= p \/ h > d
    BY <1>2, <2>1, <2>3
  <2> QED BY <2>4 DEF a
<1>10. CASE ~ MayFall(hole, j, c.home[c.key[e]])
  <2>1. now.hole = hole /\ now.table = u
    BY <1>10 DEF now, Tumble
  <2>2. p < h /\ h <= d
    BY <1>5, <1>8, <1>9, <1>10
  <2>3. p <= d /\ \A x \in Places(c) : Rel(c, i, x) > d => u[x] = t[x]
    BY <1>3, <1>5, <1>8
  <2>4. ASSUME NEW x \in Taken(c, u), p < Rel(c, i, x), Rel(c, i, x) <= d
        PROVE  p < Rel(c, i, c.home[c.key[u[x]]]) /\ Rel(c, i, c.home[c.key[u[x]]]) <= Rel(c, i, x)
    <3>1. x \in Places(c) /\ Rel(c, i, x) \in Nat
      BY <1>5 DEF Taken
    <3>2. CASE x = j
      BY <1>2, <2>2, <3>2
    <3>3. CASE x # j
      <4>1. Rel(c, i, x) # d
        BY <1>1, <1>2, <3>1, <3>3, Rotation
      <4>2. Rel(c, i, x) <= d - 1
        BY <1>5, <2>4, <3>1, <4>1
      <4> QED BY <1>4, <2>4, <4>2
    <3> QED BY <3>2, <3>3
  <2>5. Walked(c, E, t, i, r, v, d, hole, u)
    BY <1>3, <1>4, <2>3, <2>4 DEF Walked
  <2> QED BY <2>1, <2>5
<1>11. CASE MayFall(hole, j, c.home[c.key[e]])
  <2> DEFINE w == [u EXCEPT ![hole] = e, ![j] = c.none]
             back(x) == IF x = hole THEN j ELSE x
  <2>1. now.hole = j /\ now.table = w
    BY <1>11 DEF now, Tumble
  <2>2. h <= p \/ h > d
    BY <1>9, <1>11
  <2>4. /\ w \in Tables(c, E) /\ w[j] = c.none /\ w[hole] = e
        /\ \A x \in Places(c) : x # j /\ x # hole => w[x] = u[x]
    BY <1>2, <1>3, <1>6 DEF Tables
  <2> HIDE DEF w
  <2>3. Weight(c, w, v) + v[t[i]] = Weight(c, t, v)
    <3> HIDE DEF e, h, p
    <3>1. Weight(c, w, v) = Weight(c, u, v)
      <4>1. e = u[j]
        BY DEF e
      <4> QED BY <1>2, <1>3, <1>6, <2>4, <4>1, WeightOfMove
    <3> QED BY <1>4, <3>1
  <2>5. \A x \in Taken(c, w) : x # j /\ x \in Places(c) /\ back(x) \in Taken(c, u) /\ w[x] = u[back(x)]
    BY <1>6, <2>4 DEF Taken
  <2>6. \A x, y \in Taken(c, w) : back(x) = back(y) => x = y
    BY <2>5
  <2> HIDE DEF back
  <2>7. Rel(c, i, j) <= d /\ \A x \in Places(c) : Rel(c, i, x) > d => w[x] = t[x]
    <3>1. Rel(c, i, j) <= d
      BY <1>2, <1>5
    <3>2. ASSUME NEW x \in Places(c), Rel(c, i, x) > d
          PROVE  w[x] = t[x]
      BY <1>2, <1>3, <1>5, <1>8, <2>4, <3>2
    <3> QED BY <3>1, <3>2
  <2>8. \A x \in Places(c) : x # j /\ Rel(c, i, x) < r => w[x] # c.none
    BY <1>3, <1>6, <2>4
  <2>9. Distinct(c, w)
    BY <1>3, <2>5, <2>6 DEF Distinct
  <2>10. \A x \in Taken(c, w) : \E k \in Taken(c, t) : k # i /\ w[x] = t[k]
    BY <1>4, <2>5
  <2>11. ASSUME NEW x \in Taken(c, w), Rel(c, i, x) < r
         PROVE  Near(c, t, i, r, x, w[x])
    <3>1. CASE x = hole
      <4>1. Near(c, t, i, r, j, e)
        BY <1>2, <1>4, <1>6
      <4>2. h <= p \/ (h > r /\ \A y \in Places(c) : Rel(c, i, y) >= h => t[y] # c.none)
        <5> HIDE DEF h
        <5> DEFINE far == h > r /\ \A y \in Places(c) : Rel(c, i, y) >= h => t[y] # c.none
        <5> HIDE DEF p
        <5>1. h <= d \/ far
          BY <1>2, <4>1 DEF Near, h
        <5> HIDE DEF far
        <5>2. h <= p \/ far
          BY <1>5, <1>8, <2>2, <5>1
        <5>3. CASE h <= p
          BY <5>3
        <5>4. CASE far
          BY <5>4 DEF far
        <5> QED BY <5>2, <5>3, <5>4
      <4>3. Near(c, t, i, r, hole, e)
        BY <4>2 DEF Near
      <4> QED BY <2>4, <3>1, <4>3
    <3>2. CASE x # hole
      <4>1. x \in Taken(c, u) /\ w[x] = u[x]
        BY <2>5, <3>2 DEF back
      <4> QED BY <1>4, <2>11, <4>1
    <3> QED BY <3>1, <3>2
  <2>12. \A x \in Taken(c, w) : ~ (Rel(c, i, j) < Rel(c, i, x) /\ Rel(c, i, x) <= d)
    <3>1. \A x \in Taken(c, w) : Rel(c, i, x) \in Nat
      BY <1>5 DEF Taken
    <3> QED BY <1>2, <1>5, <3>1
  <2>13. Walked(c, E, t, i, r, v, d, j, w)
    BY <1>2, <2>3, <2>4, <2>7, <2>8, <2>9, <2>10, <2>11, <2>12 DEF Walked
  <2> QED BY <2>1, <2>13
<1> QED BY <1>10, <1>11

\* What holds on the way holds all the way.
LEMMA WalkHolds ==
  ASSUME NEW c, Sized(c), NEW E, Scheme(c, E), NEW t \in Tables(c, E), Sound(c, t), NEW i \in Taken(c, t),
         NEW r \in Places(c), 0 < r, Cluster(c, t, i, r), NEW v \in Measures(c, E),
         NEW w, Walk(c, E, t, i, r, w)
  PROVE  Walked(c, E, t, i, r, v, r - 1, w[r - 1].hole, w[r - 1].table)
<1> DEFINE At(d) == Walked(c, E, t, i, r, v, d, w[d].hole, w[d].table)
           N == {d \in Nat : d < r => At(d)}
<1>1. r \in Nat /\ r < c.size /\ c.size \in Nat /\ i \in Places(c)
  BY SlotFacts DEF Places, Taken
<1>2. w[0] = Vacated(c, t, i)
  BY DEF Walk
<1>4. \A d \in 1 .. r - 1 :
        LET j == (i + d) % c.size
        IN  /\ w[d - 1].hole \in Places(c) /\ w[d - 1].table \in Tables(c, E)
            /\ j \in Taken(c, w[d - 1].table)
            => w[d] = Tumble(c, w[d - 1], j)
  BY DEF Walk
<1>5. At(0)
  <2>1. w[0].hole = i /\ w[0].table = [t EXCEPT ![i] = c.none]
    BY <1>2 DEF Vacated
  <2> QED BY <2>1, WalkStarts
<1> HIDE DEF At
<1>6. ASSUME NEW n \in Nat, n \in N
      PROVE  n + 1 \in N
  <2>1. SUFFICES ASSUME n + 1 < r PROVE At(n + 1)
    OBVIOUS
  <2>2. At(n)
    BY <1>1, <1>6, <2>1
  <2> DEFINE d == n + 1
             j == (i + d) % c.size
  <2>3. d \in Nat /\ 0 < d /\ d < r /\ d - 1 = n /\ d \in 1 .. r - 1 /\ d \in Places(c)
    BY <1>1, <2>1 DEF Places
  <2> HIDE DEF d
  <2>4. j \in Places(c) /\ Rel(c, i, j) = d
    BY <1>1, <2>3, StepFacts
  <2>5. w[n].hole \in Places(c) /\ w[n].table \in Tables(c, E) /\ j \in Taken(c, w[n].table)
          => w[d] = Tumble(c, w[n], j)
    BY <1>4, <2>3
  <2> HIDE DEF j
  <2>6. Walked(c, E, t, i, r, v, d - 1, w[n].hole, w[n].table)
    BY <2>2, <2>3 DEF At
  <2>8. w[d] = Tumble(c, w[n], j)
    <3>1. /\ w[n].hole \in Places(c) /\ w[n].table \in Tables(c, E)
          /\ Rel(c, i, w[n].hole) <= d - 1
          /\ \A x \in Places(c) : x # w[n].hole /\ Rel(c, i, x) < r => w[n].table[x] # c.none
      BY <2>6 DEF Walked
    <3>2. j # w[n].hole
      BY <2>3, <2>4, <3>1
    <3> QED BY <2>3, <2>4, <2>5, <3>1, <3>2 DEF Taken
  <2>7. Walked(c, E, t, i, r, v, d, w[d].hole, w[d].table)
    BY <2>3, <2>4, <2>6, <2>8, WalkContinues
  <2> QED BY <2>7 DEF d, At
<1> HIDE DEF N
<1>7. 0 \in N
  BY <1>5 DEF N
<1>8. r - 1 \in N
  <2>1. Nat \subseteq N
    BY <1>6, <1>7, CountingUp
  <2> QED BY <1>1, <2>1
<1>9. At(r - 1)
  BY <1>1, <1>8 DEF N
<1> QED BY <1>9 DEF At

\* A table at the end of the walk is sound.
LEMMA WalkEnds ==
  ASSUME NEW c, Sized(c), NEW E, Scheme(c, E), NEW t \in Tables(c, E), Sound(c, t), NEW i \in Taken(c, t),
         NEW r \in Places(c), 0 < r, Cluster(c, t, i, r), NEW v \in Measures(c, E),
         NEW hole, NEW u, Walked(c, E, t, i, r, v, r - 1, hole, u)
  PROVE  Sound(c, u)
<1>1. i \in Places(c) /\ r \in Nat /\ hole \in Places(c) /\ u \in Tables(c, E) /\ u[hole] = c.none
  BY SlotFacts DEF Places, Taken, Walked
<1>2. /\ \A x \in Places(c) : Rel(c, i, x) > r - 1 => u[x] = t[x]
      /\ \A x \in Places(c) : x # hole /\ Rel(c, i, x) < r => u[x] # c.none
      /\ Distinct(c, u)
  BY DEF Walked
<1>3. /\ \A x \in Taken(c, u) : Rel(c, i, x) < r => Near(c, t, i, r, x, u[x])
      /\ \A x \in Taken(c, u) : Rel(c, i, hole) < Rel(c, i, x) /\ Rel(c, i, x) <= r - 1 =>
           /\ Rel(c, i, hole) < Rel(c, i, c.home[c.key[u[x]]])
           /\ Rel(c, i, c.home[c.key[u[x]]]) <= Rel(c, i, x)
  BY DEF Walked
<1>4. \A x \in Places(c) : Rel(c, i, x) \in Nat
  <2>1. \A x \in Places(c) : Rel(c, i, x) \in Places(c)
    BY <1>1, RelFacts
  <2> QED BY <2>1 DEF Places
<1>5. PICK q \in Places(c) : Rel(c, i, q) = r /\ t[q] = c.none
  <2>1. (i + r) % c.size \in Places(c) /\ Rel(c, i, (i + r) % c.size) = r
    BY <1>1, StepFacts
  <2> QED BY <2>1 DEF Cluster
<1>6. ASSUME NEW j \in Taken(c, u), NEW x \in Places(c), OnWay(c.home[c.key[u[j]]], x, j)
      PROVE  u[x] # c.none
  <2> DEFINE a == c.home[c.key[u[j]]]
             H == Rel(c, i, a)
             J == Rel(c, i, j)
             X == Rel(c, i, x)
             P == Rel(c, i, hole)
  <2>1. j \in Places(c) /\ u[j] \in E /\ u[j] # c.none
    BY <1>1 DEF Taken, Tables
  <2>2. a \in Places(c)
    BY <2>1 DEF Scheme
  <2>3. H \in Nat /\ J \in Nat /\ X \in Nat /\ P \in Nat
    BY <1>1, <1>4, <2>1, <2>2
  <2>4. /\ OnWay(H, X, J)
        /\ \A y \in Places(c) : OnWay(a, y, j) <=> OnWay(H, Rel(c, i, y), J)
    <3>1. OnWay(a, x, j)
      BY <1>6
    <3> HIDE DEF a
    <3>2. \A y \in Places(c) : OnWay(a, y, j) <=> OnWay(Rel(c, i, a), Rel(c, i, y), Rel(c, i, j))
      BY <1>1, <2>1, <2>2, Rotation
    <3> QED BY <3>1, <3>2
  <2>5. Near(c, t, i, r, j, u[j]) =>
          H <= J \/ (H > r /\ \A y \in Places(c) : Rel(c, i, y) >= H => t[y] # c.none)
    <3>1. CASE H <= J
      BY <3>1
    <3>2. CASE ~ (H <= J)
      BY <3>2 DEF Near
    <3> QED BY <3>1, <3>2
  <2>6. J < r => Near(c, t, i, r, j, u[j])
    BY <1>3
  <2>7. P < J /\ J <= r - 1 => P < H /\ H <= J
    BY <1>3
  <2>8. X > r - 1 => u[x] = t[x]
    BY <1>2
  <2>9. X < r /\ u[x] = c.none => X = P
    BY <1>2
  <2>10. J > r - 1 => u[j] = t[j]
    BY <1>2, <2>1
  <2>11. J # r
    <3>1. SUFFICES ASSUME J = r PROVE FALSE
      OBVIOUS
    <3>2. j = q
      <4>1. Rel(c, i, j) = Rel(c, i, q)
        BY <1>5, <3>1
      <4> HIDE DEF a, H, J, X, P
      <4>2. j \in Places(c) /\ q \in Places(c) /\ i \in Places(c)
        BY <1>1, <1>5, <2>1
      <4>3. Rel(c, i, j) = Rel(c, i, q) <=> j = q
        BY <4>2, Rotation
      <4> QED BY <4>1, <4>3
    <3>3. u[j] = t[j]
      BY <1>1, <2>10, <3>1
    <3> QED BY <1>5, <2>1, <3>2, <3>3
  <2>12. X >= H /\ (\A y \in Places(c) : Rel(c, i, y) >= H => t[y] # c.none) => t[x] # c.none
    OBVIOUS
  <2>13. CASE J < r
    <3> DEFINE far == \A y \in Places(c) : Rel(c, i, y) >= H => t[y] # c.none
    <3>1. H <= J \/ (H > r /\ far)
      BY <2>5, <2>6, <2>13
    <3>2. X >= H /\ far => t[x] # c.none
      BY <2>12
    <3> HIDE DEF far, H, J, X, P
    <3>3. CASE H <= J
      BY <1>1, <2>3, <2>4, <2>7, <2>9, <2>13, <3>3 DEF OnWay
    <3>4. CASE H > r /\ far
      BY <1>1, <2>3, <2>4, <2>7, <2>8, <2>9, <2>13, <3>2, <3>4 DEF OnWay
    <3> QED BY <3>1, <3>3, <3>4
  <2>14. CASE J > r
    <3>1. u[j] = t[j] /\ j \in Taken(c, t)
      BY <1>1, <2>1, <2>3, <2>10, <2>14 DEF Taken
    <3>2. \A y \in Places(c) : OnWay(H, Rel(c, i, y), J) => t[y] # c.none
      <4> TAKE y \in Places(c)
      <4>1. OnWay(a, y, j) <=> OnWay(H, Rel(c, i, y), J)
        BY <2>4
      <4> QED BY <3>1, <4>1 DEF Sound, Chained
    <3>3. ~ OnWay(H, r, J) /\ t[x] # c.none
      BY <1>5, <2>4, <3>2
    <3> HIDE DEF H, J, X
    <3>4. X > r - 1
      BY <1>1, <2>3, <2>4, <2>14, <3>3 DEF OnWay
    <3> QED BY <2>8, <3>3, <3>4
  <2> HIDE DEF J
  <2> QED BY <1>1, <2>3, <2>11, <2>13, <2>14
<1> QED BY <1>2, <1>6 DEF Sound, Chained

\* The cluster behind i ends at the first vacant slot.
LEMMA ClusterFacts ==
  ASSUME NEW c, Sized(c), NEW E, NEW t \in Tables(c, E), NEW i \in Taken(c, t),
         \E j \in Places(c) : t[j] = c.none,
         NEW S \in SUBSET Nat,
         \A d \in S : d > 0 /\ (d < c.size => t[(i + d) % c.size] = c.none),
         \A d \in 1 .. c.size - 1 : t[(i + d) % c.size] = c.none => d \in S
  PROVE  /\ Min(S) \in Places(c) /\ 0 < Min(S) /\ Min(S) \in S
         /\ Cluster(c, t, i, Min(S))
<1> DEFINE r == Min(S)
<1>1. i \in Places(c) /\ t[i] # c.none /\ c.size \in Nat /\ c.size > 0
  BY SlotFacts DEF Taken
<1>2. PICK d \in 1 .. c.size - 1 : d \in S
  <2>1. PICK j \in Places(c) : t[j] = c.none
    OBVIOUS
  <2>2. /\ Rel(c, i, j) \in Places(c) /\ (i + Rel(c, i, j)) % c.size = j
        /\ Rel(c, i, j) # 0
    BY <1>1, <2>1, RelFacts
  <2>3. Rel(c, i, j) \in 1 .. c.size - 1
    BY <1>1, <2>2 DEF Places
  <2> QED BY <2>1, <2>2, <2>3
<1>3. r \in S /\ \A n \in S : r <= n
  BY <1>2, MinOfNaturals
<1> HIDE DEF r
<1>4. r \in Nat /\ 0 < r /\ r < c.size
  <2>1. r \in Nat /\ 0 < r /\ r <= d
    BY <1>2, <1>3
  <2> QED BY <1>1, <1>2, <2>1
<1>5. t[(i + r) % c.size] = c.none
  BY <1>3, <1>4
<1>6. ASSUME NEW n \in 1 .. r - 1
      PROVE  t[(i + n) % c.size] # c.none
  <2>1. n \in 1 .. c.size - 1 /\ ~ r <= n
    BY <1>1, <1>4, <1>6
  <2> QED BY <1>3, <2>1
<1>7. r \in Places(c)
  BY <1>1, <1>4 DEF Places
<1> QED BY <1>3, <1>4, <1>5, <1>6, <1>7 DEF Cluster, r

\* The deletion leaves a sound table that holds what the table held but for the
\* entry that was erased.
LEMMA EraseFacts ==
  ASSUME NEW c, Sized(c), NEW E, Scheme(c, E), NEW t \in Tables(c, E), Sound(c, t),
         NEW i \in Taken(c, t),
         NEW r \in Places(c), 0 < r, Cluster(c, t, i, r),
         NEW w, Walk(c, E, t, i, r, w),
         NEW u, u = w[r - 1].table
  PROVE  /\ u \in Tables(c, E) /\ Sound(c, u)
         /\ \E j \in Places(c) : u[j] = c.none
         /\ \A j \in Taken(c, u) : \E k \in Taken(c, t) : k # i /\ u[j] = t[k]
         /\ \A v \in Measures(c, E) : Weight(c, u, v) + v[t[i]] = Weight(c, t, v)
<1> DEFINE hole == w[r - 1].hole
<1>1. \A v \in Measures(c, E) : Walked(c, E, t, i, r, v, r - 1, hole, u)
  BY WalkHolds
<1> HIDE DEF hole
<1>2. PICK v \in Measures(c, E) : TRUE
  <2> DEFINE zero == [e \in E \cup {c.none} |-> 0]
  <2>1. zero \in Measures(c, E)
    BY DEF Measures
  <2> QED BY <2>1
<1>3. Walked(c, E, t, i, r, v, r - 1, hole, u)
  BY <1>1
<1>4. Sound(c, u)
  BY <1>3, WalkEnds
<1>5. /\ u \in Tables(c, E) /\ hole \in Places(c) /\ u[hole] = c.none
      /\ \A j \in Taken(c, u) : \E k \in Taken(c, t) : k # i /\ u[j] = t[k]
  BY <1>3 DEF Walked
<1>6. \A m \in Measures(c, E) : Weight(c, u, m) + m[t[i]] = Weight(c, t, m)
  BY <1>1 DEF Walked
<1> QED BY <1>4, <1>5, <1>6

\* An entry other than the one that was erased is still there.
LEMMA RestIsKept ==
  ASSUME NEW c, Sized(c), NEW E, Scheme(c, E), NEW t \in Tables(c, E), Sound(c, t),
         NEW i \in Taken(c, t), NEW u \in Tables(c, E),
         \A v \in Measures(c, E) : Weight(c, u, v) + v[t[i]] = Weight(c, t, v),
         NEW k \in Taken(c, t), k # i
  PROVE  \E j \in Taken(c, u) : u[j] = t[k]
<1> DEFINE v == [e \in E \cup {c.none} |-> IF e = t[k] THEN 1 ELSE 0]
<1>1. \A j \in Taken(c, t) : j \in Places(c) /\ t[j] \in E /\ t[j] # c.none
  BY DEF Taken, Tables, Scheme
<1>2. v \in Measures(c, E) /\ v[t[k]] = 1 /\ \A e \in E \cup {c.none} : e # t[k] => v[e] = 0
  BY <1>1 DEF Measures
<1> HIDE DEF v
<1>3. t[i] # t[k] /\ t[i] \in E
  BY <1>1 DEF Sound, Distinct
<1>4. Weight(c, t, v) # 0
  BY <1>1, <1>2, WeightOfNothing
<1>5. Weight(c, u, v) \in Nat /\ v[t[i]] = 0 /\ Weight(c, u, v) + v[t[i]] = Weight(c, t, v)
  BY <1>2, <1>3, WeightOfSome
<1>6. Weight(c, u, v) # 0
  BY <1>4, <1>5
<1>7. PICK j \in Places(c) : v[u[j]] # 0
  BY <1>2, <1>6, WeightOfNothing
<1>8. u[j] = t[k] /\ j \in Taken(c, u)
  BY <1>1, <1>2, <1>7 DEF Taken, Tables
<1> QED BY <1>8
=============================================================================
