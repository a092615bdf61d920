------------------------- MODULE BookBuilderProofs -------------------------
(***************************************************************************)
(* The order books keep their promises, for every hash, every number of    *)
(* references, prices and orders the pool has room for: the table of       *)
(* references first, which is one of those of RingLemmas that grows,       *)
(* then what a message does to the table, the pool and the levels.         *)
(*                                                                         *)
(* What a table answers is said by Leads: which object each reference      *)
(* leads to.  An operation of the table is known by what it does to Leads, *)
(* and the book needs to know no more of it.                               *)
(***************************************************************************)
EXTENDS BookBuilder, RingLemmas

Entry == [key : Refs, val : Objects]

\* A table of n slots, as RingLemmas describes it.
Layout(n) ==
  [size |-> n, none |-> Empty, keys |-> Refs,
   home |-> [k \in Refs |-> Hash[k] % n], key |-> [e \in Entry |-> e.key]]

\* A map of n slots, sound, not full, and counted right.
Fits(map, n) ==
  /\ n \in Nat \ {0}
  /\ map.slots \in Tables(Layout(n), Entry)
  /\ Sound(Layout(n), map.slots)
  /\ map.size = Cardinality(Used(map))
  /\ map.size < n

\* The map between two calls.
MapInvariant(map) == \E n : Fits(map, n) /\ map.size <= MaxFill(map)

\* The reference k is there, and leads to x.
Leads(map, k, x) == \E j \in Used(map) : map.slots[j] = [key |-> k, val |-> x]

-----------------------------------------------------------------------------
(***************************************************************************)
(* The table of references is one of those of RingLemmas.                  *)
(***************************************************************************)
LEMMA LayoutFacts ==
  ASSUME NEW n \in Nat \ {0}
  PROVE  /\ Sized(Layout(n)) /\ Scheme(Layout(n), Entry)
         /\ Places(Layout(n)) = 0 .. n - 1
         /\ Layout(n).none = Empty /\ Layout(n).size = n /\ Layout(n).keys = Refs
         /\ Tables(Layout(n), Entry) = [0 .. n - 1 -> Entry \cup {Empty}]
         /\ \A e \in Entry : Layout(n).key[e] = e.key
         /\ \A k \in Refs : Layout(n).home[k] = Hash[k] % n
<1>1. /\ Layout(n).none = Empty /\ Layout(n).size = n /\ Layout(n).keys = Refs
      /\ Layout(n).key = [e \in Entry |-> e.key]
      /\ Layout(n).home = [k \in Refs |-> Hash[k] % n]
  BY DEF Layout
<1>2. Places(Layout(n)) = 0 .. n - 1
  BY <1>1 DEF Places
<1>3. Tables(Layout(n), Entry) = [0 .. n - 1 -> Entry \cup {Empty}]
  BY <1>1, <1>2 DEF Tables
<1>4. Sized(Layout(n))
  BY <1>1 DEF Sized
<1>5. /\ \A e \in Entry : Layout(n).key[e] = e.key /\ e.key \in Refs
      /\ \A k \in Refs : Layout(n).home[k] = Hash[k] % n
  BY <1>1 DEF Entry
<1>6. \A k \in Refs : Hash[k] % n \in 0 .. n - 1
  <2>1. \A k \in Refs : Hash[k] \in Nat
    BY BookAssumption
  <2> QED BY <2>1, Division
<1>7. Scheme(Layout(n), Entry)
  <2>1. Empty \notin Entry
    BY BookAssumption DEF Entry
  <2> QED BY <1>1, <1>2, <1>5, <1>6, <2>1 DEF Scheme
<1> QED BY <1>1, <1>2, <1>3, <1>4, <1>5, <1>7

\* What a map of n slots looks like.
LEMMA MapTypes ==
  ASSUME NEW map, NEW n, Fits(map, n)
  PROVE  /\ n \in Nat \ {0} /\ map.slots \in [0 .. n - 1 -> Entry \cup {Empty}]
         /\ DOMAIN map.slots = 0 .. n - 1 /\ Capacity(map) = n
         /\ Used(map) = Taken(Layout(n), map.slots) /\ IsFiniteSet(Used(map))
         /\ \A j \in Used(map) : j \in 0 .. n - 1 /\ map.slots[j] \in Entry
         /\ map.size \in Nat /\ MaxFill(map) = (n * 6) \div 10
         /\ \E j \in Places(Layout(n)) : map.slots[j] = Layout(n).none
<1>1. n \in Nat \ {0} /\ map.slots \in [0 .. n - 1 -> Entry \cup {Empty}]
  BY LayoutFacts DEF Fits
<1>2. DOMAIN map.slots = 0 .. n - 1
  BY <1>1
<1>3. IsFiniteSet(0 .. n - 1) /\ Cardinality(0 .. n - 1) = n
  BY <1>1, FS_Interval
<1>4. Capacity(map) = n
  BY <1>2, <1>3 DEF Capacity
<1>5. Used(map) = Taken(Layout(n), map.slots)
  BY <1>1, <1>2, LayoutFacts DEF Used, Taken
<1>6. Used(map) \in SUBSET (0 .. n - 1)
  BY <1>2 DEF Used
<1>7. IsFiniteSet(Used(map)) /\ map.size \in Nat
  BY <1>3, <1>6, FS_Subset, FS_CardinalityType DEF Fits
<1>8. \A j \in Used(map) : j \in 0 .. n - 1 /\ map.slots[j] \in Entry
  BY <1>1, <1>2 DEF Used
<1>9. \E j \in 0 .. n - 1 : map.slots[j] = Empty
  <2> SUFFICES ASSUME \A j \in 0 .. n - 1 : map.slots[j] # Empty PROVE FALSE
    OBVIOUS
  <2>1. Used(map) = 0 .. n - 1
    BY <1>2 DEF Used
  <2>2. map.size = n
    BY <1>3, <2>1 DEF Fits
  <2> QED BY <1>1, <2>2 DEF Fits
<1>10. MaxFill(map) = (n * 6) \div 10
  BY <1>4 DEF MaxFill
<1> QED BY <1>1, <1>2, <1>4, <1>5, <1>7, <1>8, <1>9, <1>10, LayoutFacts

\* The two ways to say where a probe ends are the same.
LEMMA ProbeForIsProbeEnd ==
  ASSUME NEW map, NEW n \in Nat \ {0}, NEW k \in Refs,
         map.slots \in [0 .. n - 1 -> Entry \cup {Empty}]
  PROVE  ProbeFor(map, k) = ProbeEnd(Layout(n), map.slots, k)
<1> DEFINE c == Layout(n)
           t == map.slots
           at(d) == ((Hash[k] % n) + d) % n
           S == {d \in 0 .. n - 1 : t[at(d)] = Empty \/ t[at(d)].key = k}
           U == {d \in 0 .. n - 1 : t[at(d)] = Empty \/ c.key[t[at(d)]] = k}
<1>1. DOMAIN t = 0 .. n - 1 /\ Capacity(map) = n
  <2>1. Cardinality(0 .. n - 1) = n
    BY FS_Interval
  <2> QED BY <2>1 DEF Capacity
<1>2. \A d \in 0 .. n - 1 : at(d) \in 0 .. n - 1
  <2>1. c.home[k] \in Places(c) /\ c.home[k] = Hash[k] % n
    BY LayoutFacts DEF Scheme
  <2>2. Sized(c) /\ c.size = n /\ Places(c) = 0 .. n - 1
    BY LayoutFacts
  <2> HIDE DEF c
  <2>3. \A d \in Places(c) : (c.home[k] + d) % c.size \in Places(c)
    BY <2>1, <2>2, StepFacts
  <2> QED BY <2>1, <2>2, <2>3
<1> HIDE DEF at
<1>3. \A d \in 0 .. n - 1 : t[at(d)] # Empty => c.key[t[at(d)]] = t[at(d)].key
  <2>1. \A e \in Entry : c.key[e] = e.key
    BY LayoutFacts
  <2>2. \A j \in 0 .. n - 1 : t[j] # Empty => t[j] \in Entry
    OBVIOUS
  <2> HIDE DEF c, t
  <2> QED BY <1>2, <2>1, <2>2
<1>4. S = U
  BY <1>3
<1>5. ProbeFor(map, k) = at(Min(S))
  BY <1>1 DEF ProbeFor, Ideal, at
<1>6. ProbeEnd(c, t, k) = at(Min(U))
  <2>1. c.home[k] = Hash[k] % n /\ c.size = n /\ c.none = Empty /\ Places(c) = 0 .. n - 1
    BY LayoutFacts
  <2> HIDE DEF c
  <2> QED BY <2>1 DEF ProbeEnd, at
<1> QED BY <1>4, <1>5, <1>6

\* A probe finds what is there and nothing else.
LEMMA MapFacts ==
  ASSUME NEW map, NEW n, Fits(map, n)
  PROVE  /\ \A j \in Used(map) : ProbeFor(map, map.slots[j].key) = j
         /\ \A k \in Refs : Has(map, k) => ProbeFor(map, k) \in Used(map)
                                           /\ map.slots[ProbeFor(map, k)].key = k
         /\ \A k \in Refs : ~ Has(map, k) => map.slots[ProbeFor(map, k)] = Empty
                                             /\ \A j \in Used(map) : map.slots[j].key # k
<1> DEFINE c == Layout(n)
           t == map.slots
<1>1. /\ n \in Nat \ {0} /\ t \in [0 .. n - 1 -> Entry \cup {Empty}]
      /\ Used(map) = Taken(c, t) /\ \A j \in Used(map) : t[j] \in Entry
      /\ \E j \in Places(c) : t[j] = c.none
  BY MapTypes
<1>2. /\ Sized(c) /\ Scheme(c, Entry) /\ t \in Tables(c, Entry) /\ Sound(c, t)
      /\ c.none = Empty /\ c.keys = Refs
      /\ \A e \in Entry : c.key[e] = e.key /\ e.key \in Refs
  BY <1>1, LayoutFacts DEF Fits, Entry
<1>3. \A k \in Refs : ProbeFor(map, k) = ProbeEnd(c, t, k)
  BY <1>1, ProbeForIsProbeEnd
<1> HIDE DEF c
<1>4. /\ \A j \in Taken(c, t) : ProbeEnd(c, t, c.key[t[j]]) = j
      /\ \A k \in Refs : t[ProbeEnd(c, t, k)] # Empty =>
           /\ ProbeEnd(c, t, k) \in Taken(c, t)
           /\ c.key[t[ProbeEnd(c, t, k)]] = k
      /\ \A k \in Refs : t[ProbeEnd(c, t, k)] = Empty => \A j \in Taken(c, t) : c.key[t[j]] # k
  BY <1>1, <1>2, FindFacts
<1>5. \A j \in Used(map) : ProbeFor(map, t[j].key) = j
  BY <1>1, <1>2, <1>3, <1>4
<1>6. \A k \in Refs : Has(map, k) =>
        ProbeFor(map, k) \in Used(map) /\ t[ProbeFor(map, k)].key = k
  BY <1>1, <1>2, <1>3, <1>4 DEF Has
<1>7. \A k \in Refs : ~ Has(map, k) =>
        t[ProbeFor(map, k)] = Empty /\ \A j \in Used(map) : t[j].key # k
  BY <1>1, <1>2, <1>3, <1>4 DEF Has
<1> QED BY <1>5, <1>6, <1>7

\* What find() answers, in terms of Leads.
LEMMA LeadsFacts ==
  ASSUME NEW map, NEW n, Fits(map, n), NEW k \in Refs
  PROVE  /\ Has(map, k) => Leads(map, k, Get(map, k)) /\ Get(map, k) \in Objects
         /\ \A x : Leads(map, k, x) => Has(map, k) /\ x = Get(map, k) /\ x \in Objects
<1>1. \A j \in Used(map) : map.slots[j] \in Entry /\ map.slots[j] # Empty
  BY MapTypes DEF Used
<1>2. ASSUME Has(map, k)
      PROVE  Leads(map, k, Get(map, k)) /\ Get(map, k) \in Objects
  <2> DEFINE p == ProbeFor(map, k)
  <2>1. p \in Used(map) /\ map.slots[p].key = k /\ map.slots[p] \in Entry
    BY <1>1, <1>2, MapFacts
  <2>2. map.slots[p] = [key |-> k, val |-> Get(map, k)] /\ Get(map, k) \in Objects
    BY <2>1 DEF Entry, Get
  <2> QED BY <2>1, <2>2 DEF Leads
<1>3. ASSUME NEW x, Leads(map, k, x)
      PROVE  Has(map, k) /\ x = Get(map, k) /\ x \in Objects
  <2>1. PICK j \in Used(map) : map.slots[j] = [key |-> k, val |-> x]
    BY <1>3 DEF Leads
  <2>2. map.slots[j].key = k /\ map.slots[j].val = x /\ x \in Objects
    <3>1. [key |-> k, val |-> x] \in Entry
      BY <1>1, <2>1
    <3> QED BY <2>1, <3>1 DEF Entry
  <2>3. ProbeFor(map, k) = j
    BY <2>1, <2>2, MapFacts
  <2> QED BY <1>1, <2>1, <2>2, <2>3 DEF Has, Get
<1> QED BY <1>2, <1>3

\* Two maps answer alike where they lead alike.
LEMMA SameAnswer ==
  ASSUME NEW map, NEW n, Fits(map, n), NEW new, NEW m, Fits(new, m),
         NEW k \in Refs, \A x : Leads(new, k, x) <=> Leads(map, k, x)
  PROVE  /\ Has(new, k) <=> Has(map, k)
         /\ Has(map, k) => Get(new, k) = Get(map, k)
<1>1. /\ Has(map, k) => Leads(map, k, Get(map, k))
      /\ \A x : Leads(map, k, x) => Has(map, k) /\ x = Get(map, k)
  BY LeadsFacts
<1>2. /\ Has(new, k) => Leads(new, k, Get(new, k))
      /\ \A x : Leads(new, k, x) => Has(new, k) /\ x = Get(new, k)
  BY LeadsFacts
<1> QED BY <1>1, <1>2

-----------------------------------------------------------------------------
(***************************************************************************)
(* What the operations of the table do to it.                              *)
(***************************************************************************)
\* A reference that is not there is put where the probe for it ends.
LEMMA PutFacts ==
  ASSUME NEW map, NEW n, Fits(map, n),
         NEW k \in Refs, ~ Has(map, k), NEW x \in Objects, map.size + 1 < n
  PROVE  /\ Fits(Put(map, k, x), n) /\ Put(map, k, x).size = map.size + 1
         /\ \A q, y : Leads(Put(map, k, x), q, y) <=> Leads(map, q, y) \/ (q = k /\ y = x)
<1> DEFINE c == Layout(n)
           t == map.slots
           p == ProbeFor(map, k)
           e == [key |-> k, val |-> x]
           new == Put(map, k, x)
           u == [t EXCEPT ![p] = e]
<1>1. /\ n \in Nat \ {0} /\ t \in [0 .. n - 1 -> Entry \cup {Empty}]
      /\ Used(map) = Taken(c, t) /\ IsFiniteSet(Used(map)) /\ map.size \in Nat
      /\ DOMAIN t = 0 .. n - 1
      /\ \E j \in Places(c) : t[j] = c.none
  BY MapTypes
<1>2. /\ Sized(c) /\ Scheme(c, Entry) /\ t \in Tables(c, Entry) /\ Sound(c, t)
      /\ c.none = Empty /\ Places(c) = 0 .. n - 1
      /\ Tables(c, Entry) = [0 .. n - 1 -> Entry \cup {Empty}]
  BY <1>1, LayoutFacts DEF Fits
<1>3. e \in Entry /\ e # Empty /\ c.key[e] = k
  <2>1. e \in Entry /\ e.key = k
    BY DEF Entry
  <2>2. Empty \notin Entry
    BY BookAssumption DEF Entry
  <2> QED BY <1>1, <2>1, <2>2, LayoutFacts
<1>4. p = ProbeEnd(c, t, k) /\ t[p] = Empty
  BY <1>1, ProbeForIsProbeEnd, MapFacts
<1>5. new.slots = u /\ new.size = map.size + 1
  BY DEF Put, Has
<1> HIDE DEF c, p, new, e
<1>6. p \in Places(c) /\ u \in Tables(c, Entry) /\ Sound(c, u)
  BY <1>1, <1>2, <1>3, <1>4, InsertFacts
<1>7. u[p] = e /\ (\A j \in 0 .. n - 1 : j # p => u[j] = t[j]) /\ DOMAIN u = 0 .. n - 1
  BY <1>1, <1>2, <1>6
<1> HIDE DEF u
<1>8. Used(new) = Used(map) \cup {p} /\ p \notin Used(map)
  BY <1>1, <1>2, <1>3, <1>4, <1>5, <1>6, <1>7 DEF Used
<1>9. Cardinality(Used(new)) = map.size + 1
  <2>1. map.size = Cardinality(Used(map))
    BY DEF Fits
  <2>2. Cardinality(Used(map) \cup {p}) = Cardinality(Used(map)) + 1
    BY <1>1, <1>8, FS_AddElement
  <2> QED BY <1>8, <2>1, <2>2
<1>10. Fits(new, n)
  BY <1>1, <1>5, <1>6, <1>9 DEF Fits, c
<1>11. \A q, y : Leads(new, q, y) <=> Leads(map, q, y) \/ (q = k /\ y = x)
  <2>1. \A j \in Used(map) : new.slots[j] = t[j] /\ j \in Used(new)
    BY <1>1, <1>5, <1>7, <1>8 DEF Used
  <2>2. new.slots[p] = [key |-> k, val |-> x] /\ p \in Used(new)
    BY <1>5, <1>7, <1>8 DEF e
  <2>3. ASSUME NEW q, NEW y, Leads(new, q, y)
        PROVE  Leads(map, q, y) \/ (q = k /\ y = x)
    <3>1. PICK j \in Used(new) : new.slots[j] = [key |-> q, val |-> y]
      BY <2>3 DEF Leads
    <3>2. CASE j = p
      <4>1. [key |-> q, val |-> y] = [key |-> k, val |-> x]
        BY <2>2, <3>1, <3>2
      <4> QED BY <4>1
    <3>3. CASE j # p
      BY <1>8, <2>1, <3>1, <3>3 DEF Leads
    <3> QED BY <3>2, <3>3
  <2>4. ASSUME NEW q, NEW y, Leads(map, q, y) \/ (q = k /\ y = x)
        PROVE  Leads(new, q, y)
    BY <2>1, <2>2, <2>4 DEF Leads
  <2> QED BY <2>3, <2>4
<1> QED BY <1>5, <1>10, <1>11 DEF new

\* A new map has room and leads nowhere.
LEMMA EmptyMapFacts ==
  ASSUME NEW n \in Nat \ {0}
  PROVE  /\ Fits(EmptyMap(n), n) /\ EmptyMap(n).size = 0 /\ MapInvariant(EmptyMap(n))
         /\ \A k, x : ~ Leads(EmptyMap(n), k, x)
<1> DEFINE map == EmptyMap(n)
<1>1. map.slots = [i \in 0 .. n - 1 |-> Empty] /\ map.size = 0
  BY DEF EmptyMap
<1> HIDE DEF map
<1>2. map.slots \in Tables(Layout(n), Entry)
  BY <1>1, LayoutFacts
<1>3. Used(map) = {} /\ Taken(Layout(n), map.slots) = {}
  BY <1>1, LayoutFacts DEF Used, Taken
<1>4. Sound(Layout(n), map.slots)
  BY <1>3 DEF Sound, Chained, Distinct
<1>5. Fits(map, n)
  BY <1>1, <1>2, <1>3, <1>4, FS_EmptySet DEF Fits
<1>6. MapInvariant(map)
  <2>1. MaxFill(map) = (n * 6) \div 10
    BY <1>5, MapTypes
  <2>2. 0 <= (n * 6) \div 10
    OBVIOUS
  <2> QED BY <1>1, <1>5, <2>1, <2>2 DEF MapInvariant
<1>7. \A k, x : ~ Leads(map, k, x)
  BY <1>3 DEF Leads
<1> QED BY <1>1, <1>5, <1>6, <1>7 DEF map

\* The tables that grow() goes through.
Growth(map, n, f) ==
  f = [m \in 0 .. n |->
         IF m = 0 THEN EmptyMap(2 * n)
         ELSE IF map.slots[m - 1] = Empty THEN f[m - 1]
         ELSE Put(f[m - 1], map.slots[m - 1].key, map.slots[m - 1].val)]

\* There are such tables.
LEMMA GrowthExists ==
  ASSUME NEW map, NEW n \in Nat, map.slots \in [0 .. n - 1 -> Entry \cup {Empty}]
  PROVE  \E f : Growth(map, n, f)
<1> DEFINE S == [slots : [0 .. 2 * n - 1 -> Entry \cup {Empty}], size : Nat]
           t == map.slots
           Carry(s, e) == IF e = Empty THEN s ELSE Put(s, e.key, e.val)
           a == EmptyMap(2 * n)
           F == [m \in 1 .. n |-> [s \in S |-> Carry(s, t[m - 1])]]
<1>1. a \in S
  BY DEF EmptyMap
<1>2. ASSUME NEW e \in Entry \cup {Empty}, NEW s \in S
      PROVE  Carry(s, e) \in S
  <2>1. CASE e = Empty
    BY <2>1
  <2>2. CASE e # Empty
    <3> DEFINE new == [s.slots EXCEPT ![ProbeFor(s, e.key)] = [key |-> e.key, val |-> e.val]]
               size == IF s.slots[ProbeFor(s, e.key)] = Empty THEN s.size + 1 ELSE s.size
    <3>1. [key |-> e.key, val |-> e.val] \in Entry
      BY <2>2 DEF Entry
    <3>2. s.slots \in [0 .. 2 * n - 1 -> Entry \cup {Empty}] /\ s.size \in Nat
      OBVIOUS
    <3>3. new \in [0 .. 2 * n - 1 -> Entry \cup {Empty}] /\ size \in Nat
      <4> DEFINE D == 0 .. 2 * n - 1
                 V == Entry \cup {Empty}
                 d == [key |-> e.key, val |-> e.val]
      <4>1. s.slots \in [D -> V] /\ d \in V
        BY <3>1, <3>2
      <4> HIDE DEF D, V, d
      <4>2. \A p : [s.slots EXCEPT ![p] = d] \in [D -> V]
        BY <4>1
      <4>3. new \in [D -> V]
        BY <4>2 DEF d
      <4> QED BY <3>2, <4>3 DEF D, V
    <3>4. Carry(s, e) = [slots |-> new, size |-> size]
      BY <2>2 DEF Put
    <3> HIDE DEF new, size
    <3> QED BY <3>3, <3>4
  <2> QED BY <2>1, <2>2
<1> HIDE DEF S, a, Carry
<1>3. F \in [1 .. n -> [S -> S]]
  <2>1. \A m \in 1 .. n : t[m - 1] \in Entry \cup {Empty}
    OBVIOUS
  <2> QED BY <1>2, <2>1
<1>4. \A m \in 1 .. n, s \in S : F[m][s] = Carry(s, t[m - 1])
  OBVIOUS
<1> HIDE DEF F
<1>r. PICK f : Follows(f, S, a, n, F)
  BY <1>1, <1>3, Recursion
<1>5. f \in [0 .. n -> S] /\ f[0] = a /\ \A m \in 1 .. n : f[m] = F[m][f[m - 1]]
  BY <1>r DEF Follows
<1>6. ASSUME NEW m \in 0 .. n
      PROVE  f[m] = IF m = 0 THEN a
                    ELSE IF t[m - 1] = Empty THEN f[m - 1]
                    ELSE Put(f[m - 1], t[m - 1].key, t[m - 1].val)
  <2>1. CASE m = 0
    BY <1>5, <2>1
  <2>2. CASE m # 0
    <3>1. m \in 1 .. n /\ m - 1 \in 0 .. n
      BY <2>2
    <3>2. f[m] = Carry(f[m - 1], t[m - 1])
      BY <1>4, <1>5, <3>1
    <3> QED BY <2>2, <3>2 DEF Carry
  <2> QED BY <2>1, <2>2
<1>7. f = [m \in 0 .. n |-> IF m = 0 THEN a
                          ELSE IF t[m - 1] = Empty THEN f[m - 1]
                          ELSE Put(f[m - 1], t[m - 1].key, t[m - 1].val)]
  BY <1>5, <1>6
<1>8. Growth(map, n, f)
  BY <1>7 DEF Growth, a
<1> QED BY <1>8

\* The slots before m are carried over into new.
Carried(map, n, m, new) ==
  /\ Fits(new, 2 * n)
  /\ new.size = Cardinality({j \in Used(map) : j < m}) /\ new.size <= m
  /\ \A k, x : Leads(new, k, x) <=>
       \E j \in Used(map) : j < m /\ map.slots[j] = [key |-> k, val |-> x]

\* One slot more.
LEMMA GrowthContinues ==
  ASSUME NEW map, NEW n, Fits(map, n),
         NEW m \in 0 .. n - 1, NEW was, Carried(map, n, m, was), NEW new,
         new = IF map.slots[m] = Empty THEN was
               ELSE Put(was, map.slots[m].key, map.slots[m].val)
  PROVE  Carried(map, n, m + 1, new)
<1> DEFINE t == map.slots
           before(x) == {j \in Used(map) : j < x}
<1>1. /\ n \in Nat \ {0} /\ DOMAIN t = 0 .. n - 1 /\ IsFiniteSet(Used(map))
      /\ \A j \in Used(map) : j \in 0 .. n - 1 /\ t[j] \in Entry
  BY MapTypes
<1>2. /\ Fits(was, 2 * n) /\ was.size = Cardinality(before(m)) /\ was.size <= m
      /\ \A k, x : Leads(was, k, x) <=> \E j \in before(m) : t[j] = [key |-> k, val |-> x]
  BY DEF Carried
<1>3. was.size \in Nat /\ IsFiniteSet(before(m))
  BY <1>1, <1>2, FS_Subset, FS_CardinalityType
<1>4. before(m + 1) = IF t[m] = Empty THEN before(m) ELSE before(m) \cup {m}
  <2>1. \A j \in Used(map) : j < m + 1 <=> j < m \/ j = m
    BY <1>1
  <2>2. m \in Used(map) <=> t[m] # Empty
    BY <1>1 DEF Used
  <2> QED BY <2>1, <2>2
<1>5. SUFFICES /\ Fits(new, 2 * n)
               /\ new.size = Cardinality(before(m + 1)) /\ new.size <= m + 1
               /\ \A k, x : Leads(new, k, x) <=>
                    \E j \in before(m + 1) : t[j] = [key |-> k, val |-> x]
  BY DEF Carried
<1>6. m \notin before(m)
  OBVIOUS
<1> HIDE DEF before
<1>7. CASE t[m] = Empty
  <2>1. new = was /\ before(m + 1) = before(m)
    BY <1>4, <1>7
  <2>2. was.size <= m + 1
    BY <1>1, <1>2, <1>3
  <2> QED BY <1>2, <2>1, <2>2
<1>8. CASE t[m] # Empty
  <2> DEFINE k == t[m].key
             x == t[m].val
  <2>1. m \in Used(map) /\ t[m] = [key |-> k, val |-> x] /\ k \in Refs /\ x \in Objects
    <3>1. m \in Used(map)
      BY <1>1, <1>8 DEF Used
    <3> QED BY <1>1, <3>1 DEF Entry
  <2>2. ~ Has(was, k)
    <3> SUFFICES ASSUME Has(was, k) PROVE FALSE
      OBVIOUS
    <3>1. Leads(was, k, Get(was, k))
      BY <1>2, <2>1, LeadsFacts
    <3>2. PICK j \in before(m) : t[j] = [key |-> k, val |-> Get(was, k)]
      BY <1>2, <3>1
    <3>3. j \in Used(map) /\ j # m /\ t[j].key = t[m].key
      BY <1>6, <2>1, <3>2 DEF before
    <3>4. ProbeFor(map, t[j].key) = j /\ ProbeFor(map, t[m].key) = m
      BY <2>1, <3>3, MapFacts
    <3> QED BY <3>3, <3>4
  <2>3. was.size + 1 < 2 * n /\ was.size + 1 <= m + 1
    BY <1>1, <1>2, <1>3
  <2>4. new = Put(was, k, x)
    BY <1>8
  <2> HIDE DEF k, x
  <2>5. /\ Fits(new, 2 * n) /\ new.size = was.size + 1
        /\ \A q, y : Leads(new, q, y) <=> Leads(was, q, y) \/ (q = k /\ y = x)
    BY <1>2, <2>1, <2>2, <2>3, <2>4, PutFacts
  <2>6. before(m + 1) = before(m) \cup {m}
    BY <1>4, <1>8
  <2>7. Cardinality(before(m + 1)) = was.size + 1
    BY <1>2, <1>3, <1>6, <2>6, FS_AddElement
  <2>8. ASSUME NEW q, NEW y
        PROVE  Leads(new, q, y) <=> \E j \in before(m + 1) : t[j] = [key |-> q, val |-> y]
    <3>1. t[m] = [key |-> q, val |-> y] <=> (q = k /\ y = x)
      BY <2>1
    <3> QED BY <1>2, <2>5, <2>6, <3>1
  <2> QED BY <2>3, <2>5, <2>7, <2>8
<1> QED BY <1>7, <1>8

\* "The old table is rehashed": grow() keeps what the table held and what it counted.
LEMMA GrowFacts ==
  ASSUME NEW map, NEW n, Fits(map, n)
  PROVE  /\ Fits(Grow(map), 2 * n) /\ Grow(map).size = map.size
         /\ \A k, x : Leads(Grow(map), k, x) <=> Leads(map, k, x)
<1> DEFINE f == CHOOSE z : Growth(map, n, z)
           N == {m \in Nat : m <= n => Carried(map, n, m, f[m])}
<1>1. /\ n \in Nat \ {0} /\ map.slots \in [0 .. n - 1 -> Entry \cup {Empty}]
      /\ Capacity(map) = n /\ \A j \in Used(map) : j \in 0 .. n - 1
  BY MapTypes
<1>2. Grow(map) = f[n]
  BY <1>1 DEF Grow, Growth
<1>3. Growth(map, n, f)
  <2>1. \E z : Growth(map, n, z)
    BY <1>1, GrowthExists
  <2> QED BY <2>1
<1> HIDE DEF f
<1>4. 0 \in N
  <2>1. f[0] = EmptyMap(2 * n)
    BY <1>1, <1>3 DEF Growth
  <2>2. 2 * n \in Nat \ {0}
    BY <1>1
  <2>3. /\ Fits(f[0], 2 * n) /\ f[0].size = 0 /\ \A k, x : ~ Leads(f[0], k, x)
    BY <2>1, <2>2, EmptyMapFacts
  <2>4. {j \in Used(map) : j < 0} = {}
    BY <1>1
  <2>5. Carried(map, n, 0, f[0])
    BY <2>3, <2>4, FS_EmptySet DEF Carried
  <2> QED BY <2>5
<1>5. ASSUME NEW m \in Nat, m \in N
      PROVE  m + 1 \in N
  <2> SUFFICES ASSUME m + 1 <= n PROVE Carried(map, n, m + 1, f[m + 1])
    OBVIOUS
  <2>1. m \in 0 .. n - 1 /\ m + 1 \in 0 .. n /\ m + 1 # 0 /\ (m + 1) - 1 = m
    BY <1>1
  <2>2. Carried(map, n, m, f[m])
    BY <1>1, <1>5, <2>1
  <2>3. f[m + 1] = IF map.slots[m] = Empty THEN f[m]
                   ELSE Put(f[m], map.slots[m].key, map.slots[m].val)
    <3> DEFINE l == m + 1
    <3>1. l \in 0 .. n /\ l # 0 /\ l - 1 = m
      BY <2>1
    <3> HIDE DEF l
    <3>2. f[l] = IF map.slots[l - 1] = Empty THEN f[l - 1]
                 ELSE Put(f[l - 1], map.slots[l - 1].key, map.slots[l - 1].val)
      BY <1>3, <3>1 DEF Growth
    <3> QED BY <3>1, <3>2 DEF l
  <2> QED BY <2>1, <2>2, <2>3, GrowthContinues
<1> HIDE DEF N
<1>6. n \in N
  BY <1>1, <1>4, <1>5, CountingUp
<1>7. Carried(map, n, n, f[n])
  BY <1>1, <1>6 DEF N
<1>8. {j \in Used(map) : j < n} = Used(map)
  BY <1>1
<1>9. f[n].size = map.size
  BY <1>7, <1>8 DEF Carried, Fits
<1>10. \A k, x : Leads(f[n], k, x) <=> Leads(map, k, x)
  BY <1>7, <1>8 DEF Carried, Leads
<1> QED BY <1>2, <1>7, <1>9, <1>10 DEF Carried

\* A table holds less than it has slots, and twice the slots make room.
LEMMA Room ==
  ASSUME NEW n \in Nat \ {0}
  PROVE  /\ (n * 6) \div 10 \in Nat /\ (n * 6) \div 10 < n
         /\ (n * 6) \div 10 + 1 <= ((2 * n) * 6) \div 10
OBVIOUS

\* insert() of a reference that is not there: growth or no growth, the map has it
\* and keeps the others.
LEMMA InsertMapFacts ==
  ASSUME NEW map, MapInvariant(map), NEW k \in Refs, ~ Has(map, k),
         NEW x \in Objects
  PROVE  /\ MapInvariant(Insert(map, k, x))
         /\ \A q, y : Leads(Insert(map, k, x), q, y) <=> Leads(map, q, y) \/ (q = k /\ y = x)
<1>1. PICK n : Fits(map, n) /\ map.size <= MaxFill(map)
  BY DEF MapInvariant
<1>2. /\ n \in Nat \ {0} /\ map.size \in Nat /\ MaxFill(map) = (n * 6) \div 10
  BY <1>1, MapTypes
<1>3. /\ (n * 6) \div 10 \in Nat /\ (n * 6) \div 10 < n
      /\ (n * 6) \div 10 + 1 <= ((2 * n) * 6) \div 10
      /\ ((2 * n) * 6) \div 10 \in Nat /\ ((2 * n) * 6) \div 10 < 2 * n
  <2>1. 2 * n \in Nat \ {0}
    BY <1>2
  <2> QED BY <1>2, <2>1, Room
<1> DEFINE base == IF map.size + 1 > MaxFill(map) THEN Grow(map) ELSE map
<1>4. PICK m : /\ Fits(base, m) /\ base.size = map.size
               /\ map.size + 1 < m /\ map.size + 1 <= (m * 6) \div 10
               /\ \A q, y : Leads(base, q, y) <=> Leads(map, q, y)
  <2>1. CASE map.size + 1 > MaxFill(map)
    <3> DEFINE room == ((2 * n) * 6) \div 10
               full == (n * 6) \div 10
    <3>1. /\ Fits(base, 2 * n) /\ base.size = map.size
          /\ \A q, y : Leads(base, q, y) <=> Leads(map, q, y)
      BY <1>1, <2>1, GrowFacts
    <3>2. /\ map.size <= full /\ full + 1 <= room /\ full \in Nat /\ room \in Nat
          /\ room < 2 * n
      BY <1>1, <1>2, <1>3
    <3> HIDE DEF full, room
    <3>3. map.size + 1 < 2 * n /\ map.size + 1 <= room
      BY <1>2, <3>2
    <3> QED BY <3>1, <3>3 DEF room
  <2>2. CASE ~ (map.size + 1 > MaxFill(map))
    <3> DEFINE full == (n * 6) \div 10
    <3>1. base = map
      BY <2>2
    <3>2. ~ (map.size + 1 > full) /\ full \in Nat /\ full < n
      BY <1>2, <1>3, <2>2
    <3> HIDE DEF full
    <3>3. map.size + 1 < n /\ map.size + 1 <= full
      BY <1>2, <3>2
    <3> QED BY <1>1, <3>1, <3>3 DEF full
  <2> QED BY <2>1, <2>2
<1>5. Insert(map, k, x) = Put(base, k, x)
  BY DEF Insert
<1> HIDE DEF base
<1>6. ~ Has(base, k)
  BY <1>1, <1>4, SameAnswer
<1>7. /\ Fits(Put(base, k, x), m) /\ Put(base, k, x).size = map.size + 1
      /\ \A q, y : Leads(Put(base, k, x), q, y) <=> Leads(base, q, y) \/ (q = k /\ y = x)
  BY <1>4, <1>6, PutFacts
<1>8. MaxFill(Put(base, k, x)) = (m * 6) \div 10
  BY <1>7, MapTypes
<1>9. MapInvariant(Insert(map, k, x))
  BY <1>4, <1>5, <1>7, <1>8 DEF MapInvariant
<1> QED BY <1>4, <1>5, <1>7, <1>9

\* The walk of erase().
EraseWalk(map, i, n, r, w) ==
  w = [d \in 0 .. r |->
         IF d = 0 THEN [hole |-> i, table |-> [map.slots EXCEPT ![i] = Empty]]
                  ELSE Fall(map, w[d - 1], (i + d) % n)]

\* There is such a walk.
LEMMA EraseWalkExists ==
  ASSUME NEW map, NEW n, Sized(Layout(n)), NEW i \in Places(Layout(n)), NEW r \in Nat,
         map.slots \in Tables(Layout(n), Entry)
  PROVE  \E w : EraseWalk(map, i, n, r, w)
<1> DEFINE D == 0 .. n - 1
           V == Entry \cup {Empty}
           S == [hole : D, table : [D -> V]]
           a == [hole |-> i, table |-> [map.slots EXCEPT ![i] = Empty]]
           at(d) == (i + d) % n
           F == [d \in 1 .. r |-> [s \in S |-> Fall(map, s, at(d))]]
<1>1. \A d \in Nat : at(d) \in D
  <2>1. n \in Nat \ {0} /\ i \in Nat
    BY DEF Sized, Places, Layout
  <2> QED BY <2>1, Division
<1>2. i \in D /\ map.slots \in [D -> V] /\ Empty \in V
  BY DEF Tables, Places, Layout
<1> HIDE DEF at, D, V
<1>3. a \in S
  BY <1>2
<1>4. ASSUME NEW j \in D, NEW s \in S
      PROVE  Fall(map, s, j) \in S
  <2>1. s.hole \in D /\ s.table \in [D -> V]
    OBVIOUS
  <2>2. s.table[j] \in V
    BY <2>1
  <2>3. [s.table EXCEPT ![s.hole] = s.table[j], ![j] = Empty] \in [D -> V]
    BY <1>2, <2>1, <2>2
  <2> QED BY <2>1, <2>3 DEF Fall
<1> HIDE DEF S, a
<1>5. F \in [1 .. r -> [S -> S]]
  BY <1>1, <1>4
<1>6. \A d \in 1 .. r, s \in S : F[d][s] = Fall(map, s, at(d))
  OBVIOUS
<1> HIDE DEF F
<1>r. PICK w : Follows(w, S, a, r, F)
  BY <1>3, <1>5, Recursion
<1>7. w \in [0 .. r -> S] /\ w[0] = a /\ \A d \in 1 .. r : w[d] = F[d][w[d - 1]]
  BY <1>r DEF Follows
<1>8. ASSUME NEW d \in 0 .. r
      PROVE  w[d] = IF d = 0 THEN a ELSE Fall(map, w[d - 1], at(d))
  <2>1. CASE d = 0
    BY <1>7, <2>1
  <2>2. CASE d # 0
    <3>1. d \in 1 .. r /\ d - 1 \in 0 .. r
      BY <2>2
    <3> QED BY <1>6, <1>7, <2>2, <3>1
  <2> QED BY <2>1, <2>2
<1>9. w = [d \in 0 .. r |-> IF d = 0 THEN a ELSE Fall(map, w[d - 1], at(d))]
  BY <1>7, <1>8
<1>10. EraseWalk(map, i, n, r, w)
  BY <1>9 DEF EraseWalk, a, at
<1> QED BY <1>10

\* Which entry may fall is the same, said by what may and by what may not.
LEMMA BetweenMayNotFall ==
  ASSUME NEW hole \in Nat, NEW j \in Nat, NEW k \in Nat
  PROVE  CyclicallyBetween(hole, k, j) <=> ~ MayFall(hole, j, k)
BY DEF CyclicallyBetween, MayFall

\* erase() leaves a sound table that leads where the table led, except for the
\* reference that was erased.
LEMMA EraseMapFacts ==
  ASSUME NEW map, MapInvariant(map), NEW k \in Refs, Has(map, k)
  PROVE  /\ MapInvariant(Erase(map, k))
         /\ \A q, y : Leads(Erase(map, k), q, y) <=> Leads(map, q, y) /\ q # k
<1>1. PICK n : Fits(map, n) /\ map.size <= MaxFill(map)
  BY DEF MapInvariant
<1> DEFINE c == Layout(n)
           t == map.slots
           i == ProbeFor(map, k)
           S == {d \in 1 .. n : t[(i + d) % n] = Empty}
           r == Min(S)
           new == Erase(map, k)
           w == CHOOSE z : EraseWalk(map, i, n, r - 1, z)
           u == w[r - 1].table
<1>2. /\ n \in Nat \ {0} /\ t \in [0 .. n - 1 -> Entry \cup {Empty}]
      /\ Used(map) = Taken(c, t) /\ map.size \in Nat /\ Capacity(map) = n
      /\ MaxFill(map) = (n * 6) \div 10
      /\ \A j \in Used(map) : j \in 0 .. n - 1 /\ t[j] \in Entry
      /\ \E j \in Places(c) : t[j] = c.none
  BY <1>1, MapTypes
<1>3. /\ Sized(c) /\ Scheme(c, Entry) /\ t \in Tables(c, Entry) /\ Sound(c, t)
      /\ c.none = Empty /\ c.size = n /\ Places(c) = 0 .. n - 1
      /\ Tables(c, Entry) = [0 .. n - 1 -> Entry \cup {Empty}]
      /\ \A e \in Entry : c.key[e] = e.key /\ e.key \in Refs /\ c.home[e.key] = Hash[e.key] % n
  BY <1>1, <1>2, LayoutFacts DEF Fits, Entry
<1>0. Sized(c) /\ Scheme(c, Entry) /\ t \in Tables(c, Entry) /\ Sound(c, t)
  BY <1>3
<1>4. i \in Used(map) /\ t[i].key = k /\ i \in Taken(c, t) /\ i \in 0 .. n - 1
  BY <1>1, <1>2, MapFacts
<1>5. new.slots = u /\ new.size = map.size - 1
  BY <1>2 DEF Erase, EraseWalk
<1> HIDE DEF c, i, new
<1>6. r \in Places(c) /\ 0 < r /\ Cluster(c, t, i, r)
  <2>1. S \in SUBSET Nat
    OBVIOUS
  <2>2. \A d \in S : d > 0 /\ (d < c.size => t[(i + d) % c.size] = c.none)
    BY <1>3
  <2>3. \A d \in 1 .. c.size - 1 : t[(i + d) % c.size] = c.none => d \in S
    BY <1>2, <1>3
  <2>4. /\ Sized(c) /\ t \in Tables(c, Entry) /\ i \in Taken(c, t)
        /\ \E j \in Places(c) : t[j] = c.none
    BY <1>2, <1>3, <1>4
  <2> HIDE DEF S, t
  <2> QED BY <2>1, <2>2, <2>3, <2>4, ClusterFacts
<1> HIDE DEF r, S
<1>7. r \in Nat /\ r - 1 \in Nat /\ n \in Nat /\ n > 0 /\ i \in Nat /\ i < n
  BY <1>2, <1>3, <1>4, <1>6
<1>8. EraseWalk(map, i, n, r - 1, w)
  <2>1. \E z : EraseWalk(map, i, n, r - 1, z)
    BY <1>3, <1>4, <1>7, EraseWalkExists DEF c
  <2> QED BY <2>1
<1> HIDE DEF w
<1>9. w[0] = Vacated(c, t, i)
  <2>1. w[0] = [hole |-> i, table |-> [t EXCEPT ![i] = Empty]]
    BY <1>7, <1>8 DEF EraseWalk
  <2> QED BY <1>3, <2>1 DEF Vacated
<1>10. ASSUME NEW d \in 1 .. r - 1, NEW j, j = (i + d) % n,
              w[d - 1].hole \in Places(c), w[d - 1].table \in Tables(c, Entry),
              j \in Taken(c, w[d - 1].table)
       PROVE  w[d] = Tumble(c, w[d - 1], j)
  <2>1. w[d] = Fall(map, w[d - 1], j)
    <3>1. d \in 0 .. r - 1 /\ d # 0
      BY <1>7, <1>10
    <3> QED BY <1>8, <1>10, <3>1 DEF EraseWalk
  <2>2. PICK was : was = w[d - 1]
    OBVIOUS
  <2>3. was.table[j] \in Entry /\ j \in 0 .. n - 1
    BY <1>3, <1>10, <2>2 DEF Taken
  <2> DEFINE h == Hash[was.table[j].key] % n
  <2>4. c.home[c.key[was.table[j]]] = h /\ Ideal(map, was.table[j].key) = h
    BY <1>2, <1>3, <2>3 DEF Ideal
  <2> HIDE DEF h
  <2>5. CyclicallyBetween(was.hole, h, j) <=> ~ MayFall(was.hole, j, h)
    <3>1. was.hole \in Nat /\ j \in Nat /\ h \in Nat
      <4>1. Hash[was.table[j].key] \in Nat
        BY BookAssumption, <1>3, <2>3
      <4>2. h \in Nat
        BY <1>2, <4>1, Division DEF h
      <4> QED BY <1>3, <1>10, <2>2, <2>3, <4>2
    <3> QED BY <3>1, BetweenMayNotFall
  <2>6. Fall(map, was, j) = Tumble(c, was, j)
    BY <1>3, <2>4, <2>5 DEF Fall, Tumble
  <2> QED BY <2>1, <2>2, <2>6
<1>11. Walk(c, Entry, t, i, r, w)
  BY <1>3, <1>9, <1>10 DEF Walk
<1>12. /\ u \in Tables(c, Entry) /\ Sound(c, u) /\ \E j \in Places(c) : u[j] = c.none
       /\ \A j \in Taken(c, u) : \E l \in Taken(c, t) : l # i /\ u[j] = t[l]
       /\ \A v \in Measures(c, Entry) : Weight(c, u, v) + v[t[i]] = Weight(c, t, v)
  <2> DEFINE z == u
  <2>1. z = w[r - 1].table
    OBVIOUS
  <2>2. i \in Taken(c, t)
    BY <1>4
  <2> HIDE DEF z, t
  <2> SUFFICES /\ z \in Tables(c, Entry) /\ Sound(c, z) /\ \E j \in Places(c) : z[j] = c.none
               /\ \A j \in Taken(c, z) : \E l \in Taken(c, t) : l # i /\ z[j] = t[l]
               /\ \A v \in Measures(c, Entry) : Weight(c, z, v) + v[t[i]] = Weight(c, t, v)
    BY DEF z
  <2> QED BY <1>0, <1>6, <1>11, <2>1, <2>2, EraseFacts
<1> HIDE DEF u
<1>13. \A l \in Taken(c, t) : l # i => \E j \in Taken(c, u) : u[j] = t[l]
  <2>1. /\ i \in Taken(c, t) /\ u \in Tables(c, Entry)
        /\ \A v \in Measures(c, Entry) : Weight(c, u, v) + v[t[i]] = Weight(c, t, v)
    BY <1>4, <1>12
  <2> QED BY <1>0, <2>1, RestIsKept
<1>14. Used(new) = Taken(c, u)
  BY <1>3, <1>5, <1>12 DEF Used, Taken
<1>15. Cardinality(Used(new)) = map.size - 1
  <2> DEFINE one == [e \in Entry \cup {Empty} |-> IF e = Empty THEN 0 ELSE 1]
  <2>1. one \in Measures(c, Entry) /\ one[Empty] = 0 /\ \A e \in Entry : one[e] = 1
    <3>1. Empty \notin Entry
      BY <1>3 DEF Scheme
    <3> QED BY <1>3, <3>1 DEF Measures
  <2> HIDE DEF one
  <2>2. ASSUME NEW z \in Tables(c, Entry)
        PROVE  Weight(c, z, one) = Cardinality(Taken(c, z)) /\ Weight(c, z, one) \in Nat
    <3> DEFINE W == Taken(c, z)
    <3>1. /\ W \in SUBSET Places(c) /\ \A j \in Places(c) \ W : one[z[j]] = 0
          /\ \A j \in W : one[z[j]] = 1
      BY <1>3, <2>1 DEF Taken, Tables
    <3> HIDE DEF W
    <3>2. Weight(c, z, one) \in Nat
      BY <1>0, <2>1, <3>1, WeightOfSome
    <3>3. Weight(c, z, one) = Cardinality(W)
      BY <1>0, <2>1, <3>1, WeightOfSome
    <3> QED BY <3>2, <3>3 DEF W
  <2>3. Weight(c, u, one) + one[t[i]] = Weight(c, t, one) /\ one[t[i]] = 1
    BY <1>2, <1>4, <1>12, <2>1
  <2>4. /\ Weight(c, u, one) = Cardinality(Used(new)) /\ Weight(c, u, one) \in Nat
        /\ Weight(c, t, one) = map.size
    BY <1>1, <1>2, <1>3, <1>12, <1>14, <2>2 DEF Fits
  <2> QED BY <2>3, <2>4
<1>16. Fits(new, n) /\ new.size <= map.size
  <2>1. map.size - 1 < n /\ map.size - 1 <= map.size
    BY <1>1, <1>2 DEF Fits
  <2> QED BY <1>2, <1>5, <1>12, <1>15, <2>1 DEF Fits, c
<1>17. MapInvariant(new)
  <2>1. MaxFill(new) = MaxFill(map) /\ new.size \in Nat
    BY <1>2, <1>16, MapTypes
  <2>2. MaxFill(map) \in Nat
    BY <1>2, Room
  <2>3. new.size <= MaxFill(new)
    BY <1>1, <1>2, <1>16, <2>1, <2>2
  <2> QED BY <1>16, <2>3 DEF MapInvariant
<1>18. \A q, y : Leads(new, q, y) <=> Leads(map, q, y) /\ q # k
  <2>1. ASSUME NEW q, NEW y, Leads(new, q, y)
        PROVE  Leads(map, q, y) /\ q # k
    <3>1. PICK j \in Taken(c, u) : u[j] = [key |-> q, val |-> y]
      BY <1>5, <1>14, <2>1 DEF Leads
    <3>2. PICK l \in Taken(c, t) : l # i /\ u[j] = t[l]
      BY <1>12
    <3>3. t[l].key = q
      BY <3>1, <3>2
    <3>4. ProbeFor(map, t[l].key) = l /\ ProbeFor(map, t[i].key) = i
      BY <1>1, <1>2, <1>4, MapFacts
    <3>5. q # k
      BY <1>4, <3>2, <3>3, <3>4
    <3>6. t[l] = [key |-> q, val |-> y] /\ l \in Used(map)
      BY <1>2, <3>1, <3>2
    <3> QED BY <3>5, <3>6 DEF Leads
  <2>2. ASSUME NEW q, NEW y, Leads(map, q, y), q # k
        PROVE  Leads(new, q, y)
    <3>1. PICK l \in Used(map) : t[l] = [key |-> q, val |-> y]
      BY <2>2 DEF Leads
    <3>2. l # i /\ l \in Taken(c, t)
      BY <1>2, <1>4, <2>2, <3>1
    <3>3. PICK j \in Taken(c, u) : u[j] = t[l]
      BY <1>13, <3>2
    <3> QED BY <1>5, <1>14, <3>1, <3>3 DEF Leads
  <2> QED BY <2>1, <2>2
<1> QED BY <1>17, <1>18 DEF new

-----------------------------------------------------------------------------
(***************************************************************************)
(* What find() answers after an operation of the table.                    *)
(***************************************************************************)
LEMMA InsertAnswers ==
  ASSUME NEW map, MapInvariant(map), NEW k \in Refs, ~ Has(map, k),
         NEW x \in Objects, NEW q \in Refs
  PROVE  /\ Has(Insert(map, k, x), q) <=> Has(map, q) \/ q = k
         /\ Has(Insert(map, k, x), q) =>
              Get(Insert(map, k, x), q) = IF q = k THEN x ELSE Get(map, q)
<1> DEFINE new == Insert(map, k, x)
<1>1. MapInvariant(new) /\ \A p, y : Leads(new, p, y) <=> Leads(map, p, y) \/ (p = k /\ y = x)
  BY InsertMapFacts
<1> HIDE DEF new
<1>2. /\ Has(map, q) => Leads(map, q, Get(map, q))
      /\ \A y : Leads(map, q, y) => Has(map, q) /\ y = Get(map, q)
  BY LeadsFacts DEF MapInvariant
<1>3. /\ Has(new, q) => Leads(new, q, Get(new, q))
      /\ \A y : Leads(new, q, y) => Has(new, q) /\ y = Get(new, q)
  BY <1>1, LeadsFacts DEF MapInvariant
<1>4. Has(new, q) <=> Has(map, q) \/ q = k
  BY <1>1, <1>2, <1>3
<1>5. ASSUME Has(new, q)
      PROVE  Get(new, q) = IF q = k THEN x ELSE Get(map, q)
  BY <1>1, <1>2, <1>3, <1>5
<1> QED BY <1>4, <1>5 DEF new

\* A lookup after an erase finds what it found before, but for the key erased.
LEMMA EraseAnswers ==
  ASSUME NEW map, MapInvariant(map), NEW k \in Refs, Has(map, k),
         NEW q \in Refs
  PROVE  /\ Has(Erase(map, k), q) <=> Has(map, q) /\ q # k
         /\ Has(Erase(map, k), q) => Get(Erase(map, k), q) = Get(map, q)
<1> DEFINE new == Erase(map, k)
<1>1. MapInvariant(new) /\ \A p, y : Leads(new, p, y) <=> Leads(map, p, y) /\ p # k
  BY EraseMapFacts
<1> HIDE DEF new
<1>2. /\ Has(map, q) => Leads(map, q, Get(map, q))
      /\ \A y : Leads(map, q, y) => Has(map, q) /\ y = Get(map, q)
  BY LeadsFacts DEF MapInvariant
<1>3. /\ Has(new, q) => Leads(new, q, Get(new, q))
      /\ \A y : Leads(new, q, y) => Has(new, q) /\ y = Get(new, q)
  BY <1>1, LeadsFacts DEF MapInvariant
<1> QED BY <1>1, <1>2, <1>3 DEF new

\* A new map answers nothing.
LEMMA EmptyAnswers ==
  ASSUME NEW n \in Nat \ {0}, NEW q \in Refs
  PROVE  ~ Has(EmptyMap(n), q)
<1>1. Fits(EmptyMap(n), n) /\ \A x : ~ Leads(EmptyMap(n), q, x)
  BY EmptyMapFacts
<1> QED BY <1>1, LeadsFacts

\* Between two calls of the table every reference in it is found, and the count
\* that decides growth is right.
LEMMA EveryReferenceInMap ==
  ASSUME NEW map, MapInvariant(map)
  PROVE  /\ \A i \in Used(map) : ProbeFor(map, map.slots[i].key) = i
         /\ map.size = Cardinality(Used(map)) /\ map.size < Capacity(map)
<1>1. PICK n : Fits(map, n)
  BY DEF MapInvariant
<1> QED BY <1>1, MapFacts, MapTypes DEF Fits

-----------------------------------------------------------------------------
(***************************************************************************)
(* What the levels should show, from nothing but the orders that rest and  *)
(* the objects they are stored in: two functions of the references.        *)
(***************************************************************************)
Kept == [locate : Locates, side : Side, price : Prices, qty : Nat \ {0}]

\* S are the references that rest, each with storage of its own.
View(S, lead, rest) ==
  /\ IsFiniteSet(S) /\ lead \in [S -> Objects] /\ rest \in [S -> Kept] /\ IsInjective(lead)

AtLevel(rest, key) == {r \in DOMAIN rest : LevelOf(rest[r]) = key}
Quantities(rest) == [r \in DOMAIN rest |-> rest[r].qty]

Shown(lead, rest, key) ==
  IF AtLevel(rest, key) = {} THEN Absent
  ELSE [orders |-> {lead[r] : r \in AtLevel(rest, key)},
        total |-> SumFunctionOnSet(Quantities(rest), AtLevel(rest, key))]

\* f, and r with it.
Also(f, r, v) == [x \in DOMAIN f \cup {r} |-> IF x = r THEN v ELSE f[x]]

\* Orders are storage that may be kept, and free storage is not.
LEMMA KeptFacts ==
         /\ Order \in SUBSET Kept /\ Free \notin Kept
         /\ \A o \in Kept : /\ LevelOf(o) \in LevelKey
                            /\ o.qty \in Nat /\ o.qty > 0
                            /\ o \in [locate : Locates, side : Side, price : Prices, qty : Nat]
<1>1. \A o \in Order : o \in Kept
  BY BookAssumption DEF Order, Kept
<1>2. Free \notin Kept
  BY BookAssumption DEF Kept
<1>3. \A o \in Kept : LevelOf(o) \in LevelKey
  BY DEF Kept, LevelOf, LevelKey
<1>4. \A o \in Kept : /\ o.qty \in Nat /\ o.qty > 0
                      /\ o \in [locate : Locates, side : Side, price : Prices, qty : Nat]
  BY DEF Kept
<1> QED BY <1>1, <1>2, <1>3, <1>4

\* What there is at a level, and that it is not taken for an absent one.
LEMMA ShownFacts ==
  ASSUME NEW S, NEW lead, NEW rest, View(S, lead, rest), NEW key
  PROVE  /\ AtLevel(rest, key) \in SUBSET S /\ IsFiniteSet(AtLevel(rest, key))
         /\ DOMAIN rest = S /\ DOMAIN lead = S
         /\ \A r \in S : Quantities(rest)[r] = rest[r].qty /\ rest[r].qty \in Nat
         /\ SumFunctionOnSet(Quantities(rest), AtLevel(rest, key)) \in Nat
         /\ AtLevel(rest, key) # {} => Shown(lead, rest, key) # Absent
<1> DEFINE A == AtLevel(rest, key)
           f == Quantities(rest)
<1>1. DOMAIN rest = S /\ DOMAIN lead = S /\ IsFiniteSet(S)
  BY DEF View
<1>2. A \in SUBSET S /\ IsFiniteSet(A)
  <2>1. A \in SUBSET S
    BY <1>1 DEF AtLevel
  <2> QED BY <1>1, <2>1, FS_Subset
<1>3. \A r \in S : f[r] = rest[r].qty /\ rest[r].qty \in Nat
  BY <1>1, KeptFacts DEF View, Quantities
<1> HIDE DEF A, f
<1>4. SumFunctionOnSet(f, A) \in Nat
  BY <1>2, <1>3, SumType
<1>5. {lead[r] : r \in A} \in SUBSET Objects
  BY <1>2 DEF View
<1>6. ASSUME A # {}
      PROVE  Shown(lead, rest, key) # Absent
  <2> DEFINE level == [orders |-> {lead[r] : r \in A}, total |-> SumFunctionOnSet(f, A)]
  <2>1. level \in [orders : SUBSET Objects, total : Nat]
    BY <1>4, <1>5
  <2>2. Shown(lead, rest, key) = level
    BY <1>6 DEF Shown, A, f
  <2> QED BY BookAssumption, <2>1, <2>2
<1> QED BY <1>1, <1>2, <1>3, <1>4, <1>6 DEF A, f

\* A level without the order o, stored in x; it is gone when o was its last.
Parted(level, x, o) ==
  IF level.orders \ {x} = {} THEN Absent
  ELSE [orders |-> level.orders \ {x}, total |-> level.total - o.qty]

\* A level, which may be absent, with one order more.
Joined(level, x, o) ==
  IF level = Absent THEN [orders |-> {x}, total |-> o.qty]
  ELSE [orders |-> level.orders \cup {x}, total |-> level.total + o.qty]

\* A level whose orders have n shares less.
Fewer(level, n) == [level EXCEPT !.total = @ - n]

\* Of what the orders show, the level of o alone becomes another.
Becomes(lead, rest, l, u, o, level) ==
  /\ \A key : key # LevelOf(o) => Shown(l, u, key) = Shown(lead, rest, key)
  /\ Shown(l, u, LevelOf(o)) = level

\* An order is taken out of its level: the others show it no more.
LEMMA ShownWithout ==
  ASSUME NEW S, NEW lead, NEW rest, View(S, lead, rest), NEW r \in S
  PROVE  /\ View(S \ {r}, Without(lead, r), Without(rest, r))
         /\ Shown(lead, rest, LevelOf(rest[r])) # Absent
         /\ Becomes(lead, rest, Without(lead, r), Without(rest, r), rest[r],
                    Parted(Shown(lead, rest, LevelOf(rest[r])), lead[r], rest[r]))
<1> DEFINE l == Without(lead, r)
           u == Without(rest, r)
           R == S \ {r}
<1>1. /\ IsFiniteSet(S) /\ lead \in [S -> Objects] /\ rest \in [S -> Kept]
      /\ \A x, y \in S : lead[x] = lead[y] => x = y
  BY DEF View, IsInjective
<1>2. DOMAIN l = R /\ DOMAIN u = R /\ \A x \in R : l[x] = lead[x] /\ u[x] = rest[x]
  BY <1>1 DEF Without, Restrict
<1>3. l \in [R -> Objects] /\ u \in [R -> Kept]
  BY <1>1 DEF Without, Restrict
<1> HIDE DEF l, u
<1>4. View(R, l, u)
  <2>1. IsFiniteSet(R)
    BY <1>1, FS_Subset
  <2>2. IsInjective(l)
    BY <1>1, <1>2 DEF IsInjective
  <2> QED BY <1>3, <2>1, <2>2 DEF View
<1>5. \A key : AtLevel(u, key) = AtLevel(rest, key) \ {r}
  BY <1>1, <1>2 DEF AtLevel
<1>6. ASSUME NEW key
      PROVE  /\ {l[x] : x \in AtLevel(u, key)} = {lead[x] : x \in AtLevel(rest, key)} \ {lead[r]}
             /\ SumFunctionOnSet(Quantities(u), AtLevel(u, key))
                  = SumFunctionOnSet(Quantities(rest), AtLevel(rest, key) \ {r})
  <2>1. AtLevel(rest, key) \in SUBSET S /\ AtLevel(u, key) \in SUBSET R
    BY <1>1, <1>2 DEF AtLevel
  <2>2. {l[x] : x \in AtLevel(u, key)} = {lead[x] : x \in AtLevel(rest, key)} \ {lead[r]}
    <3>1. \A x \in AtLevel(u, key) : l[x] = lead[x] /\ x \in AtLevel(rest, key) /\ lead[x] # lead[r]
      BY <1>1, <1>2, <1>5, <2>1
    <3>2. \A x \in AtLevel(rest, key) : lead[x] # lead[r] => x \in AtLevel(u, key) /\ l[x] = lead[x]
      BY <1>2, <1>5, <2>1
    <3> QED BY <3>1, <3>2
  <2>3. \A x \in AtLevel(u, key) : Quantities(u)[x] = Quantities(rest)[x]
    BY <1>1, <1>2, <2>1 DEF Quantities
  <2>4. IsFiniteSet(AtLevel(u, key))
    BY <1>4, ShownFacts
  <2>5. SumFunctionOnSet(Quantities(u), AtLevel(u, key))
          = SumFunctionOnSet(Quantities(rest), AtLevel(u, key))
    <3> DEFINE f == Quantities(u)
               g == Quantities(rest)
               A == AtLevel(u, key)
    <3>1. IsFiniteSet(A) /\ \A x \in A : f[x] = g[x]
      BY <2>3, <2>4
    <3> HIDE DEF f, g, A
    <3>2. SumFunctionOnSet(f, A) = SumFunctionOnSet(g, A)
      BY <3>1, SumFacts
    <3> QED BY <3>2 DEF f, g, A
  <2> QED BY <1>5, <2>2, <2>5
<1>7. ASSUME NEW key, key # LevelOf(rest[r])
      PROVE  Shown(l, u, key) = Shown(lead, rest, key)
  <2>1. AtLevel(rest, key) \ {r} = AtLevel(rest, key)
    BY <1>7 DEF AtLevel
  <2>2. {l[x] : x \in AtLevel(u, key)} = {lead[x] : x \in AtLevel(rest, key)}
    <3>1. \A x \in AtLevel(u, key) : l[x] = lead[x]
      BY <1>2 DEF AtLevel
    <3> QED BY <1>5, <2>1, <3>1
  <2> QED BY <1>5, <1>6, <2>1, <2>2 DEF Shown
<1>8. /\ Shown(lead, rest, LevelOf(rest[r])) # Absent
      /\ Shown(l, u, LevelOf(rest[r])) =
           Parted(Shown(lead, rest, LevelOf(rest[r])), lead[r], rest[r])
  <2> DEFINE key == LevelOf(rest[r])
             level == Shown(lead, rest, key)
             A == AtLevel(rest, key)
             B == AtLevel(u, key)
             f == Quantities(rest)
             all == SumFunctionOnSet(f, A)
             fewer == SumFunctionOnSet(f, A \ {r})
             left == {lead[x] : x \in A} \ {lead[r]}
  <2>1. r \in A
    BY <1>1 DEF AtLevel
  <2>2. level # Absent /\ level = [orders |-> {lead[x] : x \in A}, total |-> all]
    BY <2>1, ShownFacts DEF Shown
  <2>3. A \in SUBSET S /\ IsFiniteSet(A) /\ (\A x \in A : f[x] \in Nat) /\ f[r] = rest[r].qty
    BY ShownFacts
  <2>4. B = A \ {r} /\ {l[x] : x \in B} = left
        /\ SumFunctionOnSet(Quantities(u), B) = fewer
    BY <1>5, <1>6
  <2> HIDE DEF f, A
  <2>5. all = f[r] + fewer
    BY <2>1, <2>3, SumRemove
  <2>6. fewer \in Nat /\ f[r] \in Nat
    <3>1. IsFiniteSet(A \ {r})
      BY <2>3, FS_Subset
    <3> QED BY <2>1, <2>3, <3>1, SumType
  <2>7. B = {} <=> left = {}
    BY <2>4
  <2>8. Shown(l, u, key) = IF left = {} THEN Absent ELSE [orders |-> left, total |-> fewer]
    BY <2>4, <2>7 DEF Shown
  <2> HIDE DEF all, fewer
  <2>9. fewer = all - rest[r].qty
    BY <2>3, <2>5, <2>6
  <2> HIDE DEF level, left, key
  <2>10. level.orders \ {lead[r]} = left /\ level.total = all
    BY <2>2 DEF left
  <2> QED BY <2>2, <2>8, <2>9, <2>10 DEF level, key, Parted
<1>9. Becomes(lead, rest, l, u, rest[r],
              Parted(Shown(lead, rest, LevelOf(rest[r])), lead[r], rest[r]))
  BY <1>7, <1>8 DEF Becomes
<1> QED BY <1>4, <1>8, <1>9 DEF l, u

\* r is new, and so is the storage x of its order o.
Comes(S, lead, rest, r, x, o) ==
  /\ View(S, lead, rest) /\ r \notin S /\ o \in Kept
  /\ x \in Objects /\ \A q \in S : lead[q] # x

\* An order comes to its level: the others show no more of it.
LEMMA ShownAlso ==
  ASSUME NEW S, NEW lead, NEW rest, NEW r, NEW x, NEW o,
         Comes(S, lead, rest, r, x, o)
  PROVE  /\ View(S \cup {r}, Also(lead, r, x), Also(rest, r, o))
         /\ Becomes(lead, rest, Also(lead, r, x), Also(rest, r, o), o,
                    Joined(Shown(lead, rest, LevelOf(o)), x, o))
<1> DEFINE l == Also(lead, r, x)
           u == Also(rest, r, o)
           R == S \cup {r}
<1>0. /\ View(S, lead, rest) /\ r \notin S /\ x \in Objects /\ o \in Kept
      /\ \A q \in S : lead[q] # x
  BY DEF Comes
<1>1. /\ IsFiniteSet(S) /\ lead \in [S -> Objects] /\ rest \in [S -> Kept]
      /\ DOMAIN lead = S /\ DOMAIN rest = S
      /\ \A p, q \in S : lead[p] = lead[q] => p = q
  BY <1>0 DEF View, IsInjective
<1>2. /\ DOMAIN l = R /\ DOMAIN u = R /\ l[r] = x /\ u[r] = o
      /\ \A q \in S : q # r /\ l[q] = lead[q] /\ u[q] = rest[q]
  BY <1>0, <1>1 DEF Also
<1>3. l \in [R -> Objects] /\ u \in [R -> Kept]
  BY <1>0, <1>1 DEF Also
<1> HIDE DEF l, u
<1>4. View(R, l, u)
  <2>1. IsFiniteSet(R)
    BY <1>1, FS_AddElement
  <2>2. IsInjective(l)
    <3>1. \A p, q \in R : l[p] = l[q] => p = q
      BY <1>0, <1>1, <1>2
    <3> QED BY <1>2, <3>1 DEF IsInjective
  <2> QED BY <1>3, <2>1, <2>2 DEF View
<1>5. ASSUME NEW key
      PROVE  /\ AtLevel(u, key) = IF key = LevelOf(o) THEN AtLevel(rest, key) \cup {r}
                                  ELSE AtLevel(rest, key)
             /\ AtLevel(rest, key) \in SUBSET S
  BY <1>0, <1>1, <1>2 DEF AtLevel
<1>6. ASSUME NEW key
      PROVE  /\ {l[q] : q \in AtLevel(rest, key)} = {lead[q] : q \in AtLevel(rest, key)}
             /\ SumFunctionOnSet(Quantities(u), AtLevel(rest, key))
                  = SumFunctionOnSet(Quantities(rest), AtLevel(rest, key))
  <2> DEFINE f == Quantities(u)
             g == Quantities(rest)
             A == AtLevel(rest, key)
  <2>1. \A q \in A : l[q] = lead[q] /\ f[q] = g[q]
    BY <1>1, <1>2, <1>5 DEF Quantities
  <2>2. IsFiniteSet(A)
    BY <1>0, ShownFacts
  <2> HIDE DEF f, g, A
  <2>3. SumFunctionOnSet(f, A) = SumFunctionOnSet(g, A)
    BY <2>1, <2>2, SumFacts
  <2>4. {l[q] : q \in A} = {lead[q] : q \in A}
    BY <2>1
  <2> QED BY <2>3, <2>4 DEF f, g, A
<1>7. ASSUME NEW key, key # LevelOf(o)
      PROVE  Shown(l, u, key) = Shown(lead, rest, key)
  <2>1. AtLevel(u, key) = AtLevel(rest, key)
    BY <1>5, <1>7
  <2> QED BY <1>6, <2>1 DEF Shown
<1>8. Shown(l, u, LevelOf(o)) = Joined(Shown(lead, rest, LevelOf(o)), x, o)
  <2> DEFINE key == LevelOf(o)
             level == Shown(lead, rest, key)
             A == AtLevel(rest, key)
             B == AtLevel(u, key)
             f == Quantities(u)
             all == SumFunctionOnSet(f, B)
             before == SumFunctionOnSet(f, A)
  <2>1. B = A \cup {r} /\ r \notin A
    BY <1>0, <1>5
  <2>2. IsFiniteSet(B) /\ (\A q \in B : f[q] \in Nat) /\ f[r] = o.qty
    <3>1. /\ IsFiniteSet(B) /\ B \in SUBSET R
          /\ \A q \in R : f[q] = u[q].qty /\ u[q].qty \in Nat
      BY <1>4, ShownFacts
    <3> QED BY <1>2, <3>1
  <2>3. B \ {r} = A
    BY <2>1
  <2>4. {l[q] : q \in B} = {lead[q] : q \in A} \cup {x}
    <3>1. {l[q] : q \in A} = {lead[q] : q \in A}
      BY <1>6
    <3> HIDE DEF A, B
    <3> QED BY <1>2, <2>1, <3>1
  <2>5. before = SumFunctionOnSet(Quantities(rest), A)
    BY <1>6
  <2>6. Shown(l, u, key) = [orders |-> {lead[q] : q \in A} \cup {x}, total |-> all]
    BY <2>1, <2>4 DEF Shown
  <2>7. level = IF A = {} THEN Absent
                ELSE [orders |-> {lead[q] : q \in A}, total |-> before]
    BY <2>5 DEF Shown
  <2>8. level = Absent <=> A = {}
    <3>1. A # {} => level # Absent
      BY <1>0, ShownFacts
    <3>2. A = {} => level = Absent
      BY DEF Shown
    <3> QED BY <3>1, <3>2
  <2> HIDE DEF f, A, B
  <2>9. all = o.qty + before /\ before \in Nat
    <3>1. all = f[r] + SumFunctionOnSet(f, B \ {r})
      BY <2>1, <2>2, SumRemove
    <3>2. IsFiniteSet(A) /\ \A q \in A : f[q] \in Nat
      BY <2>1, <2>2, FS_Subset
    <3>3. before \in Nat
      BY <3>2, SumType
    <3> QED BY <2>2, <2>3, <3>1, <3>3
  <2>10. o.qty \in Nat
    BY <1>0, KeptFacts
  <2>11. A = {} => before = 0
    BY SumFacts, FS_EmptySet
  <2> HIDE DEF level, all, before, key
  <2>12. CASE A = {}
    <3>1. all = o.qty
      BY <2>9, <2>10, <2>11, <2>12
    <3>2. Shown(l, u, key) = [orders |-> {x}, total |-> o.qty]
      BY <2>6, <2>12, <3>1
    <3> QED BY <2>8, <2>12, <3>2 DEF level, key, Joined
  <2>13. CASE A # {}
    <3>1. level.orders = {lead[q] : q \in A} /\ level.total = before /\ level # Absent
      BY <2>7, <2>8, <2>13
    <3>2. all = before + o.qty
      BY <2>9, <2>10
    <3> QED BY <2>6, <3>1, <3>2 DEF level, key, Joined
  <2> QED BY <2>12, <2>13
<1>9. Becomes(lead, rest, l, u, o, Joined(Shown(lead, rest, LevelOf(o)), x, o))
  BY <1>7, <1>8 DEF Becomes
<1> QED BY <1>4, <1>9 DEF l, u

\* The order of r loses n of its shares.
Smaller(rest, r, n) == [rest EXCEPT ![r].qty = @ - n]

\* The order of r is for more than n shares.
Shrinks(S, lead, rest, r, n) ==
  View(S, lead, rest) /\ r \in S /\ n \in Nat /\ n < rest[r].qty

\* An order loses some of its shares: its level has them less.
LEMMA ShownLess ==
  ASSUME NEW S, NEW lead, NEW rest, NEW r, NEW n, Shrinks(S, lead, rest, r, n)
  PROVE  /\ View(S, lead, Smaller(rest, r, n))
         /\ Becomes(lead, rest, lead, Smaller(rest, r, n), rest[r],
                    Fewer(Shown(lead, rest, LevelOf(rest[r])), n))
<1> DEFINE o == rest[r]
           e == [o EXCEPT !.qty = @ - n]
           less == Smaller(rest, r, n)
           level == Shown(lead, rest, LevelOf(o))
<1>0. View(S, lead, rest) /\ r \in S /\ n \in Nat /\ n < rest[r].qty
  BY DEF Shrinks
<1>1. /\ IsFiniteSet(S) /\ rest \in [S -> Kept] /\ DOMAIN rest = S /\ o \in Kept
      /\ lead \in [S -> Objects] /\ IsInjective(lead) /\ r \in S
  BY <1>0 DEF View
<1>2. o.qty \in Nat /\ n < o.qty /\ n \in Nat
  BY <1>0, <1>1, KeptFacts
<1>3. e \in Kept /\ LevelOf(e) = LevelOf(o) /\ e.qty = o.qty - n
  <2>1. o.qty - n \in Nat \ {0}
    BY <1>2
  <2>2. DOMAIN o = {"locate", "side", "price", "qty"}
    BY <1>1 DEF Kept
  <2>3. e.qty = o.qty - n /\ e.locate = o.locate /\ e.side = o.side /\ e.price = o.price
    BY <2>2
  <2>4. e = [locate |-> o.locate, side |-> o.side, price |-> o.price, qty |-> o.qty - n]
    BY <1>1 DEF Kept
  <2>5. o.locate \in Locates /\ o.side \in Side /\ o.price \in Prices
    BY <1>1 DEF Kept
  <2> HIDE DEF e, o
  <2>6. e \in Kept
    BY <2>1, <2>4, <2>5 DEF Kept
  <2> QED BY <2>3, <2>6 DEF LevelOf
<1>4. less = [rest EXCEPT ![r] = e]
  BY <1>1 DEF Smaller
<1>5. DOMAIN less = S /\ less[r] = e /\ \A q \in S : q # r => less[q] = rest[q]
  BY <1>1, <1>4
<1>6. View(S, lead, less)
  <2>1. less \in [S -> Kept]
    BY <1>1, <1>3, <1>4
  <2> QED BY <1>1, <2>1 DEF View
<1> HIDE DEF less, e
<1>7. \A key : AtLevel(less, key) = AtLevel(rest, key) /\ AtLevel(rest, key) \in SUBSET S
  BY <1>1, <1>3, <1>5 DEF AtLevel
<1>8. ASSUME NEW key, key # LevelOf(o)
      PROVE  Shown(lead, less, key) = Shown(lead, rest, key)
  <2> DEFINE f == Quantities(less)
             g == Quantities(rest)
             A == AtLevel(rest, key)
  <2>1. A \in SUBSET S /\ r \notin A /\ IsFiniteSet(A)
    <3>1. A \in SUBSET S
      BY <1>7
    <3>2. r \notin A
      BY <1>8 DEF AtLevel
    <3>3. IsFiniteSet(A)
      BY <1>0, ShownFacts
    <3> QED BY <3>1, <3>2, <3>3
  <2>2. \A q \in A : f[q] = g[q]
    BY <1>1, <1>5, <2>1 DEF Quantities
  <2>3. AtLevel(less, key) = A
    BY <1>7
  <2> HIDE DEF f, g, A
  <2>4. SumFunctionOnSet(f, A) = SumFunctionOnSet(g, A)
    BY <2>1, <2>2, SumFacts
  <2> QED BY <2>3, <2>4 DEF Shown, f, g, A
<1>9. level # Absent /\ Shown(lead, less, LevelOf(o)) = [level EXCEPT !.total = @ - n]
  <2> DEFINE f == Quantities(less)
             g == Quantities(rest)
             A == AtLevel(rest, LevelOf(o))
             now == SumFunctionOnSet(f, A)
             before == SumFunctionOnSet(g, A)
             others == SumFunctionOnSet(f, A \ {r})
  <2>1. r \in A
    BY <1>1 DEF AtLevel
  <2>2. /\ A \in SUBSET S /\ IsFiniteSet(A) /\ level # Absent
        /\ \A q \in S : g[q] = rest[q].qty /\ g[q] \in Nat
    BY <1>0, <2>1, ShownFacts
  <2>3. level = [orders |-> {lead[q] : q \in A}, total |-> before]
    BY <2>1 DEF Shown
  <2>4. \A q \in S : f[q] = less[q].qty /\ f[q] \in Nat
    BY <1>6, ShownFacts
  <2>5. Shown(lead, less, LevelOf(o)) = [orders |-> {lead[q] : q \in A}, total |-> now]
    <3>1. AtLevel(less, LevelOf(o)) = A /\ A # {}
      BY <1>7, <2>1
    <3> HIDE DEF A, o
    <3> QED BY <3>1 DEF Shown
  <2>6. (\A q \in A \ {r} : f[q] = g[q]) /\ f[r] = g[r] - n
    BY <1>1, <1>3, <1>5, <2>2, <2>4
  <2>13. n \in Nat
    BY <1>2
  <2>12. (\A q \in A : f[q] \in Nat /\ g[q] \in Nat) /\ f[r] \in Nat /\ g[r] \in Nat
    BY <2>1, <2>2, <2>4
  <2>11. IsFiniteSet(A) /\ IsFiniteSet(A \ {r})
    BY <2>2, FS_Subset
  <2> HIDE DEF f, g, A, level
  <2>7. now = f[r] + others /\ before = g[r] + SumFunctionOnSet(g, A \ {r})
    BY <2>1, <2>11, <2>12, SumRemove
  <2>8. others = SumFunctionOnSet(g, A \ {r}) /\ others \in Nat
    BY <2>6, <2>11, <2>12, SumFacts, SumType
  <2> HIDE DEF now, before, others
  <2>9. now = before - n
    BY <2>6, <2>7, <2>8, <2>12, <2>13
  <2>10. [level EXCEPT !.total = @ - n] = [orders |-> {lead[q] : q \in A}, total |-> before - n]
    <3> DEFINE Q == {lead[q] : q \in A}
    <3>1. level = [orders |-> Q, total |-> before]
      BY <2>3
    <3> HIDE DEF Q
    <3>2. [level EXCEPT !.total = @ - n] = [orders |-> Q, total |-> before - n]
      BY <3>1
    <3> QED BY <3>2 DEF Q
  <2> QED BY <2>2, <2>5, <2>9, <2>10
<1> QED
  <2>1. Shown(lead, less, LevelOf(o)) = Fewer(level, n)
    BY <1>9 DEF Fewer
  <2> HIDE DEF o, level
  <2>2. Becomes(lead, rest, lead, less, o, Fewer(level, n))
    BY <1>8, <2>1 DEF Becomes
  <2> QED BY <1>6, <2>2 DEF less, o, level

-----------------------------------------------------------------------------
(***************************************************************************)
(* The invariant: the table is sound, every reference that rests has an    *)
(* order of its own in the pool, the pool has no other orders, and the     *)
(* levels and the count are what these orders make them.                   *)
(***************************************************************************)
Here(b) == {r \in Refs : Resting(b, r)}
Lead(b) == [r \in Here(b) |-> Get(b.orders, r)]

BookInvariant(b) ==
  /\ b = [orders |-> b.orders, pool |-> b.pool, levels |-> b.levels,
          live_orders |-> b.live_orders]
  /\ MapInvariant(b.orders)
  /\ b.pool \in [Objects -> Kept \cup {Free}]
  /\ View(Here(b), Lead(b), Rest(b))
  /\ \A x \in Objects : b.pool[x] # Free => \E r \in Here(b) : Lead(b)[r] = x
  /\ b.levels = [key \in LevelKey |-> Shown(Lead(b), Rest(b), key)]
  /\ b.live_orders = Cardinality(Here(b))

\* What the references that rest lead to.
LEMMA HereFacts ==
  ASSUME NEW b, BookInvariant(b)
  PROVE  /\ Here(b) \in SUBSET Refs /\ IsFiniteSet(Here(b))
         /\ DOMAIN Lead(b) = Here(b) /\ DOMAIN Rest(b) = Here(b)
         /\ Lead(b) \in [Here(b) -> Objects] /\ Rest(b) \in [Here(b) -> Kept]
         /\ \A r \in Here(b) : /\ Has(b.orders, r) /\ Get(b.orders, r) = Lead(b)[r]
                               /\ b.pool[Lead(b)[r]] = Rest(b)[r] /\ OrderAt(b, r) = Rest(b)[r]
         /\ \A r \in Refs : Has(b.orders, r) <=> r \in Here(b)
         /\ \A r, q \in Here(b) : Lead(b)[r] = Lead(b)[q] => r = q
         /\ b.live_orders \in Nat
<1>1. \A r \in Refs : Has(b.orders, r) <=> r \in Here(b)
  BY DEF Here, Resting
<1>2. /\ IsFiniteSet(Here(b)) /\ Lead(b) \in [Here(b) -> Objects] /\ Rest(b) \in [Here(b) -> Kept]
      /\ \A r, q \in Here(b) : Lead(b)[r] = Lead(b)[q] => r = q
  BY DEF BookInvariant, View, IsInjective
<1>3. /\ Here(b) \in SUBSET Refs
      /\ \A r \in Here(b) : Get(b.orders, r) = Lead(b)[r] /\ Rest(b)[r] = OrderAt(b, r)
  BY DEF Here, Lead, Rest
<1>4. \A r \in Here(b) : b.pool[Lead(b)[r]] = OrderAt(b, r)
  BY <1>3 DEF OrderAt
<1>5. b.live_orders \in Nat
  BY <1>2, FS_CardinalityType DEF BookInvariant
<1> QED BY <1>1, <1>2, <1>3, <1>4, <1>5

\* The references of S rest in the book b, with these objects and these orders.
MadeOf(b, S, lead, rest) ==
  /\ b = [orders |-> b.orders, pool |-> b.pool, levels |-> b.levels,
          live_orders |-> b.live_orders]
  /\ View(S, lead, rest) /\ S \in SUBSET Refs
  /\ MapInvariant(b.orders) /\ b.pool \in [Objects -> Kept \cup {Free}]
  /\ \A r \in Refs : Has(b.orders, r) <=> r \in S
  /\ \A r \in S : Get(b.orders, r) = lead[r] /\ b.pool[lead[r]] = rest[r]
  /\ \A x \in Objects : b.pool[x] # Free => \E r \in S : lead[r] = x
  /\ b.levels = [key \in LevelKey |-> Shown(lead, rest, key)]
  /\ b.live_orders = Cardinality(S)

\* A book that is made so keeps the invariant.
LEMMA BookFromParts ==
  ASSUME NEW b, NEW S, NEW lead, NEW rest, MadeOf(b, S, lead, rest)
  PROVE  BookInvariant(b) /\ Here(b) = S /\ Lead(b) = lead /\ Rest(b) = rest
<1>1. Here(b) = S
  BY DEF MadeOf, Here, Resting
<1>2. lead \in [S -> Objects] /\ rest \in [S -> Kept]
  BY DEF MadeOf, View
<1>3. Lead(b) = lead
  BY <1>1, <1>2 DEF MadeOf, Lead
<1>4. Rest(b) = rest
  <2>1. Rest(b) = [r \in S |-> OrderAt(b, r)]
    BY <1>1 DEF Rest, Here
  <2>2. \A r \in S : OrderAt(b, r) = rest[r]
    BY DEF MadeOf, OrderAt
  <2> QED BY <1>2, <2>1, <2>2
<1> QED BY <1>1, <1>3, <1>4 DEF MadeOf, BookInvariant

\* The level of an order, in a book that keeps the invariant.
LEMMA LevelFacts ==
  ASSUME NEW b, BookInvariant(b), NEW o \in Kept
  PROVE  /\ LevelOf(o) \in LevelKey
         /\ b.levels[LevelOf(o)] = Shown(Lead(b), Rest(b), LevelOf(o))
         /\ \A level : [b.levels EXCEPT ![LevelOf(o)] = level] =
              [key \in LevelKey |-> IF key = LevelOf(o) THEN level
                                   ELSE Shown(Lead(b), Rest(b), key)]
<1>1. LevelOf(o) \in LevelKey
  BY KeptFacts
<1>2. b.levels = [key \in LevelKey |-> Shown(Lead(b), Rest(b), key)]
  BY DEF BookInvariant
<1> QED BY <1>1, <1>2

\* remove_order(): of the orders that rest one is gone, with its storage.
LEMMA RemoveFacts ==
  ASSUME NEW b, BookInvariant(b), NEW r \in Here(b)
  PROVE  /\ BookInvariant(RemoveOrder(b, r))
         /\ Here(RemoveOrder(b, r)) = Here(b) \ {r}
         /\ Rest(RemoveOrder(b, r)) = Without(Rest(b), r)
<1> DEFINE x == Lead(b)[r]
           o == Rest(b)[r]
           S == Here(b) \ {r}
           l == Without(Lead(b), r)
           u == Without(Rest(b), r)
           level == Shown(Lead(b), Rest(b), LevelOf(o))
           kept == Parted(level, x, o)
           new == RemoveOrder(b, r)
<1>1. /\ r \in Refs /\ Has(b.orders, r) /\ Get(b.orders, r) = x /\ b.pool[x] = o
      /\ x \in Objects /\ o \in Kept /\ IsFiniteSet(Here(b)) /\ Here(b) \in SUBSET Refs
      /\ Lead(b) \in [Here(b) -> Objects] /\ Rest(b) \in [Here(b) -> Kept]
      /\ b.live_orders \in Nat
  BY HereFacts
<1>2. /\ MapInvariant(b.orders) /\ b.pool \in [Objects -> Kept \cup {Free}]
      /\ View(Here(b), Lead(b), Rest(b)) /\ b.live_orders = Cardinality(Here(b))
      /\ \A y \in Objects : b.pool[y] # Free => \E q \in Here(b) : Lead(b)[q] = y
  BY DEF BookInvariant
<1>3. /\ View(S, l, u)
      /\ \A key : key # LevelOf(o) => Shown(l, u, key) = Shown(Lead(b), Rest(b), key)
      /\ level # Absent /\ Shown(l, u, LevelOf(o)) = kept
  <2>1. View(S, l, u) /\ level # Absent /\ Becomes(Lead(b), Rest(b), l, u, o, kept)
    BY <1>2, ShownWithout
  <2> HIDE DEF S, l, u, o, kept, level
  <2> QED BY <2>1 DEF Becomes
<1>4. /\ b.levels[LevelOf(o)] = level
      /\ [b.levels EXCEPT ![LevelOf(o)] = kept] =
           [key \in LevelKey |-> IF key = LevelOf(o) THEN kept
                                ELSE Shown(Lead(b), Rest(b), key)]
  <2>1. o \in Kept
    BY <1>1
  <2> HIDE DEF o
  <2>2. /\ b.levels[LevelOf(o)] = Shown(Lead(b), Rest(b), LevelOf(o))
        /\ \A v : [b.levels EXCEPT ![LevelOf(o)] = v] =
             [key \in LevelKey |-> IF key = LevelOf(o) THEN v
                                  ELSE Shown(Lead(b), Rest(b), key)]
    BY <2>1, LevelFacts
  <2> QED BY <2>2
<1>5. \A q \in S : l[q] = Lead(b)[q] /\ u[q] = Rest(b)[q]
  BY HereFacts DEF Without, Restrict
<1> HIDE DEF l, u, kept
<1>6. /\ new.orders = Erase(b.orders, r) /\ new.pool = [b.pool EXCEPT ![x] = Free]
      /\ new.levels = [b.levels EXCEPT ![LevelOf(o)] = kept]
      /\ new.live_orders = b.live_orders - 1
      /\ new = [orders |-> new.orders, pool |-> new.pool, levels |-> new.levels,
                live_orders |-> new.live_orders]
  BY <1>1, <1>3, <1>4 DEF RemoveOrder, kept, Parted
<1> HIDE DEF new, x, o, level
<1>7. /\ MapInvariant(new.orders)
      /\ \A q \in Refs : Has(new.orders, q) <=> q \in S
      /\ \A q \in S : Get(new.orders, q) = Get(b.orders, q)
  <2>1. \A q \in Refs : Has(b.orders, q) <=> q \in Here(b)
    BY HereFacts
  <2>2. MapInvariant(new.orders)
    BY <1>1, <1>2, <1>6, EraseMapFacts
  <2>3. \A q \in Refs : /\ Has(new.orders, q) <=> Has(b.orders, q) /\ q # r
                        /\ Has(new.orders, q) => Get(new.orders, q) = Get(b.orders, q)
    BY <1>1, <1>2, <1>6, EraseAnswers
  <2> QED BY <1>1, <2>1, <2>2, <2>3
<1>8. /\ new.pool \in [Objects -> Kept \cup {Free}]
      /\ new.pool[x] = Free /\ \A y \in Objects : y # x => new.pool[y] = b.pool[y]
  BY <1>1, <1>2, <1>6
<1>9. \A q \in S : Get(new.orders, q) = l[q] /\ new.pool[l[q]] = u[q] /\ l[q] # x
  <2>1. \A q \in S : /\ Get(b.orders, q) = Lead(b)[q] /\ b.pool[Lead(b)[q]] = Rest(b)[q]
                     /\ Lead(b)[q] # x /\ Lead(b)[q] \in Objects
    BY HereFacts DEF x
  <2> QED BY <1>5, <1>7, <1>8, <2>1
<1>10. ASSUME NEW y \in Objects, new.pool[y] # Free
       PROVE  \E q \in S : l[q] = y
  <2>1. y # x /\ b.pool[y] # Free
    BY <1>8, <1>10
  <2>2. PICK q \in Here(b) : Lead(b)[q] = y
    BY <1>2, <2>1
  <2>3. q # r
    BY <2>1, <2>2 DEF x
  <2> QED BY <1>5, <2>2, <2>3
<1>11. new.levels = [key \in LevelKey |-> Shown(l, u, key)]
  BY <1>3, <1>4, <1>6
<1>12. new.live_orders = Cardinality(S)
  <2>1. Cardinality(S) = Cardinality(Here(b)) - 1
    BY <1>1, FS_RemoveElement
  <2> QED BY <1>2, <1>6, <2>1
<1>13. S \in SUBSET Refs
  BY <1>1
<1> HIDE DEF S
<1>14. MadeOf(new, S, l, u)
  BY <1>3, <1>6, <1>7, <1>8, <1>9, <1>10, <1>11, <1>12, <1>13 DEF MadeOf
<1>15. BookInvariant(new) /\ Here(new) = S /\ Rest(new) = u
  BY <1>14, BookFromParts
<1> QED BY <1>15 DEF new, S, u

\* There is room in the pool unless as many orders rest as it has storage for.
LEMMA RoomFacts ==
  ASSUME NEW b, BookInvariant(b)
  PROVE  (\A x \in Objects : b.pool[x] # Free) <=> Cardinality(Here(b)) = Cardinality(Objects)
<1> DEFINE S == Here(b)
           f == Lead(b)
<1>1. f \in Injection(S, Objects) /\ IsFiniteSet(Objects)
  BY BookAssumption DEF BookInvariant, View, Injection
<1>2. Cardinality(S) = Cardinality(Objects) <=> f \in Surjection(S, Objects)
  BY <1>1, FS_Injection
<1>3. f \in Surjection(S, Objects) <=> \A x \in Objects : \E r \in S : f[r] = x
  BY HereFacts DEF Surjection
<1>4. \A r \in S : b.pool[f[r]] # Free
  BY HereFacts, KeptFacts
<1>5. \A x \in Objects : b.pool[x] # Free => \E r \in S : f[r] = x
  BY DEF BookInvariant
<1> HIDE DEF S, f
<1>6. (\A x \in Objects : b.pool[x] # Free) <=> \A x \in Objects : \E r \in S : f[r] = x
  BY <1>4, <1>5
<1> QED BY <1>2, <1>3, <1>6 DEF S

\* The order of a new reference: it rests if there is room for it, and the others
\* rest as before.
LEMMA PlaceFacts ==
  ASSUME NEW b, BookInvariant(b), NEW r \in Refs \ Here(b), NEW o \in Kept
  PROVE  /\ BookInvariant(PlaceOrder(b, r, o))
         /\ Rest(PlaceOrder(b, r, o)) = With(Rest(b), r, o)
<1> DEFINE available == {y \in Objects : b.pool[y] = Free}
           x == CHOOSE y \in available : TRUE
           S == Here(b) \cup {r}
           l == Also(Lead(b), r, x)
           u == Also(Rest(b), r, o)
           level == Shown(Lead(b), Rest(b), LevelOf(o))
           kept == Joined(level, x, o)
           new == PlaceOrder(b, r, o)
<1>1. /\ Here(b) \in SUBSET Refs /\ IsFiniteSet(Here(b)) /\ DOMAIN Rest(b) = Here(b)
      /\ DOMAIN Lead(b) = Here(b) /\ r \in Refs /\ r \notin Here(b) /\ ~ Has(b.orders, r)
      /\ b.live_orders \in Nat
  BY HereFacts
<1>2. /\ MapInvariant(b.orders) /\ b.pool \in [Objects -> Kept \cup {Free}]
      /\ View(Here(b), Lead(b), Rest(b)) /\ b.live_orders = Cardinality(Here(b))
      /\ \A y \in Objects : b.pool[y] # Free => \E q \in Here(b) : Lead(b)[q] = y
  BY DEF BookInvariant
<1>3. available = {} <=> Cardinality(Here(b)) = Cardinality(Objects)
  <2>1. available = {} <=> \A y \in Objects : b.pool[y] # Free
    OBVIOUS
  <2> HIDE DEF available
  <2> QED BY <2>1, RoomFacts
<1>4. CASE available = {}
  <2>1. new = b
    BY <1>4 DEF PlaceOrder
  <2>2. With(Rest(b), r, o) = Rest(b)
    BY <1>1, <1>3, <1>4 DEF With
  <2> QED BY <2>1, <2>2
<1>5. CASE available # {}
  <2>1. x \in Objects /\ b.pool[x] = Free
    <3>1. \E y \in available : TRUE
      BY <1>5
    <3>2. x \in available
      BY <3>1
    <3> QED BY <3>2
  <2>2. \A q \in Here(b) : Lead(b)[q] # x
    <3> HIDE DEF x
    <3>1. \A q \in Here(b) : b.pool[Lead(b)[q]] = Rest(b)[q] /\ Rest(b)[q] \in Kept
      BY HereFacts
    <3> QED BY <2>1, <3>1, KeptFacts
  <2>3. /\ b.levels[LevelOf(o)] = level
        /\ \A v : [b.levels EXCEPT ![LevelOf(o)] = v] =
             [key \in LevelKey |-> IF key = LevelOf(o) THEN v
                                  ELSE Shown(Lead(b), Rest(b), key)]
    BY LevelFacts
  <2>4. /\ new.orders = Insert(b.orders, r, x) /\ new.pool = [b.pool EXCEPT ![x] = o]
        /\ new.levels = [b.levels EXCEPT ![LevelOf(o)] = kept]
        /\ new.live_orders = b.live_orders + 1
        /\ new = [orders |-> new.orders, pool |-> new.pool, levels |-> new.levels,
                  live_orders |-> new.live_orders]
    <3> HIDE DEF level
    <3> QED BY <1>5, <2>3 DEF PlaceOrder, Joined
  <2> HIDE DEF x, new
  <2>5. /\ View(S, l, u)
        /\ \A key : key # LevelOf(o) => Shown(l, u, key) = Shown(Lead(b), Rest(b), key)
        /\ Shown(l, u, LevelOf(o)) = kept
    <3>1. Comes(Here(b), Lead(b), Rest(b), r, x, o)
      BY <1>1, <1>2, <2>1, <2>2 DEF Comes
    <3>2. View(S, l, u)
      BY <3>1, ShownAlso
    <3>3. Becomes(Lead(b), Rest(b), l, u, o, kept)
      BY <3>1, ShownAlso
    <3> HIDE DEF l, u, kept
    <3> QED BY <3>2, <3>3 DEF Becomes
  <2>6. /\ l[r] = x /\ u[r] = o
        /\ \A q \in Here(b) : q # r /\ l[q] = Lead(b)[q] /\ u[q] = Rest(b)[q]
    BY <1>1 DEF Also
  <2> HIDE DEF l, u, kept, level, available
  <2>7. MapInvariant(new.orders)
    BY <1>1, <1>2, <2>1, <2>4, InsertMapFacts
  <2>8. \A q \in Refs : /\ Has(new.orders, q) <=> Has(b.orders, q) \/ q = r
                        /\ Has(new.orders, q) =>
                             Get(new.orders, q) = IF q = r THEN x ELSE Get(b.orders, q)
    BY <1>1, <1>2, <2>1, <2>4, InsertAnswers
  <2>9. \A q \in Refs : Has(new.orders, q) <=> q \in S
    BY <2>8, HereFacts
  <2>10. /\ new.pool \in [Objects -> Kept \cup {Free}]
         /\ new.pool[x] = o /\ \A y \in Objects : y # x => new.pool[y] = b.pool[y]
    BY <1>2, <2>1, <2>4
  <2>11. \A q \in S : Get(new.orders, q) = l[q] /\ new.pool[l[q]] = u[q]
    <3>1. ASSUME NEW q \in Here(b)
          PROVE  Get(new.orders, q) = l[q] /\ new.pool[l[q]] = u[q]
      <4>1. /\ Get(b.orders, q) = Lead(b)[q] /\ b.pool[Lead(b)[q]] = Rest(b)[q]
            /\ Lead(b)[q] \in Objects /\ Has(b.orders, q) /\ q \in Refs
        BY HereFacts
      <4>2. Get(new.orders, q) = l[q]
        BY <2>6, <2>8, <4>1
      <4> QED BY <2>2, <2>6, <2>10, <4>1, <4>2
    <3>2. Get(new.orders, r) = l[r] /\ new.pool[l[r]] = u[r]
      BY <1>1, <2>6, <2>8, <2>10
    <3> QED BY <3>1, <3>2
  <2>12. ASSUME NEW y \in Objects, new.pool[y] # Free
         PROVE  \E q \in S : l[q] = y
    <3>1. CASE y = x
      BY <2>6, <3>1
    <3>2. CASE y # x
      <4>1. PICK q \in Here(b) : Lead(b)[q] = y
        BY <1>2, <2>10, <2>12, <3>2
      <4> QED BY <2>6, <4>1
    <3> QED BY <3>1, <3>2
  <2>13. new.levels = [key \in LevelKey |-> Shown(l, u, key)]
    BY <2>3, <2>4, <2>5
  <2>14. new.live_orders = Cardinality(S)
    <3>1. Cardinality(S) = Cardinality(Here(b)) + 1
      BY <1>1, FS_AddElement
    <3> QED BY <1>2, <2>4, <3>1
  <2>15. S \in SUBSET Refs
    BY <1>1
  <2> HIDE DEF S
  <2>16. MadeOf(new, S, l, u)
    BY <2>4, <2>5, <2>7, <2>9, <2>10, <2>11, <2>12, <2>13, <2>14, <2>15 DEF MadeOf
  <2>18. BookInvariant(new) /\ Rest(new) = u
    BY <2>16, BookFromParts
  <2>17. With(Rest(b), r, o) = u
    BY <1>1, <1>3, <1>5 DEF With, u, Also
  <2> QED BY <2>17, <2>18 DEF new
<1> QED BY <1>4, <1>5

\* reduce(): the order is gone when nothing is left of it, and smaller otherwise.
LEMMA ReduceFacts ==
  ASSUME NEW b, BookInvariant(b), NEW r \in Here(b), NEW n \in Nat
  PROVE  /\ BookInvariant(Reduce(b, r, n))
         /\ Rest(Reduce(b, r, n)) = IF n >= Rest(b)[r].qty THEN Without(Rest(b), r)
                                   ELSE [Rest(b) EXCEPT ![r].qty = @ - n]
<1> DEFINE x == Lead(b)[r]
           o == Rest(b)[r]
           e == [o EXCEPT !.qty = @ - n]
           less == Smaller(Rest(b), r, n)
           level == Shown(Lead(b), Rest(b), LevelOf(o))
           kept == Fewer(level, n)
           new == Reduce(b, r, n)
<1>1. /\ r \in Refs /\ Get(b.orders, r) = x /\ b.pool[x] = o
      /\ x \in Objects /\ o \in Kept /\ Here(b) \in SUBSET Refs
      /\ Rest(b) \in [Here(b) -> Kept] /\ DOMAIN Rest(b) = Here(b)
  BY HereFacts
<1>2. /\ MapInvariant(b.orders) /\ b.pool \in [Objects -> Kept \cup {Free}]
      /\ View(Here(b), Lead(b), Rest(b)) /\ b.live_orders = Cardinality(Here(b))
      /\ \A y \in Objects : b.pool[y] # Free => \E q \in Here(b) : Lead(b)[q] = y
  BY DEF BookInvariant
<1>3. o.qty \in Nat
  BY <1>1, KeptFacts
<1>4. CASE n >= o.qty
  <2>1. new = RemoveOrder(b, r)
    BY <1>1, <1>4 DEF Reduce
  <2> HIDE DEF o, new
  <2>2. BookInvariant(new) /\ Rest(new) = Without(Rest(b), r)
    BY <2>1, RemoveFacts
  <2> QED BY <1>4, <2>2 DEF o, new
<1>5. CASE ~ (n >= o.qty)
  <2>1. /\ View(Here(b), Lead(b), less)
        /\ \A key : key # LevelOf(o) => Shown(Lead(b), less, key) = Shown(Lead(b), Rest(b), key)
        /\ Shown(Lead(b), less, LevelOf(o)) = kept
    <3>1. n < o.qty
      BY <1>3, <1>5
    <3>2. Shrinks(Here(b), Lead(b), Rest(b), r, n)
      BY <1>2, <3>1 DEF Shrinks
    <3>3. View(Here(b), Lead(b), less) /\ Becomes(Lead(b), Rest(b), Lead(b), less, o, kept)
      BY <3>2, ShownLess
    <3> HIDE DEF o, less, kept
    <3> QED BY <3>3 DEF Becomes
  <2>2. /\ b.levels[LevelOf(o)] = level
        /\ \A v : [b.levels EXCEPT ![LevelOf(o)] = v] =
             [key \in LevelKey |-> IF key = LevelOf(o) THEN v
                                  ELSE Shown(Lead(b), Rest(b), key)]
    <3> HIDE DEF o
    <3> QED BY <1>1, LevelFacts DEF level
  <2>3. less = [Rest(b) EXCEPT ![r] = e]
    BY <1>1 DEF Smaller
  <2>4. DOMAIN less = Here(b) /\ less[r] = e /\ \A q \in Here(b) : q # r => less[q] = Rest(b)[q]
    BY <1>1, <2>3
  <2>5. e \in Kept
    BY <2>1, <2>4 DEF View
  <2>6. /\ new.orders = b.orders /\ new.live_orders = b.live_orders
        /\ new.pool = [b.pool EXCEPT ![x] = e]
        /\ new.levels = [b.levels EXCEPT ![LevelOf(o)] = kept]
        /\ new = [orders |-> new.orders, pool |-> new.pool, levels |-> new.levels,
                  live_orders |-> new.live_orders]
    <3>1. b = [orders |-> b.orders, pool |-> b.pool, levels |-> b.levels,
               live_orders |-> b.live_orders]
      BY DEF BookInvariant
    <3>2. new = [b EXCEPT !.pool[x].qty = @ - n, !.levels[LevelOf(o)].total = @ - n]
      BY <1>1, <1>5 DEF Reduce
    <3>3. /\ new.orders = b.orders /\ new.live_orders = b.live_orders
          /\ new.pool = [b.pool EXCEPT ![x].qty = @ - n]
          /\ new.levels = [b.levels EXCEPT ![LevelOf(o)].total = @ - n]
          /\ new = [orders |-> new.orders, pool |-> new.pool, levels |-> new.levels,
                    live_orders |-> new.live_orders]
      <4> HIDE DEF o, x, new
      <4> QED BY <3>1, <3>2
    <3>4. [b.pool EXCEPT ![x].qty = @ - n] = [b.pool EXCEPT ![x] = e]
      <4> HIDE DEF x
      <4> QED BY <1>1
    <3>5. [b.levels EXCEPT ![LevelOf(o)].total = @ - n] = [b.levels EXCEPT ![LevelOf(o)] = kept]
      BY <2>2 DEF Fewer
    <3> QED BY <3>3, <3>4, <3>5
  <2> HIDE DEF new, less, kept, level, e, x, o
  <2>7. /\ new.pool \in [Objects -> Kept \cup {Free}]
        /\ new.pool[x] = e /\ \A y \in Objects : y # x => new.pool[y] = b.pool[y]
    BY <1>1, <1>2, <2>5, <2>6
  <2>8. \A q \in Here(b) : Get(new.orders, q) = Lead(b)[q] /\ new.pool[Lead(b)[q]] = less[q]
    <3>1. ASSUME NEW q \in Here(b)
          PROVE  new.pool[Lead(b)[q]] = less[q]
      <4>1. b.pool[Lead(b)[q]] = Rest(b)[q] /\ Lead(b)[q] \in Objects
        BY HereFacts
      <4>2. q = r <=> Lead(b)[q] = x
        BY HereFacts DEF x
      <4> QED BY <2>4, <2>7, <4>1, <4>2
    <3>2. \A q \in Here(b) : Get(b.orders, q) = Lead(b)[q]
      BY HereFacts
    <3> QED BY <2>6, <3>1, <3>2
  <2>9. \A y \in Objects : new.pool[y] # Free => \E q \in Here(b) : Lead(b)[q] = y
    <3>1. b.pool[x] # Free
      BY <1>1, KeptFacts
    <3> QED BY <1>2, <2>7, <3>1
  <2>10. new.levels = [key \in LevelKey |-> Shown(Lead(b), less, key)]
    BY <2>1, <2>2, <2>6
  <2>11. \A q \in Refs : Has(new.orders, q) <=> q \in Here(b)
    BY <2>6, HereFacts
  <2>12. MadeOf(new, Here(b), Lead(b), less)
    BY <1>1, <1>2, <2>1, <2>6, <2>7, <2>8, <2>9, <2>10, <2>11 DEF MadeOf
  <2>13. BookInvariant(new) /\ Rest(new) = less
    BY <2>12, BookFromParts
  <2> QED BY <1>5, <2>13 DEF new, less, o, Smaller
<1> QED BY <1>4, <1>5

-----------------------------------------------------------------------------
(***************************************************************************)
(* The messages.                                                           *)
(***************************************************************************)
LEMMA InitialBook ==
  ASSUME BookInit
  PROVE  BookInvariant(book)
<1> DEFINE none == [r \in {} |-> Free]
<1>1. /\ book = [orders |-> book.orders, pool |-> book.pool, levels |-> book.levels,
                 live_orders |-> book.live_orders]
      /\ book.orders = EmptyMap(MapCapacity) /\ book.live_orders = 0
      /\ book.pool = [object \in Objects |-> Free]
      /\ book.levels = [key \in LevelKey |-> Absent]
  BY DEF BookInit, EmptyBook
<1>2. MapCapacity \in Nat \ {0}
  BY BookAssumption
<1>3. MapInvariant(book.orders) /\ \A r \in Refs : ~ Has(book.orders, r)
  BY <1>1, <1>2, EmptyMapFacts, EmptyAnswers
<1>4. View({}, none, none)
  <2>1. IsFiniteSet({})
    BY FS_EmptySet
  <2> QED BY <2>1 DEF View, IsInjective
<1>5. \A key : Shown(none, none, key) = Absent
  BY DEF Shown, AtLevel
<1>6. book.live_orders = Cardinality({})
  BY <1>1, FS_EmptySet
<1> HIDE DEF none
<1>7. book.levels = [key \in LevelKey |-> Shown(none, none, key)]
  BY <1>1, <1>5
<1>8. /\ book.pool \in [Objects -> Kept \cup {Free}]
      /\ \A x \in Objects : book.pool[x] = Free
  BY <1>1
<1>9. MadeOf(book, {}, none, none)
  BY <1>1, <1>3, <1>4, <1>6, <1>7, <1>8 DEF MadeOf
<1> QED BY <1>9, BookFromParts

\* The order that had the reference is gone, if there was one.
LEMMA AbandonFacts ==
  ASSUME NEW b, BookInvariant(b), NEW r \in Refs
  PROVE  /\ BookInvariant(Abandon(b, r)) /\ Here(Abandon(b, r)) = Here(b) \ {r}
         /\ Rest(Abandon(b, r)) = Without(Rest(b), r)
<1>1. CASE r \in Here(b)
  <2>1. Abandon(b, r) = RemoveOrder(b, r)
    BY <1>1 DEF Abandon, Here
  <2> QED BY <1>1, <2>1, RemoveFacts
<1>2. CASE r \notin Here(b)
  <2>1. Abandon(b, r) = b
    BY <1>2 DEF Abandon, Here
  <2>2. Here(b) \ {r} = Here(b)
    BY <1>2
  <2>3. Rest(b) \in [Here(b) -> Kept] /\ DOMAIN Rest(b) = Here(b)
    BY HereFacts
  <2>4. Without(Rest(b), r) = Rest(b)
    BY <2>2, <2>3 DEF Without, Restrict
  <2> QED BY <2>1, <2>2, <2>4
<1> QED BY <1>1, <1>2

\* Adding an order, in place of one of its reference if there is one.
LEMMA AddFacts ==
  ASSUME NEW b, BookInvariant(b), NEW r \in Refs, NEW o \in Order
  PROVE  /\ BookInvariant(Add(b, r, o))
         /\ Rest(Add(b, r, o)) = With(Without(Rest(b), r), r, o)
<1> DEFINE a == Abandon(b, r)
<1>1. BookInvariant(a) /\ Here(a) = Here(b) \ {r} /\ Rest(a) = Without(Rest(b), r)
  BY AbandonFacts
<1>2. o \in Kept
  BY KeptFacts
<1> HIDE DEF a
<1>3. r \in Refs \ Here(a)
  BY <1>1
<1>4. BookInvariant(PlaceOrder(a, r, o)) /\ Rest(PlaceOrder(a, r, o)) = With(Rest(a), r, o)
  BY <1>1, <1>2, <1>3, PlaceFacts
<1>5. Add(b, r, o) = PlaceOrder(a, r, o)
  BY DEF Add, a
<1> QED BY <1>1, <1>4, <1>5

\* A replace whose new reference is the old one, or none that rests.
LEMMA ReplaceFacts ==
  ASSUME NEW b, BookInvariant(b), NEW r \in Here(b),
         NEW q \in (Refs \ Here(b)) \cup {r}, NEW price \in Prices, NEW qty \in Shares
  PROVE  /\ BookInvariant(Replace(b, r, q, price, qty))
         /\ Rest(Replace(b, r, q, price, qty)) =
              With(Without(Rest(b), r), q,
                   [locate |-> Rest(b)[r].locate, side |-> Rest(b)[r].side,
                    price |-> price, qty |-> qty])
<1> DEFINE a == RemoveOrder(b, r)
           o == Rest(b)[r]
           n == [locate |-> o.locate, side |-> o.side, price |-> price, qty |-> qty]
<1>1. BookInvariant(a) /\ Here(a) = Here(b) \ {r} /\ Rest(a) = Without(Rest(b), r)
  BY RemoveFacts
<1>2. OrderAt(b, r) = o /\ o \in Kept /\ Here(b) \in SUBSET Refs
  BY HereFacts
<1>3. Replacement(o, price, qty) = n
  <2> HIDE DEF o
  <2>1. PICK locate, side, was, left :
          o = [locate |-> locate, side |-> side, price |-> was, qty |-> left]
    BY <1>2 DEF Kept
  <2>2. Replacement(o, price, qty) =
          [locate |-> locate, side |-> side, price |-> price, qty |-> qty]
    <3>1. [o EXCEPT !.price = price] =
            [locate |-> locate, side |-> side, price |-> price, qty |-> left]
      BY <2>1
    <3> DEFINE m == [o EXCEPT !.price = price]
    <3>2. Replacement(o, price, qty) = [m EXCEPT !.qty = qty]
      BY DEF Replacement
    <3> HIDE DEF m
    <3>3. m = [locate |-> locate, side |-> side, price |-> price, qty |-> left]
      BY <3>1 DEF m
    <3> QED BY <3>2, <3>3
  <2> QED BY <2>1, <2>2
<1>4. n \in Kept
  <2>1. o.locate \in Locates /\ o.side \in Side
    BY <1>2 DEF Kept
  <2>2. qty \in Nat \ {0}
    BY BookAssumption
  <2> QED BY <2>1, <2>2 DEF Kept
<1>5. Replace(b, r, q, price, qty) = PlaceOrder(a, q, n)
  BY <1>2, <1>3 DEF Replace
<1> HIDE DEF a, n
<1>6. q \in Refs \ Here(a)
  BY <1>1, <1>2
<1>7. BookInvariant(PlaceOrder(a, q, n)) /\ Rest(PlaceOrder(a, q, n)) = With(Rest(a), q, n)
  BY <1>1, <1>4, <1>6, PlaceFacts
<1> QED BY <1>1, <1>5, <1>7 DEF n

\* Every message leaves the book as it should be.
LEMMA BookSteps ==
  ASSUME ~ ReusesLive, BookInvariant(book), [BookNext]_book
  PROVE  BookInvariant(book')
<1>1. ASSUME NEW r \in Refs, NEW o \in Order, OnAdd(r, o)
      PROVE  BookInvariant(book')
  BY <1>1, AddFacts DEF OnAdd
<1>2. ASSUME NEW r \in Refs, NEW n \in Shares, OnTake(r, n)
      PROVE  BookInvariant(book')
  <2>1. r \in Here(book)
    BY <1>2 DEF OnTake, Here
  <2>2. n \in Nat
    BY BookAssumption
  <2>3. BookInvariant(Reduce(book, r, n))
    BY <2>1, <2>2, ReduceFacts
  <2> QED BY <1>2, <2>3 DEF OnTake
<1>3. ASSUME NEW r \in Refs, OnDelete(r)
      PROVE  BookInvariant(book')
  <2>1. r \in Here(book)
    BY <1>3 DEF OnDelete, Here
  <2> QED BY <1>3, <2>1, RemoveFacts DEF OnDelete
<1>4. ASSUME NEW r \in Refs, NEW q \in Refs, NEW price \in Prices, NEW qty \in Shares,
             OnReplace(r, q, price, qty)
      PROVE  BookInvariant(book')
  <2>1. r \in Here(book) /\ q \in (Refs \ Here(book)) \cup {r}
    BY <1>4 DEF OnReplace, Here
  <2>2. BookInvariant(Replace(book, r, q, price, qty))
    BY <2>1, ReplaceFacts
  <2> QED BY <1>4, <2>2 DEF OnReplace
<1>5. CASE UNCHANGED book
  BY <1>5
<1> QED BY <1>1, <1>2, <1>3, <1>4, <1>5 DEF BookNext

-----------------------------------------------------------------------------
(***************************************************************************)
(* The theorems.  A replace names a reference that is new, or the one it   *)
(* replaces: the run book_reuse shows what becomes of the book otherwise.  *)
(***************************************************************************)

\* The table is sound, the pool, the levels and the count agree with it.
THEOREM BookIsSound ==
  ASSUME ~ ReusesLive
  PROVE  BookSpec => []BookInvariant(book)
<1>1. BookInit => BookInvariant(book)
  BY InitialBook
<1>2. BookInvariant(book) /\ [BookNext]_book => BookInvariant(book)'
  BY BookSteps
<1> QED BY <1>1, <1>2, PTL DEF BookSpec

\* After any run of inserts, backward shifts and growths a probe finds every
\* reference and comes to an end, and the count that decides growth is right.
THEOREM ReferencesAreFound ==
  ASSUME ~ ReusesLive
  PROVE  BookSpec => []EveryReferenceIsFound
<1>1. BookInvariant(book) => EveryReferenceIsFound
  BY EveryReferenceInMap DEF BookInvariant, EveryReferenceIsFound
<1> QED BY <1>1, BookIsSound, PTL

\* Each level shows exactly the orders that rest at its price, and the total of
\* their shares; nothing in the pool is leaked.
THEOREM LevelsShowTheOrders ==
  ASSUME ~ ReusesLive
  PROVE  BookSpec => []LevelsAreTheOrders
<1>1. ASSUME BookInvariant(book)
      PROVE  LevelsAreTheOrders
  <2> DEFINE rest == Rest(book)
             lead == [r \in DOMAIN rest |-> Get(book.orders, r)]
             at(key) == {r \in DOMAIN rest : LevelOf(rest[r]) = key}
  <2>1. /\ DOMAIN rest = Here(book) /\ lead = Lead(book)
        /\ \A r \in Here(book) : /\ lead[r] \in Objects /\ rest[r] \in Kept
                                 /\ book.pool[lead[r]] = rest[r]
    BY <1>1, HereFacts DEF Lead
  <2>2. \A key \in LevelKey : book.levels[key] = Shown(lead, rest, key)
    BY <1>1, <2>1 DEF BookInvariant
  <2>3. \A key \in LevelKey :
          book.levels[key] =
            IF at(key) = {} THEN Absent
            ELSE [orders |-> {lead[r] : r \in at(key)},
                  total |-> SumFunctionOnSet([r \in DOMAIN rest |-> rest[r].qty], at(key))]
    BY <2>2 DEF Shown, AtLevel, Quantities
  <2>4. IsInjective(lead) /\ book.live_orders = Cardinality(DOMAIN rest)
    BY <1>1, <2>1 DEF BookInvariant, View
  <2>5. \A x \in Objects : book.pool[x] # Free => \E r \in DOMAIN rest : lead[r] = x
    BY <1>1, <2>1 DEF BookInvariant
  <2>6. {x \in Objects : book.pool[x] # Free} = {lead[r] : r \in DOMAIN rest}
    <3>1. \A r \in DOMAIN rest : lead[r] \in Objects /\ book.pool[lead[r]] # Free
      BY <1>1, <2>1, KeptFacts
    <3> HIDE DEF rest, lead
    <3> QED BY <2>5, <3>1
  <2> QED BY <2>3, <2>4, <2>6 DEF LevelsAreTheOrders
<1> QED BY <1>1, BookIsSound, PTL

\* In every state of the book, the first one too, each message adds, shrinks, moves or removes the one
\* order the feed says, and touches no other.
THEOREM MessagesAreExact ==
  ASSUME ~ ReusesLive
  PROVE  BookSpec => [](MessagesMeanWhatTheySay(book) /\ FeedIsObeyed)
<1>1. ASSUME BookInvariant(book)
      PROVE  MessagesMeanWhatTheySay(book) /\ FeedIsObeyed
  <2> DEFINE rest == Rest(book)
  <2>1. DOMAIN rest = Here(book)
    BY <1>1, HereFacts
  <2>2. ASSUME NEW r \in Refs, NEW o \in Order
        PROVE  Rest(Add(book, r, o)) = With(Without(rest, r), r, o)
    BY <1>1, AddFacts
  <2>3. ASSUME NEW r \in DOMAIN rest
        PROVE  Rest(RemoveOrder(book, r)) = Without(rest, r)
    BY <1>1, <2>1, RemoveFacts
  <2>4. ASSUME NEW r \in DOMAIN rest, NEW n \in Shares
        PROVE  Rest(Reduce(book, r, n)) =
                 IF n >= rest[r].qty THEN Without(rest, r) ELSE [rest EXCEPT ![r].qty = @ - n]
    <3>1. r \in Here(book) /\ n \in Nat
      BY BookAssumption, <2>1
    <3> QED BY <1>1, <3>1, ReduceFacts
  <2>5. ASSUME NEW r \in DOMAIN rest, NEW q \in (Refs \ DOMAIN rest) \cup {r},
               NEW price \in Prices, NEW qty \in Shares
        PROVE  Rest(Replace(book, r, q, price, qty)) =
                 With(Without(rest, r), q,
                      [locate |-> rest[r].locate, side |-> rest[r].side,
                       price |-> price, qty |-> qty])
    <3>1. r \in Here(book) /\ q \in (Refs \ Here(book)) \cup {r}
      BY <2>1
    <3> QED BY <1>1, <3>1, ReplaceFacts
  <2>6. MessagesMeanWhatTheySay(book)
    BY <2>2, <2>3, <2>4, <2>5 DEF MessagesMeanWhatTheySay
  <2> QED BY <2>6 DEF FeedIsObeyed
<1> QED BY <1>1, BookIsSound, PTL
=============================================================================
