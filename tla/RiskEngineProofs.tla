-------------------------- MODULE RiskEngineProofs --------------------------
(***************************************************************************)
(* The risk engine, for every number of slots, every hash, every set of    *)
(* symbols, sizes, prices and limits, and any answers of the exchange.     *)
(*                                                                         *)
(* The invariant says that the table is sound, that the tallies the checks *)
(* read are the weights of the table, that the best prices kept are bounds *)
(* of what works, and that less works than there are slots.  The rate      *)
(* limiter has an invariant of its own, at the end.                        *)
(***************************************************************************)
EXTENDS RiskEngine, RingLemmas

Symbol ==
  [position : Int, shares : [Side -> Nat], orders : [Side -> Nat],
   best : [Side -> Nat], enabled : BOOLEAN, halted : BOOLEAN]

\* What an entry counts for: as an order, as an order of one side of a symbol, by
\* the shares of it that work there.
One == [e \in Order \cup {Vacant} |-> IF e = Vacant THEN 0 ELSE 1]

OrdersOf(l, side) ==
  [e \in Order \cup {Vacant} |->
     IF e = Vacant \/ ~ (e.locate = l /\ e.side = side) THEN 0 ELSE 1]

SharesOf(l, side) ==
  [e \in Order \cup {Vacant} |->
     IF e = Vacant \/ ~ (e.locate = l /\ e.side = side) THEN 0 ELSE e.leaves]

\* A table of open orders, and what its entries may be counted by.
Table == [Slots -> Order \cup {Vacant}]
Counts == {v \in [Order \cup {Vacant} -> Nat] : v[Vacant] = 0}

\* The table as RingLemmas speaks of it.
Open == [size |-> Size, none |-> Vacant, keys |-> Tokens, home |-> Home,
         key |-> [e \in Order |-> e.token]]

TypeOK ==
  /\ slots \in Table
  /\ symbols \in [Locates -> Symbol]
  /\ open_orders \in Nat
  /\ limits \in AllLimits

\* The tallies are what the table weighs.
Tallied ==
  /\ open_orders = Weight(Open, slots, One)
  /\ \A l \in Locates, side \in Side :
       /\ symbols[l].orders[side] = Weight(Open, slots, OrdersOf(l, side))
       /\ symbols[l].shares[side] = Weight(Open, slots, SharesOf(l, side))

\* No order of ours is better than the best price kept for its side.
BestBounds ==
  \A i \in Occupied(slots) :
    /\ slots[i].side = "buy" => slots[i].price <= symbols[slots[i].locate].best["buy"]
    /\ slots[i].side = "sell" => symbols[slots[i].locate].best["sell"] <= slots[i].price

RInv ==
  /\ TypeOK
  /\ Sound(Open, slots)
  /\ Tallied
  /\ open_orders <= limits.open_orders
  /\ BestBounds
  /\ NoSelfCross
  /\ WorstCaseWithinLimit
  /\ kill_reason # "table_full"

-----------------------------------------------------------------------------
\* What the fields of an order in the table are.
LEMMA OrderFacts ==
  /\ Scheme(Open, Order)
  /\ Request \subseteq Order
  /\ \A e \in Order :
       /\ e # Vacant /\ e.token \in Tokens /\ e.locate \in Locates /\ e.side \in Side
       /\ e.leaves \in Nat /\ e.leaves > 0 /\ e.price \in Nat
<1>1. \A e \in Order : e # Vacant
  BY VacantAssumption
<1>2. ASSUME NEW e \in Order
      PROVE  /\ e.token \in Tokens /\ e.locate \in Locates /\ e.side \in Side
             /\ e.leaves \in Nat /\ e.leaves > 0 /\ e.price \in Nat
  <2>1. /\ e.token \in Tokens /\ e.locate \in Locates /\ e.side \in Side
        /\ e.leaves \in Nat \ {0} /\ e.price \in Prices
    BY DEF Order
  <2>2. Prices \subseteq Nat \ {0}
    BY RiskAssumption
  <2>3. PICK n \in Nat \ {0} : n = e.leaves
    BY <2>1
  <2>4. n > 0
    OBVIOUS
  <2>5. e.price \in Nat
    BY <2>1, <2>2
  <2> QED BY <2>1, <2>3, <2>4, <2>5
<1>3. Request \subseteq Order
  BY RiskAssumption DEF Request, Order
<1>4. Scheme(Open, Order)
  <2>1. \A e \in Order : Open.key[e] \in Open.keys
    BY <1>2 DEF Open
  <2>2. \A k \in Open.keys : Open.home[k] \in Places(Open)
    BY TableAssumption DEF Open, Places
  <2> QED BY <2>1, <2>2, VacantAssumption DEF Scheme, Open
<1> QED BY <1>1, <1>2, <1>3, <1>4

-----------------------------------------------------------------------------
(***************************************************************************)
(* The table of open orders is one of those of RingLemmas.                 *)
(***************************************************************************)
LEMMA TableFacts ==
  /\ Sized(Open) /\ Scheme(Open, Order)
  /\ Places(Open) = Slots /\ Open.none = Vacant /\ Open.size = Size
  /\ Tables(Open, Order) = Table /\ Measures(Open, Order) = Counts
  /\ \A t : Taken(Open, t) = Occupied(t)
<1>1. Places(Open) = Slots /\ Open.none = Vacant /\ Open.size = Size
  BY DEF Places, Slots, Open
<1>2. Sized(Open)
  BY <1>1, TableAssumption DEF Sized
<1>3. Tables(Open, Order) = Table /\ Measures(Open, Order) = Counts
  BY <1>1 DEF Tables, Table, Measures, Counts
<1>4. \A t : Taken(Open, t) = Occupied(t)
  BY <1>1 DEF Taken, Occupied
<1> QED BY <1>1, <1>2, <1>3, <1>4, OrderFacts

\* There are finitely many slots, and one of them is the first.
LEMMA OpenSlots == Size \in Nat /\ Size > 0 /\ IsFiniteSet(Slots) /\ 0 \in Slots
BY TableFacts, SlotFacts

\* The two ways to say where a probe ends are the same.
LEMMA ProbeIsProbe ==
  ASSUME NEW t \in Table, NEW k \in Tokens
  PROVE  Probe(t, k) = ProbeEnd(Open, t, k)
<1> DEFINE at(d) == (Home[k] + d) % Size
           S == {d \in Slots : t[at(d)] = Vacant \/ t[at(d)].token = k}
           U == {d \in Slots : t[at(d)] = Vacant \/ Open.key[t[at(d)]] = k}
<1>1. Home[k] \in Slots
  BY TableAssumption DEF Slots
<1>2. \A d \in Slots : at(d) \in Slots
  <2> HIDE DEF Slots
  <2>1. Open.size = Size
    BY TableFacts
  <2> QED BY <1>1, <2>1, TableFacts, StepFacts
<1> HIDE DEF at
<1>3. \A d \in Slots : t[at(d)] # Vacant => Open.key[t[at(d)]] = t[at(d)].token
  BY <1>2 DEF Table, Open
<1>4. S = U
  BY <1>3
<1>5. Probe(t, k) = at(Min(S))
  BY DEF Probe, at
<1>6. ProbeEnd(Open, t, k) = at(Min(U))
  BY TableFacts DEF ProbeEnd, at, Open
<1> QED BY <1>4, <1>5, <1>6

\* A probe of a sound table finds the order with the token, and nothing else.
LEMMA FindOpenFacts ==
  ASSUME NEW t \in Table, Sound(Open, t), \E j \in Slots : t[j] = Vacant
  PROVE  /\ \A j \in Occupied(t) : FindOpen(t, t[j].token) = j
         /\ \A k \in Tokens : FindOpen(t, k) # NoSlot =>
              FindOpen(t, k) \in Occupied(t) /\ t[FindOpen(t, k)].token = k
         /\ \A k \in Tokens : FindOpen(t, k) = NoSlot =>
              t[Probe(t, k)] = Vacant /\ \A j \in Occupied(t) : t[j].token # k
<1>1. \A j \in Slots : j # NoSlot
  BY OpenSlots DEF Slots, NoSlot
<1>2. \A j \in Occupied(t) : /\ j \in Slots /\ t[j] \in Order /\ t[j] # Vacant
                             /\ t[j].token \in Tokens /\ Open.key[t[j]] = t[j].token
  BY OrderFacts DEF Occupied, Table, Open
<1>3. \A k \in Tokens : Probe(t, k) = ProbeEnd(Open, t, k)
  BY ProbeIsProbe
<1>4. /\ \A j \in Occupied(t) : ProbeEnd(Open, t, Open.key[t[j]]) = j
      /\ \A k \in Tokens : t[ProbeEnd(Open, t, k)] # Vacant =>
           /\ ProbeEnd(Open, t, k) \in Occupied(t)
           /\ Open.key[t[ProbeEnd(Open, t, k)]] = k
      /\ \A k \in Tokens : t[ProbeEnd(Open, t, k)] = Vacant =>
           \A j \in Occupied(t) : Open.key[t[j]] # k
  <2>1. Open.keys = Tokens
    BY DEF Open
  <2> QED BY <2>1, TableFacts, FindFacts
<1>5. \A j \in Occupied(t) : FindOpen(t, t[j].token) = j
  BY <1>2, <1>3, <1>4 DEF FindOpen
<1>6. \A k \in Tokens : FindOpen(t, k) # NoSlot =>
        FindOpen(t, k) \in Occupied(t) /\ t[FindOpen(t, k)].token = k
  BY <1>2, <1>3, <1>4 DEF FindOpen
<1>7. ASSUME NEW k \in Tokens, FindOpen(t, k) = NoSlot
      PROVE  t[Probe(t, k)] = Vacant /\ \A j \in Occupied(t) : t[j].token # k
  <2>1. t[Probe(t, k)] = Vacant
    <3> SUFFICES ASSUME t[Probe(t, k)] # Vacant PROVE FALSE
      OBVIOUS
    <3>1. Probe(t, k) \in Slots
      BY <1>2, <1>3, <1>4
    <3> QED BY <1>1, <1>7, <3>1 DEF FindOpen
  <2> QED BY <1>2, <1>3, <1>4, <2>1
<1> QED BY <1>5, <1>6, <1>7

\* An order that goes where its probe ends leaves the table sound.
LEMMA InsertOpenFacts ==
  ASSUME NEW t \in Table, Sound(Open, t), \E j \in Slots : t[j] = Vacant,
         NEW e \in Order, FindOpen(t, e.token) = NoSlot
  PROVE  /\ SlotFor(t, e.token) \in Slots /\ SlotFor(t, e.token) # NoSlot
         /\ t[SlotFor(t, e.token)] = Vacant
         /\ [t EXCEPT ![SlotFor(t, e.token)] = e] \in Table
         /\ Sound(Open, [t EXCEPT ![SlotFor(t, e.token)] = e])
<1> DEFINE p == Probe(t, e.token)
<1>1. e.token \in Tokens /\ Open.key[e] = e.token
  BY OrderFacts DEF Open
<1>2. t[p] = Vacant
  BY <1>1, FindOpenFacts
<1>3. SlotFor(t, e.token) = p
  BY DEF SlotFor, Occupied
<1>4. p = ProbeEnd(Open, t, Open.key[e])
  BY <1>1, ProbeIsProbe
<1> HIDE DEF p
<1>5. /\ p \in Slots /\ [t EXCEPT ![p] = e] \in Table
      /\ Sound(Open, [t EXCEPT ![p] = e])
  BY <1>2, <1>4, TableFacts, InsertFacts
<1>6. p # NoSlot
  BY <1>5, OpenSlots DEF Slots, NoSlot
<1> QED BY <1>2, <1>3, <1>5, <1>6

\* An order that keeps its token leaves the table sound.
LEMMA ChangeOpenFacts ==
  ASSUME NEW t \in Table, Sound(Open, t), NEW j \in Occupied(t),
         NEW changed \in Table, changed[j] # Vacant, changed[j].token = t[j].token,
         \A x \in Slots : x # j => changed[x] = t[x]
  PROVE  Sound(Open, changed)
<1>1. Open.key[changed[j]] = Open.key[t[j]]
  BY DEF Occupied, Table, Open
<1> QED BY <1>1, TableFacts, ChangeFacts

\* A slot changes: the tallies change by the difference.
LEMMA TallyOfChange ==
  ASSUME NEW t \in Table, NEW v \in Counts,
         NEW j \in Slots, NEW e \in Order \cup {Vacant}
  PROVE  /\ Weight(Open, [t EXCEPT ![j] = e], v) + v[t[j]] = Weight(Open, t, v) + v[e]
         /\ Weight(Open, t, v) \in Nat /\ Weight(Open, [t EXCEPT ![j] = e], v) \in Nat
         /\ v[t[j]] <= Weight(Open, t, v)
BY TableFacts, WeightOfChange

\* An order comes to a vacant slot: the tallies are more by what it counts for.
LEMMA TallyOfFilling ==
  ASSUME NEW t \in Table, NEW v \in Counts,
         NEW j \in Slots, t[j] = Vacant, NEW e \in Order,
         NEW filled \in Table, filled[j] = e, \A x \in Slots : x # j => filled[x] = t[x]
  PROVE  Weight(Open, filled, v) = Weight(Open, t, v) + v[e]
BY TableFacts, WeightOfFilling

\* What is not counted may be left out of the tally.
LEMMA TallyOfSome ==
  ASSUME NEW t \in Table, NEW v \in Counts, NEW W \in SUBSET Slots,
         \A j \in Slots \ W : v[t[j]] = 0
  PROVE  /\ Weight(Open, t, v) \in Nat
         /\ \A f : (\A j \in W : f[j] = v[t[j]]) =>
              Weight(Open, t, v) = SumFunctionOnSet(f, W)
         /\ (\A j \in W : v[t[j]] = 1) => Weight(Open, t, v) = Cardinality(W)
<1>1. /\ Sized(Open) /\ t \in Tables(Open, Order) /\ v \in Measures(Open, Order)
      /\ W \in SUBSET Places(Open) /\ \A j \in Places(Open) \ W : v[t[j]] = 0
  BY TableFacts
<1>2. Weight(Open, t, v) \in Nat
  BY <1>1, WeightOfSome
<1>3. \A f : (\A j \in W : f[j] = v[t[j]]) => Weight(Open, t, v) = SumFunctionOnSet(f, W)
  BY <1>1, WeightOfSome
<1>4. (\A j \in W : v[t[j]] = 1) => Weight(Open, t, v) = Cardinality(W)
  BY <1>1, WeightOfSome
<1> QED BY <1>2, <1>3, <1>4

\* A tally is zero when none of the orders counts, and only then.
LEMMA TallyOfNothing ==
  ASSUME NEW t \in Table, NEW v \in Counts
  PROVE  Weight(Open, t, v) = 0 <=> \A j \in Slots : v[t[j]] = 0
BY TableFacts, WeightOfNothing

\* The walk of erase_at.
EraseWalk(t, i, n, w) ==
  w = [d \in 0 .. n |->
         IF d = 0 THEN [hole |-> i, table |-> [t EXCEPT ![i] = Vacant]]
                  ELSE Fall(w[d - 1], (i + d) % Size)]

\* There is such a walk.
LEMMA EraseWalkExists ==
  ASSUME NEW t \in Table, NEW i \in Slots, NEW n \in Nat
  PROVE  \E w : EraseWalk(t, i, n, w)
<1> DEFINE S == [hole : Slots, table : Table]
           a == [hole |-> i, table |-> [t EXCEPT ![i] = Vacant]]
           at(d) == (i + d) % Size
           F == [d \in 1 .. n |-> [s \in S |-> Fall(s, at(d))]]
<1>1. a \in S
  BY DEF Table
<1>2. \A d \in Nat : at(d) \in Slots
  <2>1. Size \in Nat \ {0} /\ i \in Nat
    BY OpenSlots DEF Slots
  <2> QED BY <2>1, Division DEF Slots
<1> HIDE DEF at
<1>3. ASSUME NEW d \in 1 .. n, NEW s \in S
      PROVE  Fall(s, at(d)) \in S
  <2>1. at(d) \in Slots /\ s.hole \in Slots /\ s.table \in [Slots -> Order \cup {Vacant}]
    BY <1>2 DEF Table
  <2>2. s.table[at(d)] \in Order \cup {Vacant}
    BY <2>1
  <2>3. [s.table EXCEPT ![s.hole] = s.table[at(d)], ![at(d)] = Vacant] \in Table
    BY <2>1, <2>2 DEF Table
  <2> QED BY <1>3, <2>1, <2>3 DEF Fall
<1> HIDE DEF S, a
<1>4. F \in [1 .. n -> [S -> S]]
  BY <1>3
<1>5. \A d \in 1 .. n, s \in S : F[d][s] = Fall(s, at(d))
  OBVIOUS
<1> HIDE DEF F
<1>r. PICK w : Follows(w, S, a, n, F)
  BY <1>1, <1>4, Recursion
<1>6. w \in [0 .. n -> S] /\ w[0] = a /\ \A d \in 1 .. n : w[d] = F[d][w[d - 1]]
  BY <1>r DEF Follows
<1>7. ASSUME NEW d \in 0 .. n
      PROVE  w[d] = IF d = 0 THEN a ELSE Fall(w[d - 1], at(d))
  <2>1. CASE d = 0
    BY <1>6, <2>1
  <2>2. CASE d # 0
    <3>1. d \in 1 .. n /\ d - 1 \in 0 .. n
      BY <2>2
    <3> QED BY <1>5, <1>6, <2>2, <3>1
  <2> QED BY <2>1, <2>2
<1>8. w = [d \in 0 .. n |-> IF d = 0 THEN a ELSE Fall(w[d - 1], at(d))]
  BY <1>6, <1>7
<1>9. EraseWalk(t, i, n, w)
  BY <1>8 DEF EraseWalk, a, at
<1> QED BY <1>9

\* erase_at leaves a sound table that holds what the table held but for the order
\* that was erased.
LEMMA EraseAtFacts ==
  ASSUME NEW t \in Table, Sound(Open, t), NEW i \in Occupied(t),
         \E j \in Slots : t[j] = Vacant
  PROVE  /\ EraseAt(t, i) \in Table /\ Sound(Open, EraseAt(t, i))
         /\ \E j \in Slots : EraseAt(t, i)[j] = Vacant
         /\ \A j \in Occupied(EraseAt(t, i)) :
              \E k \in Occupied(t) : k # i /\ EraseAt(t, i)[j] = t[k]
         /\ \A v \in Counts : Weight(Open, EraseAt(t, i), v) + v[t[i]] = Weight(Open, t, v)
<1> DEFINE S == {d \in 1 .. Size - 1 : t[(i + d) % Size] = Vacant} \cup {Size}
           r == Min(S)
           u == EraseAt(t, i)
           w == CHOOSE z : EraseWalk(t, i, r - 1, z)
<1>1. i \in Slots /\ Size \in Nat /\ Size > 0
  BY OpenSlots DEF Occupied
<1>2. u = w[r - 1].table
  BY DEF EraseAt, EraseWalk
<1>3. r \in Slots /\ 0 < r /\ Cluster(Open, t, i, r)
  <2>1. S \in SUBSET Nat
    BY <1>1
  <2>2. \A d \in S : d > 0 /\ (d < Size => t[(i + d) % Size] = Vacant)
    BY <1>1
  <2>3. \A d \in 1 .. Size - 1 : t[(i + d) % Size] = Vacant => d \in S
    OBVIOUS
  <2> HIDE DEF S
  <2> QED BY <2>1, <2>2, <2>3, TableFacts, ClusterFacts
<1> HIDE DEF r, S
<1>4. EraseWalk(t, i, r - 1, w)
  <2>1. r - 1 \in Nat
    BY <1>1, <1>3 DEF Slots
  <2>2. \E z : EraseWalk(t, i, r - 1, z)
    BY <1>1, <2>1, EraseWalkExists
  <2> QED BY <2>2
<1> HIDE DEF w, u
<1>5. r \in Nat
  BY <1>1, <1>3 DEF Slots
<1>6. w[0] = Vacated(Open, t, i)
  <2>1. w[0] = [hole |-> i, table |-> [t EXCEPT ![i] = Vacant]]
    BY <1>3, <1>4, <1>5 DEF EraseWalk
  <2> QED BY <2>1, TableFacts DEF Vacated
<1>7. ASSUME NEW d \in 1 .. r - 1, NEW j, j = (i + d) % Size,
             w[d - 1].table \in Table, j \in Occupied(w[d - 1].table)
      PROVE  w[d] = Tumble(Open, w[d - 1], j)
  <2>1. w[d] = Fall(w[d - 1], j)
    <3>1. d \in 0 .. r - 1 /\ d # 0
      BY <1>5, <1>7
    <3> QED BY <1>4, <1>7, <3>1 DEF EraseWalk
  <2>2. PICK was : was = w[d - 1]
    OBVIOUS
  <2>3. was.table[j] \in Order
    BY <1>7, <2>2 DEF Occupied, Table
  <2>4. Open.home[Open.key[was.table[j]]] = Home[was.table[j].token]
    BY <2>3 DEF Open
  <2>5. Fall(was, j) = Tumble(Open, was, j)
    BY <2>4, TableFacts DEF Fall, Tumble, Movable, MayFall
  <2> QED BY <2>1, <2>2, <2>5
<1>8. Walk(Open, Order, t, i, r, w)
  BY <1>6, <1>7, TableFacts DEF Walk
<1>9. /\ u \in Table /\ Sound(Open, u)
      /\ \E j \in Slots : u[j] = Vacant
      /\ \A j \in Occupied(u) : \E k \in Occupied(t) : k # i /\ u[j] = t[k]
      /\ \A v \in Counts : Weight(Open, u, v) + v[t[i]] = Weight(Open, t, v)
  BY <1>2, <1>3, <1>8, TableFacts, EraseFacts
<1> QED BY <1>9 DEF u

\* "No probe chain is ever broken": after erase_at the token that was erased is not
\* found, and every other one is, with its own order.
THEOREM EraseKeepsTheRest ==
  ASSUME NEW t \in Table, Sound(Open, t), NEW i \in Occupied(t),
         \E j \in Slots : t[j] = Vacant
  PROVE  /\ FindOpen(EraseAt(t, i), t[i].token) = NoSlot
         /\ \A k \in Occupied(t) \ {i} :
              /\ FindOpen(EraseAt(t, i), t[k].token) # NoSlot
              /\ EraseAt(t, i)[FindOpen(EraseAt(t, i), t[k].token)] = t[k]
<1> DEFINE u == EraseAt(t, i)
<1>1. /\ u \in Table /\ Sound(Open, u) /\ \E j \in Slots : u[j] = Vacant
      /\ \A j \in Occupied(u) : \E k \in Occupied(t) : k # i /\ u[j] = t[k]
      /\ \A v \in Counts : Weight(Open, u, v) + v[t[i]] = Weight(Open, t, v)
  BY EraseAtFacts
<1> HIDE DEF u
<1>2. \A k \in Occupied(t) : /\ k \in Slots /\ t[k] \in Order /\ t[k].token \in Tokens
                             /\ Open.key[t[k]] = t[k].token
  BY OrderFacts DEF Occupied, Table, Open
<1>3. FindOpen(u, t[i].token) = NoSlot
  <2> SUFFICES ASSUME FindOpen(u, t[i].token) # NoSlot PROVE FALSE
    OBVIOUS
  <2>1. PICK j \in Occupied(u) : u[j].token = t[i].token
    BY <1>1, <1>2, FindOpenFacts
  <2>2. PICK k \in Occupied(t) : k # i /\ u[j] = t[k]
    BY <1>1
  <2>3. Open.key[t[k]] = Open.key[t[i]]
    BY <1>2, <2>1, <2>2
  <2> QED BY <2>2, <2>3, TableFacts DEF Sound, Distinct
<1>4. ASSUME NEW k \in Occupied(t), k # i
      PROVE  FindOpen(u, t[k].token) # NoSlot /\ u[FindOpen(u, t[k].token)] = t[k]
  <2>1. PICK j \in Occupied(u) : u[j] = t[k]
    BY <1>1, <1>4, TableFacts, RestIsKept
  <2>2. FindOpen(u, u[j].token) = j
    BY <1>1, FindOpenFacts
  <2>3. j # NoSlot
    BY OpenSlots DEF Occupied, Slots, NoSlot
  <2> QED BY <2>1, <2>2, <2>3
<1> QED BY <1>3, <1>4 DEF u

-----------------------------------------------------------------------------
\* What the three measures say of an entry.
LEMMA MeasureFacts ==
  /\ One \in Counts /\ One[Vacant] = 0 /\ \A e \in Order : One[e] = 1
  /\ \A l, side :
       /\ OrdersOf(l, side) \in Counts /\ OrdersOf(l, side)[Vacant] = 0
       /\ SharesOf(l, side) \in Counts /\ SharesOf(l, side)[Vacant] = 0
       /\ \A e \in Order :
            /\ e.locate = l /\ e.side = side =>
                 OrdersOf(l, side)[e] = 1 /\ SharesOf(l, side)[e] = e.leaves
            /\ ~ (e.locate = l /\ e.side = side) =>
                 OrdersOf(l, side)[e] = 0 /\ SharesOf(l, side)[e] = 0
<1>1. One \in Counts /\ One[Vacant] = 0 /\ \A e \in Order : One[e] = 1
  BY OrderFacts DEF One, Counts
<1>2. ASSUME NEW l, NEW side
      PROVE  /\ OrdersOf(l, side) \in Counts /\ OrdersOf(l, side)[Vacant] = 0
             /\ \A e \in Order :
                  /\ e.locate = l /\ e.side = side => OrdersOf(l, side)[e] = 1
                  /\ ~ (e.locate = l /\ e.side = side) => OrdersOf(l, side)[e] = 0
  BY OrderFacts DEF OrdersOf, Counts
<1>3. ASSUME NEW l, NEW side
      PROVE  /\ SharesOf(l, side) \in Counts /\ SharesOf(l, side)[Vacant] = 0
             /\ \A e \in Order :
                  /\ e.locate = l /\ e.side = side => SharesOf(l, side)[e] = e.leaves
                  /\ ~ (e.locate = l /\ e.side = side) => SharesOf(l, side)[e] = 0
  BY OrderFacts DEF SharesOf, Counts
<1> QED BY <1>1, <1>2, <1>3

\* The weight of one each is how many there are; less than Size leaves a slot.
LEMMA VacancyFacts ==
  ASSUME NEW t \in Table
  PROVE  /\ Weight(Open, t, One) \in Nat
         /\ Weight(Open, t, One) = Cardinality(Occupied(t))
         /\ Weight(Open, t, One) < Size => \E j \in Slots : t[j] = Vacant
<1> DEFINE W == Occupied(t)
<1>1. W \in SUBSET Slots /\ \A j \in Slots : t[j] \in Order \/ t[j] = Vacant
  BY DEF Occupied, Table
<1>2. \A j \in Slots \ W : One[t[j]] = 0
  BY MeasureFacts DEF Occupied
<1>3. \A j \in W : One[t[j]] = 1
  BY <1>1, MeasureFacts DEF Occupied
<1>4. Weight(Open, t, One) = Cardinality(W) /\ Weight(Open, t, One) \in Nat
  BY <1>1, <1>2, <1>3, MeasureFacts, TallyOfSome
<1>5. ASSUME \A j \in Slots : t[j] # Vacant
      PROVE  Cardinality(W) = Size
  <2>1. W = 0 .. Size - 1
    BY <1>5 DEF Occupied, Slots
  <2>2. Cardinality(0 .. Size - 1) = Size
    BY OpenSlots, FS_Interval
  <2> QED BY <2>1, <2>2
<1> QED BY <1>4, <1>5, OpenSlots

\* The weight of one side of a symbol counts the orders of it; with none, no
\* shares work.
LEMMA TallyFacts ==
  ASSUME NEW t \in Table, NEW l, NEW side
  PROVE  /\ Weight(Open, t, OrdersOf(l, side)) \in Nat /\ Weight(Open, t, SharesOf(l, side)) \in Nat
         /\ Weight(Open, t, OrdersOf(l, side)) = 0 =>
              /\ Weight(Open, t, SharesOf(l, side)) = 0
              /\ \A j \in Occupied(t) : ~ (t[j].locate = l /\ t[j].side = side)
         /\ Weight(Open, t, One) = 0 => Weight(Open, t, OrdersOf(l, side)) = 0
<1> DEFINE v == OrdersOf(l, side)
           m == SharesOf(l, side)
<1>1. v \in Counts /\ m \in Counts /\ One \in Counts
  BY MeasureFacts
<1>2. \A j \in Slots : t[j] \in Order \/ t[j] = Vacant
  BY DEF Table
<1>3. Weight(Open, t, v) \in Nat /\ Weight(Open, t, m) \in Nat
  BY <1>1, TallyOfSome
<1>4. ASSUME Weight(Open, t, v) = 0
      PROVE  /\ Weight(Open, t, m) = 0
             /\ \A j \in Occupied(t) : ~ (t[j].locate = l /\ t[j].side = side)
  <2>1. \A j \in Slots : v[t[j]] = 0
    BY <1>1, <1>4, TallyOfNothing
  <2>2. \A j \in Occupied(t) : ~ (t[j].locate = l /\ t[j].side = side)
    BY <1>2, <2>1, MeasureFacts DEF Occupied
  <2>3. \A j \in Slots : m[t[j]] = 0
    BY <1>2, <2>2, MeasureFacts DEF Occupied
  <2> QED BY <1>1, <2>2, <2>3, TallyOfNothing
<1>5. ASSUME Weight(Open, t, One) = 0
      PROVE  Weight(Open, t, v) = 0
  <2>1. \A j \in Slots : One[t[j]] = 0
    BY <1>1, <1>5, TallyOfNothing
  <2>2. \A j \in Slots : t[j] = Vacant
    BY <1>2, <2>1, MeasureFacts
  <2>3. \A j \in Slots : v[t[j]] = 0
    BY <2>2, MeasureFacts
  <2> QED BY <1>1, <2>3, TallyOfNothing
<1> QED BY <1>3, <1>4, <1>5

\* The empty table is sound and weighs nothing.
LEMMA EmptyFacts ==
  /\ EmptyTable \in Table /\ Sound(Open, EmptyTable) /\ Occupied(EmptyTable) = {}
  /\ Weight(Open, EmptyTable, One) = 0
  /\ \A l, side : /\ Weight(Open, EmptyTable, OrdersOf(l, side)) = 0
                  /\ Weight(Open, EmptyTable, SharesOf(l, side)) = 0
<1>1. EmptyTable \in Table /\ \A j \in Slots : EmptyTable[j] = Vacant
  BY DEF EmptyTable, Table
<1>2. Occupied(EmptyTable) = {}
  BY <1>1 DEF Occupied
<1>3. Sound(Open, EmptyTable)
  <2>1. Taken(Open, EmptyTable) = {}
    BY <1>2, TableFacts
  <2> QED BY <2>1 DEF Sound, Chained, Distinct
<1>4. \A j \in Slots : One[EmptyTable[j]] = 0
  BY <1>1, MeasureFacts
<1>5. Weight(Open, EmptyTable, One) = 0
  BY <1>1, <1>4, MeasureFacts, TallyOfNothing
<1>6. \A l, side : Weight(Open, EmptyTable, OrdersOf(l, side)) = 0
  BY <1>1, <1>5, TallyFacts
<1> QED BY <1>1, <1>2, <1>3, <1>5, <1>6, TallyFacts

-----------------------------------------------------------------------------
\* The invariant holds of the engine as it is built.
LEMMA InitHolds == ASSUME Init PROVE RInv
<1>1. /\ slots = EmptyTable /\ open_orders = 0 /\ kill_reason = "none"
      /\ limits \in AllLimits
      /\ symbols \in [Locates -> {Flat(p) : p \in StartPositions}]
  BY DEF Init
<1>2. \A p \in StartPositions : Flat(p) \in Symbol
  BY RiskAssumption DEF Flat, Symbol
<1>3. \A l \in Locates : \E p \in StartPositions : symbols[l] = Flat(p)
  BY <1>1
<1>4. symbols \in [Locates -> Symbol]
  BY <1>1, <1>2, <1>3
<1>5. \A l \in Locates, side \in Side :
        symbols[l].orders[side] = 0 /\ symbols[l].shares[side] = 0
  <2> TAKE l \in Locates, side \in Side
  <2>1. PICK p \in StartPositions : symbols[l] = Flat(p)
    BY <1>3
  <2>2. Flat(p).orders = [x \in Side |-> 0] /\ Flat(p).shares = [x \in Side |-> 0]
    BY DEF Flat
  <2> QED BY <2>1, <2>2
<1>6. TypeOK /\ Tallied
  BY <1>1, <1>4, <1>5, EmptyFacts DEF TypeOK, Tallied
<1>7. open_orders <= limits.open_orders
  BY <1>1, RiskAssumption
<1>8. BestBounds /\ NoSelfCross
  BY <1>1, EmptyFacts DEF BestBounds, NoSelfCross
<1>9. WorstCaseWithinLimit
  <2>1. \A l \in Locates, side \in Side : ~ symbols[l].orders[side] > 0
    BY <1>5
  <2> QED BY <2>1 DEF WorstCaseWithinLimit
<1> QED BY <1>1, <1>6, <1>7, <1>8, <1>9, EmptyFacts DEF RInv

\* What the invariant says of the table and of the symbols.
LEMMA StateFacts ==
  ASSUME RInv
  PROVE  /\ slots \in Table /\ Sound(Open, slots) /\ \E j \in Slots : slots[j] = Vacant
         /\ \A j \in Occupied(slots) : j \in Slots /\ slots[j] \in Order
         /\ open_orders \in Nat /\ open_orders = Weight(Open, slots, One)
         /\ limits.position \in Int /\ limits.open_orders \in Nat
         /\ \A l \in Locates :
              /\ symbols[l] \in Symbol /\ symbols[l].position \in Int
              /\ \A side \in Side :
                   /\ symbols[l].shares[side] \in Nat /\ symbols[l].orders[side] \in Nat
                   /\ symbols[l].best[side] \in Nat
<1>1. slots \in Table /\ Sound(Open, slots) /\ open_orders \in Nat
  BY DEF RInv, TypeOK
<1>2. limits \in AllLimits /\ open_orders = Weight(Open, slots, One)
  BY DEF RInv, TypeOK, Tallied
<1>3. limits.position \in Int /\ limits.open_orders \in Nat /\ limits.open_orders < Size
  BY <1>2, RiskAssumption
<1>4. Weight(Open, slots, One) < Size
  BY <1>1, <1>2, <1>3, OpenSlots DEF RInv
<1>5. \E j \in Slots : slots[j] = Vacant
  BY <1>1, <1>4, VacancyFacts
<1>6. \A j \in Occupied(slots) : j \in Slots /\ slots[j] \in Order
  BY <1>1 DEF Occupied, Table
<1>7. symbols \in [Locates -> Symbol]
  BY DEF RInv, TypeOK
<1>8. ASSUME NEW l \in Locates
      PROVE  /\ symbols[l] \in Symbol /\ symbols[l].position \in Int
             /\ \A side \in Side :
                  /\ symbols[l].shares[side] \in Nat /\ symbols[l].orders[side] \in Nat
                  /\ symbols[l].best[side] \in Nat
  BY <1>7 DEF Symbol
<1> QED BY <1>1, <1>2, <1>3, <1>5, <1>6, <1>8

\* An order that passed the checks goes to a slot, and is counted.
LEMMA SendFacts ==
  ASSUME RInv, NEW r \in Request, SendOrder(r)
  PROVE  /\ Check(r) /\ r \in Order
         /\ \E slot \in Slots :
              /\ slots[slot] = Vacant
              /\ slots' = [slots EXCEPT ![slot] = r]
              /\ slots' \in Table /\ Sound(Open, slots')
         /\ symbols' = [symbols EXCEPT ![r.locate] = [symbols[r.locate] EXCEPT
              !.shares[r.side] = @ + r.leaves,
              !.orders[r.side] = @ + 1,
              !.best[r.side] =
                IF symbols[r.locate].orders[r.side] = 0 \/ MoreAggressive(r.side, r.price, @)
                  THEN r.price ELSE @]]
         /\ open_orders' = open_orders + 1 /\ kill_reason' = kill_reason /\ limits' = limits
<1> DEFINE slot == SlotFor(slots, r.token)
<1>1. Check(r) /\ FindOpen(slots, r.token) = NoSlot
  BY DEF SendOrder, Check
<1>2. r \in Order
  BY OrderFacts
<1>3. /\ slot \in Slots /\ slot # NoSlot /\ slots[slot] = Vacant
      /\ [slots EXCEPT ![slot] = r] \in Table /\ Sound(Open, [slots EXCEPT ![slot] = r])
  BY <1>1, <1>2, StateFacts, OrderFacts, InsertOpenFacts
<1>4. slots' = [slots EXCEPT ![slot] = r]
  BY <1>3 DEF SendOrder
<1>5. /\ symbols' = [symbols EXCEPT ![r.locate] = [symbols[r.locate] EXCEPT
              !.shares[r.side] = @ + r.leaves,
              !.orders[r.side] = @ + 1,
              !.best[r.side] =
                IF symbols[r.locate].orders[r.side] = 0 \/ MoreAggressive(r.side, r.price, @)
                  THEN r.price ELSE @]]
  BY <1>3, Zenon DEF SendOrder
<1>6. open_orders' = open_orders + 1 /\ kill_reason' = kill_reason /\ limits' = limits
  BY <1>3 DEF SendOrder
<1> QED BY <1>1, <1>2, <1>3, <1>4, <1>5, <1>6

\* r is an order of that side of l.
OfSide(r, l, side) == l = r.locate /\ side = r.side

\* What an order sent does to every symbol.
LEMMA SendSymbols ==
  ASSUME RInv, NEW r \in Request, SendOrder(r)
  PROVE  /\ symbols' \in [Locates -> Symbol]
         /\ \A l \in Locates :
              /\ symbols'[l].position = symbols[l].position
              /\ \A side \in Side :
                   /\ symbols'[l].shares[side] =
                        IF OfSide(r, l, side) THEN symbols[l].shares[side] + r.leaves
                                              ELSE symbols[l].shares[side]
                   /\ symbols'[l].orders[side] =
                        IF OfSide(r, l, side) THEN symbols[l].orders[side] + 1
                                              ELSE symbols[l].orders[side]
                   /\ symbols'[l].best[side] =
                        IF OfSide(r, l, side)
                             /\ (symbols[l].orders[side] = 0
                                   \/ MoreAggressive(side, r.price, symbols[l].best[side]))
                          THEN r.price ELSE symbols[l].best[side]
<1> DEFINE s == symbols[r.locate]
           p == IF s.orders[r.side] = 0 \/ MoreAggressive(r.side, r.price, s.best[r.side])
                  THEN r.price ELSE s.best[r.side]
           z == [s EXCEPT !.shares[r.side] = @ + r.leaves,
                          !.orders[r.side] = @ + 1,
                          !.best[r.side] = p]
<1>1. /\ r.locate \in Locates /\ r.side \in Side /\ r.leaves \in Nat /\ r.price \in Nat
      /\ symbols \in [Locates -> Symbol] /\ s \in Symbol
  BY SendFacts, OrderFacts, StateFacts DEF RInv, TypeOK
<1>2. symbols' = [symbols EXCEPT ![r.locate] = z]
  BY SendFacts, Zenon
<1>3. /\ s.shares[r.side] \in Nat /\ s.orders[r.side] \in Nat /\ s.best[r.side] \in Nat
  BY <1>1, StateFacts
<1>4. p \in Nat
  BY <1>1, <1>3
<1> HIDE DEF p
<1>5. z = [s EXCEPT !.shares = [s.shares EXCEPT ![r.side] = s.shares[r.side] + r.leaves],
                    !.orders = [s.orders EXCEPT ![r.side] = s.orders[r.side] + 1],
                    !.best = [s.best EXCEPT ![r.side] = p]]
  BY <1>1 DEF Symbol
<1>6. z \in Symbol
  <2>1. s.shares[r.side] + r.leaves \in Nat /\ s.orders[r.side] + 1 \in Nat
    BY <1>1, <1>3
  <2> HIDE DEF s
  <2> QED BY <1>1, <1>4, <1>5, <2>1 DEF Symbol
<1>7. z.position = s.position
  BY <1>1, <1>5 DEF Symbol
<1>8. ASSUME NEW side \in Side
      PROVE  /\ z.shares[side] = IF side = r.side THEN s.shares[side] + r.leaves ELSE s.shares[side]
             /\ z.orders[side] = IF side = r.side THEN s.orders[side] + 1 ELSE s.orders[side]
             /\ z.best[side] = IF side = r.side THEN p ELSE s.best[side]
  <2> HIDE DEF s
  <2> QED BY <1>1, <1>5 DEF Symbol
<1> HIDE DEF z
<1>9. symbols' \in [Locates -> Symbol]
  BY <1>1, <1>2, <1>6
<1>10. symbols'[r.locate] = z /\ \A l \in Locates : l # r.locate => symbols'[l] = symbols[l]
  BY <1>1, <1>2
<1>11. ASSUME NEW l \in Locates
       PROVE  /\ symbols'[l].position = symbols[l].position
              /\ \A side \in Side :
                   /\ symbols'[l].shares[side] =
                        IF OfSide(r, l, side) THEN symbols[l].shares[side] + r.leaves
                                              ELSE symbols[l].shares[side]
                   /\ symbols'[l].orders[side] =
                        IF OfSide(r, l, side) THEN symbols[l].orders[side] + 1
                                              ELSE symbols[l].orders[side]
                   /\ symbols'[l].best[side] =
                        IF OfSide(r, l, side)
                             /\ (symbols[l].orders[side] = 0
                                   \/ MoreAggressive(side, r.price, symbols[l].best[side]))
                          THEN r.price ELSE symbols[l].best[side]
  <2>1. CASE l # r.locate
    BY <1>10, <2>1 DEF OfSide
  <2>2. CASE l = r.locate
    BY <1>7, <1>8, <1>10, <2>2 DEF OfSide, p
  <2> QED BY <2>1, <2>2
<1> QED BY <1>9, <1>11, SMTT(30)

\* An order that works is one of its side: the side has some.
LEMMA SideHasOrders ==
  ASSUME RInv, NEW i \in Occupied(slots), NEW l \in Locates, NEW side \in Side,
         slots[i].locate = l, slots[i].side = side
  PROVE  symbols[l].orders[side] > 0
<1>1. symbols[l].orders[side] = Weight(Open, slots, OrdersOf(l, side)) /\ symbols[l].orders[side] \in Nat
  BY StateFacts DEF RInv, Tallied
<1>2. Weight(Open, slots, OrdersOf(l, side)) # 0
  BY StateFacts, TallyFacts
<1> QED BY <1>1, <1>2

\* An order that passed the checks keeps the invariant.
LEMMA SendKeeps ==
  ASSUME RInv, NEW r \in Request, SendOrder(r)
  PROVE  RInv'
<1>1. PICK slot \in Slots :
        /\ slots[slot] = Vacant /\ slots' = [slots EXCEPT ![slot] = r]
        /\ slots' \in Table /\ Sound(Open, slots')
  BY SendFacts
<1>2. /\ Check(r) /\ r \in Order
      /\ open_orders' = open_orders + 1 /\ kill_reason' = kill_reason /\ limits' = limits
  BY SendFacts
<1>3. /\ r.locate \in Locates /\ r.side \in Side /\ r.leaves \in Nat /\ r.price \in Nat
      /\ r # Vacant /\ slots \in Table
  BY <1>2, OrderFacts, StateFacts
<1>4. TypeOK'
  BY <1>1, <1>2, StateFacts, SendSymbols DEF TypeOK, RInv
<1>5. \A v \in Counts : Weight(Open, slots', v) = Weight(Open, slots, v) + v[r]
  <2>1. slots'[slot] = r /\ \A x \in Slots : x # slot => slots'[x] = slots[x]
    BY <1>1, <1>3 DEF Table
  <2>2. slot \in Slots /\ slots[slot] = Vacant /\ slots' \in Table
    BY <1>1
  <2> QED BY <1>2, <1>3, <2>1, <2>2, TallyOfFilling
<1>6. Tallied'
  <2>1. open_orders' = Weight(Open, slots', One)
    <3>1. Weight(Open, slots', One) = Weight(Open, slots, One) + One[r]
      BY <1>5, MeasureFacts
    <3>2. One[r] = 1
      BY <1>2, MeasureFacts
    <3> QED BY <1>2, <3>1, <3>2, StateFacts
  <2>2. ASSUME NEW l \in Locates, NEW side \in Side
        PROVE  /\ symbols'[l].orders[side] = Weight(Open, slots', OrdersOf(l, side))
               /\ symbols'[l].shares[side] = Weight(Open, slots', SharesOf(l, side))
    <3>1. /\ Weight(Open, slots', OrdersOf(l, side)) = Weight(Open, slots, OrdersOf(l, side)) + OrdersOf(l, side)[r]
          /\ Weight(Open, slots', SharesOf(l, side)) = Weight(Open, slots, SharesOf(l, side)) + SharesOf(l, side)[r]
      BY <1>5, MeasureFacts
    <3>2. /\ symbols[l].orders[side] = Weight(Open, slots, OrdersOf(l, side))
          /\ symbols[l].shares[side] = Weight(Open, slots, SharesOf(l, side))
      BY DEF RInv, Tallied
    <3>3. symbols[l].orders[side] \in Nat /\ symbols[l].shares[side] \in Nat
      BY StateFacts
    <3>4. CASE OfSide(r, l, side)
      <4>1. OrdersOf(l, side)[r] = 1 /\ SharesOf(l, side)[r] = r.leaves
        BY <1>2, <3>4, MeasureFacts DEF OfSide
      <4>2. /\ symbols'[l].orders[side] = symbols[l].orders[side] + 1
            /\ symbols'[l].shares[side] = symbols[l].shares[side] + r.leaves
        BY <3>4, SendSymbols
      <4> QED BY <3>1, <3>2, <4>1, <4>2
    <3>5. CASE ~ OfSide(r, l, side)
      <4>1. OrdersOf(l, side)[r] = 0 /\ SharesOf(l, side)[r] = 0
        BY <1>2, <3>5, MeasureFacts DEF OfSide
      <4>2. /\ symbols'[l].orders[side] = symbols[l].orders[side]
            /\ symbols'[l].shares[side] = symbols[l].shares[side]
        BY <3>5, SendSymbols
      <4> QED BY <3>1, <3>2, <3>3, <4>1, <4>2
    <3> QED BY <3>4, <3>5
  <2> QED BY <2>1, <2>2 DEF Tallied
<1>7. open_orders' <= limits'.open_orders
  <2>1. open_orders < limits.open_orders
    BY <1>2 DEF Check
  <2> QED BY <1>2, <2>1, StateFacts
<1>8. ASSUME NEW i \in Occupied(slots')
      PROVE  slots'[i] = r \/ (i \in Occupied(slots) /\ slots'[i] = slots[i])
  BY <1>1, <1>3 DEF Occupied, Table
<1>9. ASSUME NEW i \in Occupied(slots), NEW l \in Locates, NEW side \in Side,
             slots[i].locate = l, slots[i].side = side
      PROVE  /\ symbols[l].orders[side] > 0
             /\ slots[i].price \in Nat /\ symbols[l].best[side] \in Nat
             /\ side = "buy" => slots[i].price <= symbols[l].best[side]
             /\ side = "sell" => symbols[l].best[side] <= slots[i].price
  <2>1. symbols[l].orders[side] > 0 /\ slots[i].price \in Nat /\ symbols[l].best[side] \in Nat
    BY <1>9, StateFacts, OrderFacts, SideHasOrders
  <2> QED BY <1>9, <2>1 DEF RInv, BestBounds
<1>10. BestBounds'
  <2>1. ASSUME NEW i \in Occupied(slots'), NEW l \in Locates, NEW side \in Side,
               slots'[i].locate = l, slots'[i].side = side
        PROVE  /\ side = "buy" => slots'[i].price <= symbols'[l].best[side]
               /\ side = "sell" => symbols'[l].best[side] <= slots'[i].price
    <3>1. symbols[l].best[side] \in Nat /\ symbols[l].orders[side] \in Nat
      BY StateFacts
    <3>2. symbols'[l].best[side] =
            IF OfSide(r, l, side)
                 /\ (symbols[l].orders[side] = 0
                       \/ MoreAggressive(side, r.price, symbols[l].best[side]))
              THEN r.price ELSE symbols[l].best[side]
      BY SendSymbols
    <3>3. CASE slots'[i] = r
      BY <1>3, <2>1, <3>1, <3>2, <3>3 DEF OfSide, MoreAggressive
    <3>4. CASE i \in Occupied(slots) /\ slots'[i] = slots[i]
      BY <1>3, <1>9, <2>1, <3>1, <3>2, <3>4 DEF MoreAggressive
    <3> QED BY <1>8, <3>3, <3>4
  <2>2. \A i \in Occupied(slots') : slots'[i].locate \in Locates /\ slots'[i].side \in Side
    BY <1>3, <1>8, StateFacts, OrderFacts
  <2> QED BY <2>1, <2>2 DEF BestBounds
<1>11. NoSelfCross'
  <2>1. ASSUME NEW i \in Occupied(slots'), NEW j \in Occupied(slots'),
               slots'[i].locate = slots'[j].locate,
               slots'[i].side = "buy", slots'[j].side = "sell"
        PROVE  slots'[i].price < slots'[j].price
    <3>1. "buy" \in Side /\ "sell" \in Side /\ ~ SelfCross(r)
      BY <1>2 DEF Check, Side
    <3>2. \A l \in Locates, side \in Side : symbols[l].best[side] \in Nat
      BY StateFacts
    <3>3. CASE slots'[i] = r /\ slots'[j] # r
      <4>1. j \in Occupied(slots) /\ slots'[j] = slots[j]
        BY <1>8, <3>3
      <4>2. r.side = "buy" /\ slots[j].locate = r.locate /\ slots[j].side = "sell"
        BY <2>1, <3>3, <4>1
      <4>3. /\ symbols[r.locate].orders["sell"] > 0 /\ slots[j].price \in Nat
            /\ symbols[r.locate].best["sell"] <= slots[j].price
        BY <1>3, <1>9, <3>1, <4>1, <4>2
      <4>4. ~ r.price >= symbols[r.locate].best["sell"]
        BY <3>1, <4>2, <4>3 DEF SelfCross
      <4> QED BY <1>3, <3>1, <3>2, <3>3, <4>1, <4>3, <4>4
    <3>4. CASE slots'[i] # r /\ slots'[j] = r
      <4>1. i \in Occupied(slots) /\ slots'[i] = slots[i]
        BY <1>8, <3>4
      <4>2. r.side = "sell" /\ slots[i].locate = r.locate /\ slots[i].side = "buy"
        BY <2>1, <3>4, <4>1
      <4>3. /\ symbols[r.locate].orders["buy"] > 0 /\ slots[i].price \in Nat
            /\ slots[i].price <= symbols[r.locate].best["buy"]
        BY <1>3, <1>9, <3>1, <4>1, <4>2
      <4>4. ~ r.price <= symbols[r.locate].best["buy"]
        BY <3>1, <4>2, <4>3 DEF SelfCross
      <4> QED BY <1>3, <3>1, <3>2, <3>4, <4>1, <4>3, <4>4
    <3>5. CASE slots'[i] # r /\ slots'[j] # r
      BY <1>8, <2>1, <3>5 DEF RInv, NoSelfCross
    <3>6. ~ (slots'[i] = r /\ slots'[j] = r)
      BY <2>1
    <3> QED BY <3>3, <3>4, <3>5, <3>6
  <2> QED BY <2>1 DEF NoSelfCross
<1>12. WorstCaseWithinLimit'
  <2>1. ASSUME NEW l \in Locates, NEW side \in Side, symbols'[l].orders[side] > 0
        PROVE  /\ symbols'[l].position + symbols'[l].shares["buy"] <= limits.position
               /\ symbols'[l].position - symbols'[l].shares["sell"] >= - limits.position
    <3>1. "buy" \in Side /\ "sell" \in Side
      BY DEF Side
    <3>2. CASE l # r.locate
      <4>1. /\ symbols'[l].position = symbols[l].position
            /\ \A x \in Side : /\ symbols'[l].shares[x] = symbols[l].shares[x]
                               /\ symbols'[l].orders[x] = symbols[l].orders[x]
        BY <3>2, SendSymbols DEF OfSide
      <4>2. WorstLong(l) <= limits.position /\ WorstShort(l) >= - limits.position
        BY <2>1, <4>1 DEF RInv, WorstCaseWithinLimit
      <4> QED BY <3>1, <4>1, <4>2 DEF WorstLong, WorstShort
    <3>3. CASE l = r.locate
      <4>1. /\ symbols'[l].position = symbols[l].position
            /\ \A x \in Side :
                 symbols'[l].shares[x] = IF x = r.side THEN symbols[l].shares[x] + r.leaves
                                                       ELSE symbols[l].shares[x]
        BY <3>3, SendSymbols DEF OfSide
      <4>2. /\ WorstLong(l) + (IF r.side = "buy" THEN r.leaves ELSE 0) <= limits.position
            /\ WorstShort(l) - (IF r.side = "sell" THEN r.leaves ELSE 0) >= - limits.position
        BY <1>2, <3>3 DEF Check, WithinLimits
      <4>3. symbols[l].position \in Int /\ \A x \in Side : symbols[l].shares[x] \in Nat
        BY StateFacts
      <4> QED BY <1>3, <3>1, <4>1, <4>2, <4>3 DEF WorstLong, WorstShort
    <3> QED BY <3>2, <3>3
  <2> QED BY <1>2, <2>1 DEF WorstCaseWithinLimit, WorstLong, WorstShort
<1> QED BY <1>1, <1>2, <1>4, <1>6, <1>7, <1>10, <1>11, <1>12, SMTT(30) DEF RInv

-----------------------------------------------------------------------------
\* Shares of the order in a slot stop working: the table stays sound, has no order
\* that it had not before, and weighs less by what went.
LEMMA ReduceTable ==
  ASSUME RInv, NEW slot \in Occupied(slots), NEW o, o = slots[slot],
         NEW n \in Nat, 0 < n, n <= o.leaves, NEW filled \in BOOLEAN, Reduce(slot, n, filled)
  PROVE  /\ slots' \in Table /\ Sound(Open, slots')
         /\ \A i \in Occupied(slots') : \E k \in Occupied(slots) :
              /\ slots'[i].locate = slots[k].locate /\ slots'[i].side = slots[k].side
              /\ slots'[i].price = slots[k].price
         /\ open_orders = Weight(Open, slots', One) + (IF o.leaves = n THEN 1 ELSE 0)
         /\ \A l \in Locates, side \in Side :
              /\ symbols[l].orders[side] = Weight(Open, slots', OrdersOf(l, side))
                   + (IF OfSide(o, l, side) /\ o.leaves = n THEN 1 ELSE 0)
              /\ symbols[l].shares[side] = Weight(Open, slots', SharesOf(l, side))
                   + (IF OfSide(o, l, side) THEN n ELSE 0)
<1>1. /\ slots \in Table /\ Sound(Open, slots) /\ \E j \in Slots : slots[j] = Vacant
      /\ slot \in Slots /\ o \in Order /\ o # Vacant
  BY StateFacts, OrderFacts
<1>2. /\ open_orders = Weight(Open, slots, One)
      /\ \A l \in Locates, side \in Side :
           /\ symbols[l].orders[side] = Weight(Open, slots, OrdersOf(l, side))
           /\ symbols[l].shares[side] = Weight(Open, slots, SharesOf(l, side))
  BY DEF RInv, Tallied
<1>3. CASE o.leaves = n
  <2>1. slots' = EraseAt(slots, slot)
    BY <1>3 DEF Reduce
  <2>2. /\ slots' \in Table /\ Sound(Open, slots')
        /\ \A j \in Occupied(slots') : \E k \in Occupied(slots) : k # slot /\ slots'[j] = slots[k]
        /\ \A v \in Counts : Weight(Open, slots', v) + v[slots[slot]] = Weight(Open, slots, v)
    BY <1>1, <2>1, OrderFacts, EraseAtFacts
  <2>3. open_orders = Weight(Open, slots', One) + 1
    BY <1>1, <1>2, <2>2, MeasureFacts
  <2>4. ASSUME NEW l \in Locates, NEW side \in Side
        PROVE  /\ symbols[l].orders[side] = Weight(Open, slots', OrdersOf(l, side))
                    + (IF OfSide(o, l, side) THEN 1 ELSE 0)
               /\ symbols[l].shares[side] = Weight(Open, slots', SharesOf(l, side))
                    + (IF OfSide(o, l, side) THEN n ELSE 0)
    <3>1. /\ Weight(Open, slots', OrdersOf(l, side)) + OrdersOf(l, side)[o] = symbols[l].orders[side]
          /\ Weight(Open, slots', SharesOf(l, side)) + SharesOf(l, side)[o] = symbols[l].shares[side]
      BY <1>2, <2>2, MeasureFacts
    <3>2. /\ OrdersOf(l, side)[o] = IF OfSide(o, l, side) THEN 1 ELSE 0
          /\ SharesOf(l, side)[o] = IF OfSide(o, l, side) THEN n ELSE 0
      BY <1>1, <1>3, MeasureFacts DEF OfSide
    <3> QED BY <3>1, <3>2
  <2> QED BY <1>3, <2>2, <2>3, <2>4
<1>4. CASE o.leaves # n
  <2> DEFINE e == [o EXCEPT !.leaves = o.leaves - n]
  <2>1. /\ e \in Order /\ e # Vacant /\ e.token = o.token /\ e.locate = o.locate
        /\ e.side = o.side /\ e.price = o.price /\ e.leaves = o.leaves - n
    <3>1. o.leaves \in Nat /\ o.leaves - n \in Nat \ {0}
      BY <1>1, <1>4, OrderFacts
    <3>2. e \in Order
      BY <1>1, <3>1 DEF Order
    <3>3. /\ e.token = o.token /\ e.locate = o.locate
          /\ e.side = o.side /\ e.price = o.price /\ e.leaves = o.leaves - n
      BY <1>1 DEF Order
    <3> HIDE DEF e
    <3> QED BY <3>2, <3>3, OrderFacts
  <2>2. slots' = [slots EXCEPT ![slot] = e]
    BY <1>1, <1>4 DEF Reduce
  <2> HIDE DEF e
  <2>3. slots' \in Table /\ slots'[slot] = e /\ \A x \in Slots : x # slot => slots'[x] = slots[x]
    BY <1>1, <2>1, <2>2 DEF Table
  <2>4. Sound(Open, slots')
    BY <1>1, <2>1, <2>3, ChangeOpenFacts
  <2>5. ASSUME NEW i \in Occupied(slots')
        PROVE  \E k \in Occupied(slots) :
                 /\ slots'[i].locate = slots[k].locate /\ slots'[i].side = slots[k].side
                 /\ slots'[i].price = slots[k].price
    <3>1. CASE i = slot
      BY <2>1, <2>3, <3>1
    <3>2. CASE i # slot
      <4>1. i \in Occupied(slots) /\ slots'[i] = slots[i]
        BY <2>3, <3>2 DEF Occupied
      <4> QED BY <4>1
    <3> QED BY <3>1, <3>2
  <2>6. \A v \in Counts : /\ Weight(Open, slots', v) + v[o] = Weight(Open, slots, v) + v[e]
                                   /\ Weight(Open, slots', v) \in Nat /\ Weight(Open, slots, v) \in Nat
    <3> TAKE v \in Counts
    <3>1. Weight(Open, slots', v) \in Nat /\ Weight(Open, slots, v) \in Nat
      BY <1>1, <2>3, TallyOfSome
    <3>2. Weight(Open, [slots EXCEPT ![slot] = e], v) + v[slots[slot]] = Weight(Open, slots, v) + v[e]
      BY <1>1, <2>1, TallyOfChange
    <3> QED BY <2>2, <3>1, <3>2
  <2>7. open_orders = Weight(Open, slots', One)
    <3>1. One[o] = 1 /\ One[e] = 1
      BY <1>1, <2>1, MeasureFacts
    <3>2. /\ Weight(Open, slots', One) + One[o] = Weight(Open, slots, One) + One[e]
          /\ Weight(Open, slots', One) \in Nat /\ Weight(Open, slots, One) \in Nat
      BY <2>6, MeasureFacts
    <3> QED BY <1>2, <3>1, <3>2
  <2>8. ASSUME NEW l \in Locates, NEW side \in Side
        PROVE  /\ symbols[l].orders[side] = Weight(Open, slots', OrdersOf(l, side))
               /\ symbols[l].shares[side] = Weight(Open, slots', SharesOf(l, side))
                    + (IF OfSide(o, l, side) THEN n ELSE 0)
    <3> DEFINE v == OrdersOf(l, side)
               m == SharesOf(l, side)
    <3>1. /\ Weight(Open, slots', v) + v[o] = Weight(Open, slots, v) + v[e]
          /\ Weight(Open, slots', m) + m[o] = Weight(Open, slots, m) + m[e]
          /\ Weight(Open, slots', v) \in Nat /\ Weight(Open, slots, v) \in Nat
          /\ Weight(Open, slots', m) \in Nat /\ Weight(Open, slots, m) \in Nat
      BY <2>6, MeasureFacts
    <3>2. v[o] = v[e] /\ v[e] \in Nat
      BY <1>1, <2>1, MeasureFacts
    <3>3. m[o] \in Nat /\ m[e] \in Nat /\ m[o] = m[e] + (IF OfSide(o, l, side) THEN n ELSE 0)
      <4>1. o.leaves \in Nat /\ e.leaves \in Nat
        BY <1>1, <2>1, OrderFacts
      <4> QED BY <1>1, <2>1, <4>1, MeasureFacts DEF OfSide
    <3>4. symbols[l].orders[side] = Weight(Open, slots, v) /\ symbols[l].shares[side] = Weight(Open, slots, m)
      BY <1>2
    <3> HIDE DEF v, m
    <3>5. Weight(Open, slots, v) = Weight(Open, slots', v)
      BY <3>1, <3>2
    <3>6. Weight(Open, slots, m) = Weight(Open, slots', m) + (IF OfSide(o, l, side) THEN n ELSE 0)
      BY <3>1, <3>3
    <3>7. /\ symbols[l].orders[side] = Weight(Open, slots', v)
          /\ symbols[l].shares[side] = Weight(Open, slots', m) + (IF OfSide(o, l, side) THEN n ELSE 0)
      BY <3>4, <3>5, <3>6
    <3> QED BY <3>7 DEF v, m
  <2>9. open_orders = Weight(Open, slots', One) + 0
    <3>1. Weight(Open, slots', One) \in Nat
      BY <2>6, MeasureFacts
    <3> QED BY <2>7, <3>1
  <2>10. ASSUME NEW l \in Locates, NEW side \in Side
         PROVE  symbols[l].orders[side] = Weight(Open, slots', OrdersOf(l, side)) + 0
    <3>1. Weight(Open, slots', OrdersOf(l, side)) \in Nat
      BY <2>6, MeasureFacts
    <3> QED BY <2>8, <3>1
  <2> QED BY <1>4, <2>3, <2>4, <2>5, <2>8, <2>9, <2>10
<1> QED BY <1>3, <1>4

\* What the shares that went do to every symbol.
LEMMA ReduceSymbols ==
  ASSUME RInv, NEW slot \in Occupied(slots), NEW o, o = slots[slot],
         NEW n \in Nat, 0 < n, n <= o.leaves, NEW filled \in BOOLEAN, Reduce(slot, n, filled)
  PROVE  /\ symbols' \in [Locates -> Symbol]
         /\ \A l \in Locates :
              /\ symbols'[l].position = symbols[l].position
                   + (IF l = o.locate /\ filled THEN IF o.side = "buy" THEN n ELSE - n ELSE 0)
              /\ \A side \in Side :
                   /\ symbols[l].shares[side] =
                        symbols'[l].shares[side] + (IF OfSide(o, l, side) THEN n ELSE 0)
                   /\ symbols[l].orders[side] = symbols'[l].orders[side]
                        + (IF OfSide(o, l, side) /\ o.leaves = n THEN 1 ELSE 0)
                   /\ symbols'[l].best[side] =
                        IF OfSide(o, l, side) /\ symbols'[l].orders[side] = 0
                             /\ o.leaves = n
                          THEN 0 ELSE symbols[l].best[side]
<1> DEFINE s == symbols[o.locate]
           gone == o.leaves = n
           last == gone /\ s.orders[o.side] = 1
           position == IF ~ filled THEN s.position
                       ELSE IF o.side = "buy" THEN s.position + n ELSE s.position - n
           shares == IF last THEN 0 ELSE s.shares[o.side] - n
           orders == IF gone THEN s.orders[o.side] - 1 ELSE s.orders[o.side]
           best == IF last THEN 0 ELSE s.best[o.side]
           z == [s EXCEPT !.position = position, !.shares[o.side] = shares,
                          !.orders[o.side] = orders, !.best[o.side] = best]
<1>1. /\ o \in Order /\ o.locate \in Locates /\ o.side \in Side /\ o.leaves \in Nat
      /\ symbols \in [Locates -> Symbol] /\ s \in Symbol
  BY StateFacts, OrderFacts DEF RInv, TypeOK
<1>2. symbols' = [symbols EXCEPT ![o.locate] = z]
  BY Zenon DEF Reduce, Released
<1>3. /\ s.shares[o.side] \in Nat /\ s.orders[o.side] \in Nat /\ s.best[o.side] \in Nat
      /\ s.position \in Int
  BY <1>1, StateFacts
<1>4. /\ slots' \in Table
      /\ Weight(Open, slots', OrdersOf(o.locate, o.side)) \in Nat
      /\ Weight(Open, slots', SharesOf(o.locate, o.side)) \in Nat
      /\ Weight(Open, slots', OrdersOf(o.locate, o.side)) = 0 =>
           Weight(Open, slots', SharesOf(o.locate, o.side)) = 0
  BY ReduceTable, TallyFacts
<1>5. /\ s.orders[o.side] = Weight(Open, slots', OrdersOf(o.locate, o.side)) + (IF gone THEN 1 ELSE 0)
      /\ s.shares[o.side] = Weight(Open, slots', SharesOf(o.locate, o.side)) + n
  BY <1>1, ReduceTable DEF OfSide
<1>6. /\ shares \in Nat /\ s.shares[o.side] = shares + n
      /\ orders \in Nat /\ s.orders[o.side] = orders + (IF gone THEN 1 ELSE 0)
      /\ best \in Nat /\ position \in Int
      /\ last <=> gone /\ orders = 0
  <2> HIDE DEF s
  <2> QED BY <1>3, <1>4, <1>5
<1>7. position = s.position + (IF filled THEN IF o.side = "buy" THEN n ELSE - n ELSE 0)
  BY <1>3
<1>8. best = IF gone /\ orders = 0 THEN 0 ELSE s.best[o.side]
  <2> HIDE DEF s, orders, gone
  <2> QED BY <1>6
<1> HIDE DEF position, shares, orders, best, last
<1>9. z = [s EXCEPT !.position = position,
                    !.shares = [s.shares EXCEPT ![o.side] = shares],
                    !.orders = [s.orders EXCEPT ![o.side] = orders],
                    !.best = [s.best EXCEPT ![o.side] = best]]
  BY <1>1 DEF Symbol
<1>10. z \in Symbol
  <2> HIDE DEF s
  <2> QED BY <1>1, <1>6, <1>9 DEF Symbol
<1>11. z.position = position
  BY <1>1, <1>9 DEF Symbol
<1>12. ASSUME NEW side \in Side
       PROVE  /\ z.shares[side] = IF side = o.side THEN shares ELSE s.shares[side]
              /\ z.orders[side] = IF side = o.side THEN orders ELSE s.orders[side]
              /\ z.best[side] = IF side = o.side THEN best ELSE s.best[side]
  <2> HIDE DEF s
  <2> QED BY <1>1, <1>9 DEF Symbol
<1> HIDE DEF z
<1>13. symbols' \in [Locates -> Symbol]
  BY <1>1, <1>2, <1>10
<1>14. symbols'[o.locate] = z /\ \A l \in Locates : l # o.locate => symbols'[l] = symbols[l]
  BY <1>1, <1>2
<1>15. ASSUME NEW l \in Locates
       PROVE  /\ symbols'[l].position = symbols[l].position
                   + (IF l = o.locate /\ filled THEN IF o.side = "buy" THEN n ELSE - n ELSE 0)
              /\ \A side \in Side :
                   /\ symbols[l].shares[side] =
                        symbols'[l].shares[side] + (IF OfSide(o, l, side) THEN n ELSE 0)
                   /\ symbols[l].orders[side] = symbols'[l].orders[side]
                        + (IF OfSide(o, l, side) /\ o.leaves = n THEN 1 ELSE 0)
                   /\ symbols'[l].best[side] =
                        IF OfSide(o, l, side) /\ symbols'[l].orders[side] = 0
                             /\ o.leaves = n
                          THEN 0 ELSE symbols[l].best[side]
  <2>1. /\ symbols[l].position \in Int
        /\ \A side \in Side : symbols[l].shares[side] \in Nat /\ symbols[l].orders[side] \in Nat
    BY StateFacts
  <2>2. CASE l # o.locate
    BY <1>14, <2>1, <2>2 DEF OfSide
  <2>3. CASE l = o.locate
    <3>1. symbols'[l] = z /\ symbols[l] = s
      BY <1>14, <2>3
    <3> HIDE DEF s
    <3>2. symbols'[l].position = symbols[l].position
            + (IF l = o.locate /\ filled THEN IF o.side = "buy" THEN n ELSE - n ELSE 0)
      BY <1>7, <1>11, <2>3, <3>1
    <3>3. ASSUME NEW side \in Side
          PROVE  /\ symbols[l].shares[side] =
                      symbols'[l].shares[side] + (IF OfSide(o, l, side) THEN n ELSE 0)
                 /\ symbols[l].orders[side] = symbols'[l].orders[side]
                      + (IF OfSide(o, l, side) /\ o.leaves = n THEN 1 ELSE 0)
                 /\ symbols'[l].best[side] =
                      IF OfSide(o, l, side) /\ symbols'[l].orders[side] = 0
                           /\ o.leaves = n
                        THEN 0 ELSE symbols[l].best[side]
      <4>1. CASE side = o.side
        BY <1>6, <1>8, <1>12, <2>3, <3>1, <4>1 DEF OfSide
      <4>2. CASE side # o.side
        BY <1>12, <2>1, <3>1, <4>2 DEF OfSide
      <4> QED BY <4>1, <4>2
    <3> QED BY <3>2, <3>3
  <2> QED BY <2>2, <2>3
<1> QED BY <1>13, <1>15

\* Shares that stop working keep the invariant, and make no worst case worse.
LEMMA ReduceKeeps ==
  ASSUME RInv, NEW slot \in Occupied(slots),
         NEW n \in Nat, 0 < n, n <= slots[slot].leaves, NEW filled \in BOOLEAN,
         Reduce(slot, n, filled)
  PROVE  /\ RInv' /\ kill_reason' = kill_reason
         /\ \A l \in Locates :
              WorstLong(l)' <= WorstLong(l) /\ WorstShort(l)' >= WorstShort(l)
<1>1. PICK o \in Order : o = slots[slot]
  BY StateFacts
<1>2. /\ o.locate \in Locates /\ o.side \in Side /\ o.leaves \in Nat /\ n <= o.leaves
  BY <1>1, OrderFacts
<1>3. /\ open_orders' = IF o.leaves = n THEN open_orders - 1 ELSE open_orders
      /\ limits' = limits /\ kill_reason' = kill_reason
  BY <1>1 DEF Reduce
<1>4. /\ slots' \in Table /\ Sound(Open, slots')
      /\ \A i \in Occupied(slots') : \E k \in Occupied(slots) :
           /\ slots'[i].locate = slots[k].locate /\ slots'[i].side = slots[k].side
           /\ slots'[i].price = slots[k].price
      /\ open_orders = Weight(Open, slots', One) + (IF o.leaves = n THEN 1 ELSE 0)
      /\ \A l \in Locates, side \in Side :
           /\ symbols[l].orders[side] = Weight(Open, slots', OrdersOf(l, side))
                + (IF OfSide(o, l, side) /\ o.leaves = n THEN 1 ELSE 0)
           /\ symbols[l].shares[side] = Weight(Open, slots', SharesOf(l, side))
                + (IF OfSide(o, l, side) THEN n ELSE 0)
  BY <1>1, <1>2, ReduceTable
<1>5. /\ symbols' \in [Locates -> Symbol]
      /\ \A l \in Locates :
           /\ symbols'[l].position = symbols[l].position
                + (IF l = o.locate /\ filled THEN IF o.side = "buy" THEN n ELSE - n ELSE 0)
           /\ \A side \in Side :
                /\ symbols[l].shares[side] =
                     symbols'[l].shares[side] + (IF OfSide(o, l, side) THEN n ELSE 0)
                /\ symbols[l].orders[side] = symbols'[l].orders[side]
                     + (IF OfSide(o, l, side) /\ o.leaves = n THEN 1 ELSE 0)
                /\ symbols'[l].best[side] =
                     IF OfSide(o, l, side) /\ symbols'[l].orders[side] = 0
                          /\ o.leaves = n
                       THEN 0 ELSE symbols[l].best[side]
  BY <1>1, <1>2, ReduceSymbols
<1>6. ASSUME NEW l \in Locates
      PROVE  /\ symbols'[l].position \in Int /\ symbols[l].position \in Int
             /\ \A side \in Side :
                  /\ symbols'[l].shares[side] \in Nat /\ symbols'[l].orders[side] \in Nat
                  /\ symbols[l].shares[side] \in Nat /\ symbols[l].orders[side] \in Nat
                  /\ symbols'[l].best[side] \in Nat /\ symbols[l].best[side] \in Nat
  <2>1. symbols'[l] \in Symbol
    BY <1>5
  <2>2. /\ symbols'[l].position \in Int
        /\ \A side \in Side :
             /\ symbols'[l].shares[side] \in Nat /\ symbols'[l].orders[side] \in Nat
             /\ symbols'[l].best[side] \in Nat
    BY <2>1 DEF Symbol
  <2> QED BY <2>2, StateFacts
<1>7. \A l \in Locates, side \in Side :
        Weight(Open, slots', OrdersOf(l, side)) \in Nat /\ Weight(Open, slots', SharesOf(l, side)) \in Nat
  BY <1>4, TallyFacts
<1>8. Weight(Open, slots', One) \in Nat
  BY <1>4, VacancyFacts
<1>9. open_orders' = Weight(Open, slots', One) /\ open_orders' \in Nat /\ open_orders' <= open_orders
  BY <1>3, <1>4, <1>8
<1>10. Tallied'
  <2>1. ASSUME NEW l \in Locates, NEW side \in Side
        PROVE  /\ symbols'[l].orders[side] = Weight(Open, slots', OrdersOf(l, side))
               /\ symbols'[l].shares[side] = Weight(Open, slots', SharesOf(l, side))
    <3> DEFINE a == IF OfSide(o, l, side) /\ o.leaves = n THEN 1 ELSE 0
               b == IF OfSide(o, l, side) THEN n ELSE 0
               v == Weight(Open, slots', OrdersOf(l, side))
               m == Weight(Open, slots', SharesOf(l, side))
    <3>1. a \in Nat /\ b \in Nat /\ v \in Nat /\ m \in Nat
      BY <1>7
    <3>2. symbols[l].orders[side] = v + a /\ symbols[l].shares[side] = m + b
      BY <1>4
    <3>3. /\ symbols[l].orders[side] = symbols'[l].orders[side] + a
          /\ symbols[l].shares[side] = symbols'[l].shares[side] + b
      BY <1>5
    <3> HIDE DEF a, b, v, m
    <3>4. symbols'[l].orders[side] = v /\ symbols'[l].shares[side] = m
      BY <1>6, <3>1, <3>2, <3>3, SMTT(30)
    <3> QED BY <3>4 DEF v, m
  <2> QED BY <1>9, <2>1 DEF Tallied
<1>11. TypeOK'
  BY <1>3, <1>4, <1>5, <1>9 DEF RInv, TypeOK
<1>12. open_orders' <= limits'.open_orders
  BY <1>3, <1>9, StateFacts DEF RInv
<1>13. BestBounds'
  <2>1. ASSUME NEW i \in Occupied(slots')
        PROVE  /\ slots'[i].side = "buy" =>
                    slots'[i].price <= symbols'[slots'[i].locate].best["buy"]
               /\ slots'[i].side = "sell" =>
                    symbols'[slots'[i].locate].best["sell"] <= slots'[i].price
    <3>1. PICK k \in Occupied(slots) :
            /\ slots'[i].locate = slots[k].locate /\ slots'[i].side = slots[k].side
            /\ slots'[i].price = slots[k].price
      BY <1>4
    <3>2. PICK l \in Locates, side \in Side :
            slots'[i].locate = l /\ slots'[i].side = side
      BY <3>1, StateFacts, OrderFacts
    <3>3. symbols'[l].orders[side] # 0
      <4>1. Weight(Open, slots', OrdersOf(l, side)) # 0
        BY <1>4, <3>2, TallyFacts
      <4> QED BY <1>10, <4>1 DEF Tallied
    <3>4. symbols'[l].best[side] = symbols[l].best[side]
      BY <1>5, <3>3
    <3>5. /\ slots[k].side = "buy" => slots[k].price <= symbols[slots[k].locate].best["buy"]
          /\ slots[k].side = "sell" => symbols[slots[k].locate].best["sell"] <= slots[k].price
      BY DEF RInv, BestBounds
    <3> QED BY <3>1, <3>2, <3>4, <3>5
  <2> QED BY <2>1 DEF BestBounds
<1>14. NoSelfCross'
  <2>1. ASSUME NEW i \in Occupied(slots'), NEW j \in Occupied(slots'),
               slots'[i].locate = slots'[j].locate,
               slots'[i].side = "buy", slots'[j].side = "sell"
        PROVE  slots'[i].price < slots'[j].price
    <3>1. PICK k \in Occupied(slots) :
            /\ slots'[i].locate = slots[k].locate /\ slots'[i].side = slots[k].side
            /\ slots'[i].price = slots[k].price
      BY <1>4
    <3>2. PICK m \in Occupied(slots) :
            /\ slots'[j].locate = slots[m].locate /\ slots'[j].side = slots[m].side
            /\ slots'[j].price = slots[m].price
      BY <1>4
    <3> QED BY <2>1, <3>1, <3>2 DEF RInv, NoSelfCross
  <2> QED BY <2>1 DEF NoSelfCross
<1>15. ASSUME NEW l \in Locates
       PROVE  WorstLong(l)' <= WorstLong(l) /\ WorstShort(l)' >= WorstShort(l)
  <2>1. "buy" \in Side /\ "sell" \in Side /\ (o.side = "buy" \/ o.side = "sell")
    BY <1>2 DEF Side
  <2> DEFINE p == symbols[l].position
             q == symbols'[l].position
             b == symbols[l].shares["buy"]
             c == symbols'[l].shares["buy"]
             d == symbols[l].shares["sell"]
             e == symbols'[l].shares["sell"]
  <2>2. p \in Int /\ q \in Int /\ b \in Nat /\ c \in Nat /\ d \in Nat /\ e \in Nat
    BY <1>6, <2>1
  <2>3. /\ q = p + (IF l = o.locate /\ filled THEN IF o.side = "buy" THEN n ELSE - n ELSE 0)
        /\ b = c + (IF OfSide(o, l, "buy") THEN n ELSE 0)
        /\ d = e + (IF OfSide(o, l, "sell") THEN n ELSE 0)
    BY <1>5, <2>1
  <2> HIDE DEF p, q, b, c, d, e
  <2>4. q + c <= p + b /\ q - e >= p - d
    BY <2>1, <2>2, <2>3 DEF OfSide
  <2> QED BY <2>4 DEF WorstLong, WorstShort, p, q, b, c, d, e
<1>16. WorstCaseWithinLimit'
  <2>1. ASSUME NEW l \in Locates, NEW side \in Side, symbols'[l].orders[side] > 0
        PROVE  WorstLong(l)' <= limits.position /\ WorstShort(l)' >= - limits.position
    <3>1. symbols[l].orders[side] > 0
      BY <1>5, <1>6, <2>1
    <3>2. WorstLong(l) <= limits.position /\ WorstShort(l) >= - limits.position
      BY <3>1 DEF RInv, WorstCaseWithinLimit
    <3>3. /\ WorstLong(l) \in Int /\ WorstShort(l) \in Int /\ limits.position \in Int
          /\ WorstLong(l)' \in Int /\ WorstShort(l)' \in Int
      <4>1. "buy" \in Side /\ "sell" \in Side
        BY DEF Side
      <4> QED BY <1>6, <4>1, StateFacts DEF WorstLong, WorstShort
    <3>4. WorstLong(l)' <= WorstLong(l) /\ WorstShort(l)' >= WorstShort(l)
      BY <1>15
    <3> HIDE DEF WorstLong, WorstShort
    <3> QED BY <3>2, <3>3, <3>4
  <2> QED BY <1>3, <2>1 DEF WorstCaseWithinLimit
<1>17. kill_reason' # "table_full"
  BY <1>3 DEF RInv
<1> QED BY <1>3, <1>4, <1>10, <1>11, <1>12, <1>13, <1>14, <1>15, <1>16, <1>17 DEF RInv

-----------------------------------------------------------------------------
\* The worst case of no symbol gets worse.
NoWorse ==
  \A l \in Locates : WorstLong(l)' <= WorstLong(l) /\ WorstShort(l)' >= WorstShort(l)

\* A step that moves no order and no tally keeps the invariant.
LEMMA QuietKeeps ==
  ASSUME RInv, slots' = slots, open_orders' = open_orders, limits' = limits,
         kill_reason' # "table_full", symbols' \in [Locates -> Symbol],
         \A l \in Locates :
           /\ symbols'[l].position = symbols[l].position
           /\ symbols'[l].shares = symbols[l].shares
           /\ symbols'[l].orders = symbols[l].orders
           /\ symbols'[l].best = symbols[l].best
  PROVE  RInv' /\ NoWorse
<1>1. TypeOK' /\ Tallied' /\ Sound(Open, slots)' /\ open_orders' <= limits'.open_orders
  <2>1. TypeOK /\ Tallied /\ Sound(Open, slots) /\ open_orders <= limits.open_orders
    BY DEF RInv
  <2>2. TypeOK'
    BY <2>1 DEF TypeOK
  <2>3. Tallied'
    BY <2>1 DEF Tallied
  <2> QED BY <2>1, <2>2, <2>3
<1>2. BestBounds'
  <2>1. \A i \in Occupied(slots) : slots[i].locate \in Locates
    BY StateFacts, OrderFacts
  <2>2. BestBounds
    BY DEF RInv
  <2> QED BY <2>1, <2>2 DEF BestBounds
<1>3. NoSelfCross'
  BY DEF RInv, NoSelfCross
<1>4. \A l \in Locates : WorstLong(l)' = WorstLong(l) /\ WorstShort(l)' = WorstShort(l)
  BY DEF WorstLong, WorstShort
<1>5. WorstCaseWithinLimit'
  <2>1. WorstCaseWithinLimit
    BY DEF RInv
  <2> HIDE DEF WorstLong, WorstShort
  <2> QED BY <1>4, <2>1 DEF WorstCaseWithinLimit
<1>6. NoWorse
  <2>1. \A l \in Locates : WorstLong(l) \in Int /\ WorstShort(l) \in Int
    <3>1. "buy" \in Side /\ "sell" \in Side
      BY DEF Side
    <3> QED BY <3>1, StateFacts DEF WorstLong, WorstShort
  <2> QED BY <1>4, <2>1 DEF NoWorse
<1> QED BY <1>1, <1>2, <1>3, <1>5, <1>6 DEF RInv

\* An answer for a token that is open takes some of the shares of its order.
LEMMA AnswerKeeps ==
  ASSUME RInv, NEW t \in Tokens, NEW n \in Nat, NEW filled \in BOOLEAN,
         FindOpen(slots, t) # NoSlot, 0 < n, n <= slots[FindOpen(slots, t)].leaves,
         Reduce(FindOpen(slots, t), n, filled)
  PROVE  RInv' /\ kill_reason' = kill_reason /\ NoWorse
<1> DEFINE slot == FindOpen(slots, t)
<1>1. slot \in Occupied(slots)
  BY StateFacts, OrderFacts, FindOpenFacts
<1> HIDE DEF slot
<1>2. n <= slots[slot].leaves /\ Reduce(slot, n, filled)
  BY DEF slot
<1> QED BY <1>1, <1>2, ReduceKeeps DEF NoWorse

\* The lesser of what was answered and what was open is some of it.
LEMMA SomeOfIt ==
  ASSUME NEW n \in Nat, NEW m \in Nat, 0 < n, 0 < m
  PROVE  Min({n, m}) \in Nat /\ 0 < Min({n, m}) /\ Min({n, m}) <= m
<1>1. {n, m} \in SUBSET Nat /\ {n, m} # {}
  OBVIOUS
<1>2. Min({n, m}) \in {n, m} /\ \A k \in {n, m} : Min({n, m}) <= k
  BY <1>1, MinOfNaturals
<1> QED BY <1>2

\* Every step keeps the invariant, and none that begins and ends with the switch
\* tripped makes a worst case worse or changes why.
LEMMA StepKeeps ==
  ASSUME RInv, [Next]_vars
  PROVE  /\ RInv'
         /\ tripped /\ tripped' => kill_reason' = kill_reason /\ NoWorse
<1>1. ASSUME NEW r \in Request, SendOrder(r)
      PROVE  RInv' /\ ~ tripped
  BY <1>1, SendFacts, SendKeeps, Zenon DEF Check
<1>2. ASSUME NEW t \in Tokens, FindOpen(slots, t) # NoSlot
      PROVE  slots[FindOpen(slots, t)].leaves \in Nat /\ 0 < slots[FindOpen(slots, t)].leaves
  <2>1. FindOpen(slots, t) \in Occupied(slots)
    BY <1>2, StateFacts, OrderFacts, FindOpenFacts
  <2> QED BY <2>1, StateFacts, OrderFacts
<1>3. \A n \in Answered : n \in Nat
  BY DEF Answered
<1>4. ASSUME NEW t \in Tokens, NEW n \in Answered \ {0}, OnFill(t, n)
      PROVE  RInv' /\ kill_reason' = kill_reason /\ NoWorse
  <2> DEFINE m == slots[FindOpen(slots, t)].leaves
             k == Min({n, m})
  <2>1. FindOpen(slots, t) # NoSlot /\ Reduce(FindOpen(slots, t), k, TRUE)
    BY <1>4 DEF OnFill
  <2>2. n \in Nat /\ 0 < n /\ m \in Nat /\ 0 < m
    BY <1>2, <1>3, <2>1
  <2> HIDE DEF m
  <2>3. k \in Nat /\ 0 < k /\ k <= m
    BY <2>2, SomeOfIt
  <2> HIDE DEF k
  <2> QED BY <2>1, <2>3, AnswerKeeps DEF m
<1>5. ASSUME NEW t \in Tokens, NEW n \in Answered, OnCancelAcked(t, n)
      PROVE  RInv' /\ kill_reason' = kill_reason /\ NoWorse
  <2> DEFINE m == slots[FindOpen(slots, t)].leaves
             k == IF n = 0 THEN m ELSE Min({n, m})
  <2>1. FindOpen(slots, t) # NoSlot /\ Reduce(FindOpen(slots, t), k, FALSE)
    BY <1>5 DEF OnCancelAcked
  <2>2. n \in Nat /\ m \in Nat /\ 0 < m
    BY <1>2, <1>3, <2>1
  <2> HIDE DEF m
  <2>3. k \in Nat /\ 0 < k /\ k <= m
    <3>1. CASE n = 0
      BY <2>2, <3>1
    <3>2. CASE n # 0
      <4>1. 0 < n
        BY <2>2, <3>2
      <4>2. Min({n, m}) \in Nat /\ 0 < Min({n, m}) /\ Min({n, m}) <= m
        BY <2>2, <4>1, SomeOfIt
      <4> QED BY <3>2, <4>2
    <3> QED BY <3>1, <3>2
  <2> HIDE DEF k
  <2> QED BY <2>1, <2>3, AnswerKeeps DEF m
<1>6. ASSUME NEW t \in Tokens, OnReject(t)
      PROVE  RInv' /\ kill_reason' = kill_reason /\ NoWorse
  <2> DEFINE m == slots[FindOpen(slots, t)].leaves
  <2>1. FindOpen(slots, t) # NoSlot /\ Reduce(FindOpen(slots, t), m, FALSE)
    BY <1>6 DEF OnReject
  <2>2. m \in Nat /\ 0 < m /\ m <= m
    <3>1. m \in Nat /\ 0 < m
      BY <1>2, <2>1
    <3> HIDE DEF m
    <3> QED BY <3>1
  <2> QED BY <2>1, <2>2, AnswerKeeps
<1>7. symbols \in [Locates -> Symbol] /\ kill_reason # "table_full"
  BY DEF RInv, TypeOK
<1>8. CASE TripKillSwitch("operator")
  <2>1. ~ tripped /\ kill_reason' = "operator" /\ UNCHANGED <<slots, symbols, open_orders, limits>>
    BY <1>8 DEF TripKillSwitch
  <2>2. RInv'
    BY <1>7, <2>1, QuietKeeps
  <2> QED BY <2>1, <2>2
<1>9. CASE ResetKillSwitchAfterHumanReview
  <2>1. kill_reason' = "none" /\ UNCHANGED <<slots, symbols, open_orders, limits>>
    BY <1>9 DEF ResetKillSwitchAfterHumanReview
  <2>2. RInv'
    BY <1>7, <2>1, QuietKeeps
  <2> QED BY <2>1, <2>2 DEF tripped
<1>10. ASSUME NEW l \in Locates, NEW b \in BOOLEAN, EnableSymbol(l, b) \/ SetHalted(l, b)
       PROVE  RInv' /\ kill_reason' = kill_reason /\ NoWorse
  <2>1. UNCHANGED <<slots, open_orders, kill_reason, limits>>
    BY <1>10 DEF EnableSymbol, SetHalted
  <2>2. /\ symbols' \in [Locates -> Symbol]
        /\ \A x \in Locates :
             /\ symbols'[x].position = symbols[x].position
             /\ symbols'[x].shares = symbols[x].shares
             /\ symbols'[x].orders = symbols[x].orders
             /\ symbols'[x].best = symbols[x].best
    <3> DEFINE z == symbols'[l]
    <3>1. \/ symbols' = [symbols EXCEPT ![l].enabled = b]
          \/ symbols' = [symbols EXCEPT ![l].halted = b]
      BY <1>10 DEF EnableSymbol, SetHalted
    <3>2. z = [symbols[l] EXCEPT !.enabled = b] \/ z = [symbols[l] EXCEPT !.halted = b]
      BY <1>7, <3>1
    <3>3. symbols' = [symbols EXCEPT ![l] = z]
      BY <1>7, <3>1
    <3> HIDE DEF z
    <3>4. symbols[l] \in Symbol
      BY <1>7
    <3>5. /\ z \in Symbol
          /\ z.position = symbols[l].position /\ z.shares = symbols[l].shares
          /\ z.orders = symbols[l].orders /\ z.best = symbols[l].best
      BY <3>2, <3>4 DEF Symbol
    <3> QED BY <1>7, <3>3, <3>5
  <2> QED BY <1>7, <2>1, <2>2, QuietKeeps
<1>11. ASSUME NEW l \in AllLimits, SetLimits(l)
       PROVE  RInv' /\ kill_reason' = kill_reason /\ NoWorse
  <2>1. /\ open_orders = 0 /\ limits' = l /\ slots' = EmptyTable
        /\ UNCHANGED <<symbols, open_orders, kill_reason>>
    BY <1>11 DEF SetLimits
  <2>2. Weight(Open, slots, One) = 0
    BY <2>1, StateFacts
  <2>3. \A x \in Locates, side \in Side :
          symbols[x].orders[side] = 0 /\ symbols[x].shares[side] = 0
    BY <2>2, StateFacts, TallyFacts DEF RInv, Tallied
  <2>4. TypeOK' /\ Tallied'
    BY <1>7, <2>1, <2>3, StateFacts, EmptyFacts DEF TypeOK, Tallied
  <2>5. open_orders' <= limits'.open_orders
    BY <2>1, RiskAssumption
  <2>6. BestBounds' /\ NoSelfCross'
    BY <2>1, EmptyFacts DEF BestBounds, NoSelfCross
  <2>7. WorstCaseWithinLimit'
    <3>1. \A x \in Locates, side \in Side : ~ symbols'[x].orders[side] > 0
      BY <2>1, <2>3
    <3> QED BY <3>1 DEF WorstCaseWithinLimit
  <2>8. NoWorse
    <3>1. "buy" \in Side /\ "sell" \in Side
      BY DEF Side
    <3> QED BY <2>1, <3>1, StateFacts DEF NoWorse, WorstLong, WorstShort
  <2> QED BY <1>7, <2>1, <2>4, <2>5, <2>6, <2>7, <2>8, EmptyFacts DEF RInv
<1>12. CASE Tick \/ UNCHANGED vars
  <2>1. UNCHANGED engine_vars
    BY <1>12 DEF Tick, vars
  <2> QED BY <1>7, <2>1, QuietKeeps DEF engine_vars
<1> QED BY <1>1, <1>4, <1>5, <1>6, <1>8, <1>9, <1>10, <1>11, <1>12, SMTT(30) DEF Next

-----------------------------------------------------------------------------
\* The invariant of the risk engine, whatever the exchange answers.
THEOREM RiskInvariant == Spec => []RInv
<1>1. Init => RInv
  BY InitHolds
<1>2. RInv /\ [Next]_vars => RInv'
  BY StepKeeps
<1> QED BY <1>1, <1>2, PTL DEF Spec

\* No probe chain is ever broken by the backward shift of erase_at: every open
\* order is found by its token, and an order that passed the checks has a slot.
THEOREM NoChainIsBroken == Spec => []EveryOrderIsFound
<1>1. RInv => EveryOrderIsFound
  <2> SUFFICES ASSUME RInv PROVE EveryOrderIsFound
    OBVIOUS
  <2>1. \A i \in Occupied(slots) : FindOpen(slots, slots[i].token) = i
    BY StateFacts, OrderFacts, FindOpenFacts
  <2> QED BY <2>1 DEF EveryOrderIsFound, RInv
<1> QED BY <1>1, RiskInvariant, PTL

\* The tallies that the checks of risk.hpp read are those of the orders in the
\* table, after any run of fills, cancels, overfills and rejects.
THEOREM TalliesAreExact == Spec => []ExposureExact
<1>1. RInv => ExposureExact
  <2> SUFFICES ASSUME RInv PROVE ExposureExact
    OBVIOUS
  <2>1. open_orders = Cardinality(Occupied(slots))
    BY StateFacts, VacancyFacts
  <2>2. ASSUME NEW l \in Locates, NEW side \in Side
        PROVE  /\ symbols[l].orders[side] = Cardinality(Working(l, side))
               /\ symbols[l].shares[side] =
                    SumFunction([i \in Working(l, side) |-> slots[i].leaves])
    <3> DEFINE W == Working(l, side)
               f == [i \in W |-> slots[i].leaves]
    <3>1. slots \in Table /\ W \in SUBSET Slots
      BY StateFacts DEF Working, Occupied
    <3>2. \A j \in Slots : slots[j] \in Order \/ slots[j] = Vacant
      BY <3>1 DEF Table
    <3>3. \A j \in W : OrdersOf(l, side)[slots[j]] = 1 /\ SharesOf(l, side)[slots[j]] = slots[j].leaves
      BY <3>1, <3>2, MeasureFacts DEF Working, Occupied
    <3>4. \A j \in Slots \ W : OrdersOf(l, side)[slots[j]] = 0 /\ SharesOf(l, side)[slots[j]] = 0
      BY <3>2, MeasureFacts DEF Working, Occupied
    <3>5. \A j \in W : f[j] = SharesOf(l, side)[slots[j]]
      BY <3>3
    <3>6. SumFunction(f) = SumFunctionOnSet(f, W)
      BY DEF SumFunction
    <3> HIDE DEF W, f
    <3>7. Weight(Open, slots, OrdersOf(l, side)) = Cardinality(W)
      BY <3>1, <3>3, <3>4, MeasureFacts, TallyOfSome
    <3>8. Weight(Open, slots, SharesOf(l, side)) = SumFunctionOnSet(f, W)
      BY <3>1, <3>4, <3>5, MeasureFacts, TallyOfSome
    <3>9. /\ symbols[l].orders[side] = Weight(Open, slots, OrdersOf(l, side))
          /\ symbols[l].shares[side] = Weight(Open, slots, SharesOf(l, side))
      BY DEF RInv, Tallied
    <3> QED BY <3>6, <3>7, <3>8, <3>9 DEF W, f
  <2> QED BY <2>1, <2>2 DEF ExposureExact
<1> QED BY <1>1, RiskInvariant, PTL

\* "How much it could own if every order it has outstanding were filled" never
\* passes the limit of a symbol with orders working.
THEOREM WorstCaseIsWithinLimit == Spec => []WorstCaseWithinLimit
<1>1. RInv => WorstCaseWithinLimit
  BY DEF RInv
<1> QED BY <1>1, RiskInvariant, PTL

\* The check against the best price of the other side "can never miss one that
\* would": no two of our orders cross.
THEOREM OwnOrdersNeverCross == Spec => []NoSelfCross
<1>1. RInv => NoSelfCross
  BY DEF RInv
<1> QED BY <1>1, RiskInvariant, PTL

\* Once the kill switch is tripped "nothing goes out": until a human resets it the
\* worst case of every symbol can only shrink.
THEOREM KillSwitchStopsOrders == Spec => KillSwitchHolds
<1>1. RInv /\ [Next]_vars =>
        [tripped /\ tripped' =>
           /\ kill_reason' = kill_reason
           /\ \A l \in Locates :
                WorstLong(l)' <= WorstLong(l) /\ WorstShort(l)' >= WorstShort(l)]_vars
  BY StepKeeps DEF NoWorse
<1> QED BY <1>1, RiskInvariant, PTL DEF Spec, KillSwitchHolds

-----------------------------------------------------------------------------
(***************************************************************************)
(* The rate limiter.  A bucket counts the messages of one stretch of time, *)
(* and no message is younger than the bucket in its slot.                  *)
(***************************************************************************)
BucketOf(t) == t \div BucketNs
SlotOf(t) == BucketOf(t) % Buckets

\* The ticks that the bucket in slot i counts.
Kept(i) == {t \in 0 .. MaxTime : SlotOf(t) = i /\ BucketOf(t) = index[i]}

RateType ==
  /\ now \in 0 .. MaxTime
  /\ index \in [Ring -> Nat]
  /\ count \in [Ring -> Nat]
  /\ sent_at \in [0 .. MaxTime -> Nat]

RateInv ==
  /\ RateType
  /\ \A i \in Ring : /\ index[i] <= Bucket
                     /\ index[i] % Buckets = i \/ index[i] = 0
                     /\ count[i] = SumFunctionOnSet(sent_at, Kept(i))
  /\ \A t \in 0 .. MaxTime :
       sent_at[t] # 0 => t <= now /\ BucketOf(t) <= index[SlotOf(t)]

\* A tick lies in its bucket.
LEMMA BucketFacts ==
  ASSUME NEW t \in Nat
  PROVE  /\ BucketOf(t) \in Nat /\ SlotOf(t) \in Ring
         /\ BucketNs * BucketOf(t) \in Nat
         /\ BucketNs * BucketOf(t) <= t /\ t < BucketNs * BucketOf(t) + BucketNs
<1>1. BucketNs \in Nat \ {0} /\ Buckets \in Nat \ {0}
  BY RateAssumption
<1> DEFINE q == t \div BucketNs
           r == t % BucketNs
<1>2. q \in Nat /\ r \in 0 .. BucketNs - 1 /\ t = BucketNs * q + r
  BY <1>1, Division
<1> HIDE DEF q, r
<1>3. q % Buckets \in 0 .. Buckets - 1
  BY <1>1, <1>2, Division
<1>4. BucketNs * q \in Nat
  BY <1>1, <1>2
<1>5. BucketNs * q <= t /\ t < BucketNs * q + BucketNs
  BY <1>1, <1>2, <1>4
<1> QED BY <1>2, <1>3, <1>4, <1>5 DEF BucketOf, SlotOf, Ring, q

\* A later tick lies in no earlier bucket.
LEMMA BucketsAscend ==
  ASSUME NEW s \in Nat, NEW t \in Nat, s <= t
  PROVE  BucketOf(s) <= BucketOf(t)
<1> DEFINE p == BucketOf(s)
           q == BucketOf(t)
<1>1. /\ p \in Nat /\ q \in Nat /\ BucketNs * p \in Nat /\ BucketNs * q \in Nat
      /\ BucketNs * p <= s /\ t < BucketNs * q + BucketNs
  BY BucketFacts
<1> HIDE DEF p, q
<1>2. BucketNs \in Nat
  BY RateAssumption
<1>3. ~ p > q
  <2> SUFFICES ASSUME p > q PROVE FALSE
    OBVIOUS
  <2>1. BucketNs * p >= BucketNs * q + BucketNs
    BY <1>1, <1>2, ProductGrows
  <2> QED BY <1>1, <1>2, <2>1
<1>4. p <= q
  BY <1>1, <1>3
<1> QED BY <1>4 DEF p, q

\* What is less than a lap of buckets ago is less than a lap of time ago, and what
\* is less than a lap of time but one bucket ago is less than a lap of buckets ago.
LEMMA LapsAgree ==
  ASSUME NEW t \in Nat, NEW n \in Nat
  PROVE  /\ BucketOf(n) < BucketOf(t) + Buckets => n - t < Buckets * BucketNs
         /\ n - t < (Buckets - 1) * BucketNs => BucketOf(n) < BucketOf(t) + Buckets
<1> DEFINE q == BucketOf(t)
           b == BucketOf(n)
           a == BucketNs * q
           d == BucketNs * b
           e == BucketNs * Buckets
           m == q + Buckets
<1>1. BucketNs \in Nat /\ Buckets \in Nat \ {0}
  BY RateAssumption
<1>2. /\ q \in Nat /\ b \in Nat /\ a \in Nat /\ d \in Nat
      /\ a <= t /\ t < a + BucketNs /\ d <= n /\ n < d + BucketNs
  BY BucketFacts
<1> HIDE DEF q, b
<1>3. /\ Buckets * BucketNs = e /\ (Buckets - 1) * BucketNs = e - BucketNs
      /\ e \in Nat /\ m \in Nat /\ BucketNs * m = a + e
  BY <1>1, <1>2
<1>4. ASSUME b < m PROVE d + BucketNs <= a + e
  <2>1. BucketNs * m >= BucketNs * b + BucketNs
    BY <1>1, <1>2, <1>3, <1>4, ProductGrows
  <2> QED BY <1>3, <2>1
<1>5. ASSUME ~ b < m PROVE d >= a + e
  <2>1. CASE b = m
    <3>1. d \in Nat /\ d = a + e
      BY <1>2, <1>3, <2>1
    <3> HIDE DEF d, a, e
    <3> QED BY <3>1
  <2>2. CASE b > m
    <3>1. BucketNs * b >= BucketNs * m + BucketNs
      BY <1>1, <1>2, <1>3, <2>2, ProductGrows
    <3>2. d >= a + e + BucketNs
      BY <1>3, <3>1
    <3> HIDE DEF d, a, e
    <3> QED BY <1>1, <1>2, <1>3, <3>2
  <2>3. b = m \/ b > m
    BY <1>2, <1>3, <1>5
  <2> QED BY <2>1, <2>2, <2>3
<1> HIDE DEF a, d, e
<1>6. b < m => n - t < e
  BY <1>1, <1>2, <1>3, <1>4
<1>7. n - t < e - BucketNs => b < m
  BY <1>1, <1>2, <1>3, <1>5
<1> QED BY <1>3, <1>6, <1>7 DEF q, b, m

\* The clock's ticks are finitely many.
LEMMA TicksFinite ==
  /\ IsFiniteSet(0 .. MaxTime) /\ 0 .. MaxTime \in SUBSET Nat
  /\ \A S \in SUBSET (0 .. MaxTime) : IsFiniteSet(S)
  /\ IsFiniteSet(Ring)
<1>1. MaxTime \in Int /\ Buckets - 1 \in Int
  BY RateAssumption
<1>2. IsFiniteSet(0 .. MaxTime) /\ IsFiniteSet(0 .. Buckets - 1)
  BY <1>1, FS_Interval
<1>3. \A S \in SUBSET (0 .. MaxTime) : IsFiniteSet(S)
  BY <1>2, FS_Subset
<1>4. 0 .. MaxTime \in SUBSET Nat
  OBVIOUS
<1> QED BY <1>2, <1>3, <1>4 DEF Ring

\* Nothing is counted before anything is sent.
LEMMA RateStarts == ASSUME RateInit PROVE RateInv
<1>1. MaxTime \in Nat /\ Buckets \in Nat \ {0}
  BY RateAssumption
<1>2. RateType
  BY <1>1 DEF RateInit, RateType
<1>3. Bucket \in Nat
  BY <1>2, BucketFacts DEF RateType, BucketOf, Bucket
<1>4. ASSUME NEW i \in Ring
      PROVE  /\ index[i] = 0
             /\ count[i] = SumFunctionOnSet(sent_at, Kept(i))
  <2>1. Kept(i) \in SUBSET (0 .. MaxTime)
    BY DEF Kept
  <2>2. IsFiniteSet(Kept(i)) /\ \A x \in Kept(i) : sent_at[x] = 0
    BY <2>1, TicksFinite DEF RateInit
  <2>3. SumFunctionOnSet(sent_at, Kept(i)) = 0
    BY <2>2, SumOfZeros
  <2> QED BY <2>3 DEF RateInit
<1>5. \A t \in 0 .. MaxTime : sent_at[t] = 0
  BY DEF RateInit
<1> QED BY <1>2, <1>3, <1>4, <1>5 DEF RateInv

\* A tick of the clock leaves every bucket what it counts.
LEMMA TickKeepsRate ==
  ASSUME RateInv, now < MaxTime, now' = now + 1, UNCHANGED rate_vars
  PROVE  RateInv'
<1>1. RateType /\ MaxTime \in Nat
  BY RateAssumption DEF RateInv
<1>2. now \in Nat /\ now' \in 0 .. MaxTime /\ now' \in Nat /\ now <= now'
  BY <1>1 DEF RateType
<1>3. RateType'
  BY <1>1, <1>2 DEF RateType, rate_vars
<1>4. BucketOf(now) \in Nat /\ BucketOf(now') \in Nat /\ BucketOf(now) <= BucketOf(now')
  BY <1>2, BucketFacts, BucketsAscend
<1>5. ASSUME NEW i \in Ring
      PROVE  /\ index'[i] <= Bucket'
             /\ index'[i] % Buckets = i \/ index'[i] = 0
             /\ count'[i] = SumFunctionOnSet(sent_at', Kept(i)')
  <2>1. index'[i] = index[i] /\ count'[i] = count[i] /\ sent_at' = sent_at /\ index[i] \in Nat
    BY <1>1 DEF rate_vars, RateType
  <2>2. Kept(i)' = Kept(i)
    BY <2>1 DEF Kept, BucketOf, SlotOf
  <2>3. index[i] <= BucketOf(now)
    BY DEF RateInv, Bucket, BucketOf
  <2>4. index'[i] <= BucketOf(now')
    BY <1>4, <2>1, <2>3
  <2>5. index'[i] <= Bucket'
    BY <2>4 DEF Bucket, BucketOf
  <2>6. /\ index[i] % Buckets = i \/ index[i] = 0
        /\ count[i] = SumFunctionOnSet(sent_at, Kept(i))
    BY DEF RateInv
  <2> QED BY <2>1, <2>2, <2>5, <2>6
<1>6. ASSUME NEW t \in 0 .. MaxTime, sent_at'[t] # 0
      PROVE  t <= now' /\ BucketOf(t)' <= index'[SlotOf(t)']
  <2>1. t <= now /\ BucketOf(t) <= index[SlotOf(t)]
    BY <1>6 DEF RateInv, rate_vars
  <2>2. t <= now'
    BY <1>2, <2>1
  <2> QED BY <2>1, <2>2 DEF rate_vars, BucketOf, SlotOf
<1>7. \A t \in 0 .. MaxTime : sent_at'[t] # 0 => t <= now' /\ BucketOf(t)' <= index'[SlotOf(t)']
  BY <1>6
<1> QED BY <1>3, <1>5, <1>7, Zenon DEF RateInv

\* A message is counted by the bucket of the tick it is sent at, which holds what
\* was sent before in the same bucket, or nothing of an earlier lap.
LEMMA RecordKeepsRate ==
  ASSUME RateInv, Record, now' = now
  PROVE  RateInv'
<1>0. PICK b, slot : b = BucketOf(now) /\ slot = SlotOf(now)
  OBVIOUS
<1> DEFINE one == IF index[slot] = b THEN count[slot] + 1 ELSE 1
<1>1. RateType /\ MaxTime \in Nat
  BY RateAssumption DEF RateInv
<1>2. now \in 0 .. MaxTime /\ now \in Nat
  BY <1>1 DEF RateType
<1>3. b \in Nat /\ slot \in Ring /\ slot = b % Buckets
  BY <1>0, <1>2, BucketFacts DEF SlotOf
<1>4. /\ index' = [index EXCEPT ![slot] = b]
      /\ count' = [count EXCEPT ![slot] = one]
      /\ sent_at' = [sent_at EXCEPT ![now] = @ + 1]
  <2>1. /\ index' = [index EXCEPT ![Bucket % Buckets] = Bucket]
        /\ count' = [count EXCEPT ![Bucket % Buckets] =
                       IF index[Bucket % Buckets] = Bucket
                         THEN count[Bucket % Buckets] + 1 ELSE 1]
        /\ sent_at' = [sent_at EXCEPT ![now] = @ + 1]
    BY DEF Record
  <2>2. Bucket = b /\ Bucket % Buckets = slot
    BY <1>0 DEF Bucket, BucketOf, SlotOf
  <2> QED BY <2>1, <2>2
<1>5. /\ one \in Nat
      /\ index \in [Ring -> Nat] /\ count \in [Ring -> Nat]
      /\ sent_at \in [0 .. MaxTime -> Nat]
  BY <1>1, <1>3 DEF RateType
<1> HIDE DEF one
<1>6. /\ \A i \in Ring : /\ index'[i] = IF i = slot THEN b ELSE index[i]
                         /\ count'[i] = IF i = slot THEN one ELSE count[i]
      /\ \A t \in 0 .. MaxTime :
           sent_at'[t] = IF t = now THEN sent_at[now] + 1 ELSE sent_at[t]
  BY <1>2, <1>3, <1>4, <1>5
<1>7. RateType'
  <2>1. index' \in [Ring -> Nat] /\ count' \in [Ring -> Nat]
    BY <1>3, <1>4, <1>5
  <2>2. sent_at' \in [0 .. MaxTime -> Nat]
    BY <1>2, <1>4, <1>5
  <2> QED BY <1>2, <2>1, <2>2 DEF RateType
<1>8. \A i \in Ring : /\ index[i] <= b
                      /\ index[i] % Buckets = i \/ index[i] = 0
                      /\ count[i] = SumFunctionOnSet(sent_at, Kept(i))
  BY <1>0 DEF RateInv, Bucket, BucketOf
<1>9. \A t \in 0 .. MaxTime :
        sent_at[t] # 0 => t <= now /\ BucketOf(t) <= index[SlotOf(t)]
  BY DEF RateInv
<1>10. \A t \in 0 .. MaxTime : BucketOf(t) \in Nat /\ SlotOf(t) \in Ring
  BY BucketFacts, TicksFinite
<1>11. \A i \in Ring : Kept(i)' = {t \in 0 .. MaxTime : SlotOf(t) = i /\ BucketOf(t) = index'[i]}
  BY DEF Kept, SlotOf, BucketOf
<1>12. count'[slot] = SumFunctionOnSet(sent_at', Kept(slot)')
  <2> DEFINE K == {t \in 0 .. MaxTime : SlotOf(t) = slot /\ BucketOf(t) = b}
  <2>a. index'[slot] = b /\ count'[slot] = one
    BY <1>3, <1>6
  <2>b. Kept(slot)' = {t \in 0 .. MaxTime : SlotOf(t) = slot /\ BucketOf(t) = index'[slot]}
    BY <1>3, <1>11, Zenon
  <2>1. Kept(slot)' = K /\ count'[slot] = one
    BY <2>a, <2>b
  <2>2. IsFiniteSet(K) /\ now \in K /\ \A t \in K : sent_at[t] \in Nat
    <3>1. K \in SUBSET (0 .. MaxTime)
      OBVIOUS
    <3>2. SlotOf(now) = slot /\ BucketOf(now) = b
      BY <1>0
    <3> QED BY <1>2, <1>5, <3>1, <3>2, TicksFinite
  <2>3. sent_at'[now] = sent_at[now] + 1 /\ \A t \in K \ {now} : sent_at'[t] = sent_at[t]
    BY <1>2, <1>6
  <2>4. CASE index[slot] = b
    <3>1. K = Kept(slot)
      BY <2>4 DEF Kept
    <3>2. one = SumFunctionOnSet(sent_at, K) + 1
      BY <1>3, <1>8, <2>4, <3>1 DEF one
    <3> HIDE DEF K
    <3>3. SumFunctionOnSet(sent_at', K) = SumFunctionOnSet(sent_at, K) + 1
      BY <2>2, <2>3, SumOneMore
    <3> QED BY <2>1, <3>2, <3>3
  <2>5. CASE index[slot] # b
    <3>1. \A t \in K : sent_at[t] = 0
      <4> SUFFICES ASSUME NEW t \in K, sent_at[t] # 0 PROVE FALSE
        OBVIOUS
      <4>1. t \in 0 .. MaxTime /\ SlotOf(t) = slot /\ BucketOf(t) = b
        OBVIOUS
      <4>2. b <= index[slot]
        BY <1>9, <4>1
      <4>3. index[slot] <= b /\ index[slot] \in Nat
        BY <1>3, <1>5, <1>8
      <4> QED BY <1>3, <2>5, <4>2, <4>3
    <3>2. one = 1
      BY <2>5 DEF one
    <3> HIDE DEF K
    <3>3. SumFunctionOnSet(sent_at', K) = SumFunctionOnSet(sent_at, K) + 1
      BY <2>2, <2>3, SumOneMore
    <3>4. SumFunctionOnSet(sent_at, K) = 0
      BY <2>2, <3>1, SumOfZeros
    <3> QED BY <2>1, <3>2, <3>3, <3>4
  <2> QED BY <2>4, <2>5
<1>13. ASSUME NEW i \in Ring
       PROVE  /\ index'[i] <= b
              /\ index'[i] % Buckets = i \/ index'[i] = 0
              /\ count'[i] = SumFunctionOnSet(sent_at', Kept(i)')
  <2>1. CASE i = slot
    <3>1. index'[i] = b
      BY <1>6, <2>1
    <3>2. Kept(slot)' = {t \in 0 .. MaxTime : SlotOf(t) = slot /\ BucketOf(t) = index'[slot]}
      BY <1>3, <1>11, Zenon
    <3>3. Kept(i)' = {t \in 0 .. MaxTime : SlotOf(t) = i /\ BucketOf(t) = index'[i]}
      BY <1>11, Zenon
    <3>4. Kept(i)' = Kept(slot)'
      BY <2>1, <3>2, <3>3
    <3>5. count'[i] = SumFunctionOnSet(sent_at', Kept(i)')
      BY <1>12, <2>1, <3>4
    <3>6. b % Buckets = i
      BY <1>3, <2>1
    <3> QED BY <1>3, <3>1, <3>5, <3>6
  <2>2. CASE i # slot
    <3>1. index'[i] = index[i] /\ count'[i] = count[i]
      BY <1>6, <2>2
    <3>2. Kept(i)' = Kept(i)
      BY <1>11, <3>1 DEF Kept
    <3>3. Kept(i) \in SUBSET (0 .. MaxTime) /\ now \notin Kept(i)
      BY <1>0, <2>2 DEF Kept
    <3>4. \A t \in Kept(i) : sent_at[t] = sent_at'[t]
      BY <1>6, <3>3
    <3>5. IsFiniteSet(Kept(i))
      BY <3>3, TicksFinite
    <3>6. SumFunctionOnSet(sent_at, Kept(i)) = SumFunctionOnSet(sent_at', Kept(i))
      BY <3>4, <3>5, SumFacts
    <3> QED BY <1>8, <3>1, <3>2, <3>6
  <2> QED BY <2>1, <2>2
<1>14. ASSUME NEW t \in 0 .. MaxTime, sent_at'[t] # 0
       PROVE  t <= now /\ BucketOf(t) <= index'[SlotOf(t)]
  <2>1. CASE t = now
    <3>1. BucketOf(t) = b /\ SlotOf(t) = slot
      BY <1>0, <2>1
    <3>2. index'[slot] = b
      BY <1>3, <1>6
    <3> QED BY <1>2, <1>3, <2>1, <3>1, <3>2
  <2>2. CASE t # now
    <3>1. t <= now /\ BucketOf(t) <= index[SlotOf(t)]
      BY <1>6, <1>9, <1>14, <2>2
    <3>2. SlotOf(t) \in Ring /\ BucketOf(t) \in Nat /\ index[SlotOf(t)] \in Nat
      BY <1>5, <1>10
    <3>3. index[SlotOf(t)] <= index'[SlotOf(t)]
      <4> DEFINE i == SlotOf(t)
      <4>1. i \in Ring /\ index[i] \in Nat /\ index[i] <= b
        BY <1>8, <3>2
      <4> HIDE DEF i
      <4>2. index'[i] = b \/ index'[i] = index[i]
        BY <1>6, <4>1
      <4>3. index[i] <= index'[i]
        BY <1>3, <4>1, <4>2
      <4> QED BY <4>3 DEF i
    <3>4. index'[SlotOf(t)] \in Nat
      BY <1>7, <3>2 DEF RateType
    <3>5. BucketOf(t) <= index'[SlotOf(t)]
      BY <3>1, <3>2, <3>3, <3>4
    <3> QED BY <3>1, <3>5
  <2> QED BY <2>1, <2>2
<1>15. /\ now' = now /\ Bucket' = b
       /\ \A t \in 0 .. MaxTime : BucketOf(t)' = BucketOf(t) /\ SlotOf(t)' = SlotOf(t)
  BY <1>0 DEF Bucket, BucketOf, SlotOf
<1>16. /\ \A i \in Ring : /\ index'[i] <= Bucket'
                          /\ index'[i] % Buckets = i \/ index'[i] = 0
                          /\ count'[i] = SumFunctionOnSet(sent_at', Kept(i)')
       /\ \A t \in 0 .. MaxTime :
            sent_at'[t] # 0 => t <= now' /\ BucketOf(t)' <= index'[SlotOf(t)']
  BY <1>13, <1>14, <1>15
<1> QED BY <1>7, <1>16, Zenon DEF RateInv

\* The live buckets count what was sent less than a lap ago, all of it but what
\* was sent in the last of the lap's buckets, and nothing older.
LEMMA LiveBucketsAreHonest == ASSUME RateInv PROVE WindowIsHonest
<1> DEFINE T == 0 .. MaxTime
           part == [t \in T |-> IF BucketOf(t) = index[SlotOf(t)] THEN SlotOf(t) ELSE - 1]
           U == {t \in T : part[t] \in Live}
           Recent == {t \in 0 .. now : now - t < (Buckets - 1) * BucketNs}
           Far == {t \in 0 .. now : now - t < Buckets * BucketNs}
           Sent(S) == {t \in S : sent_at[t] # 0}
<1>1. RateType /\ MaxTime \in Nat /\ Buckets \in Nat \ {0}
  BY RateAssumption DEF RateInv
<1>2. /\ now \in T /\ now \in Nat
      /\ index \in [Ring -> Nat] /\ count \in [Ring -> Nat] /\ sent_at \in [T -> Nat]
  BY <1>1 DEF RateType
<1>3. \A t \in T : t \in Nat /\ BucketOf(t) \in Nat /\ SlotOf(t) \in Ring
  BY BucketFacts, TicksFinite
<1>4. Bucket = BucketOf(now)
  BY DEF Bucket, BucketOf
<1>5. \A S \in SUBSET T : IsFiniteSet(S) /\ \A t \in S : sent_at[t] \in Nat
  BY <1>2, TicksFinite
<1>6. Recent \in SUBSET T /\ Far \in SUBSET T /\ U \in SUBSET T
  BY <1>1, <1>2
<1>7. CountAt = SumFunctionOnSet(sent_at, U)
  <2>1. Live \in SUBSET Ring
    BY DEF Live
  <2>2. IsFiniteSet(Live)
    BY <2>1, TicksFinite, FS_Subset
  <2>3. ASSUME NEW i \in Live
        PROVE  \E K \in SUBSET T : /\ \A t \in T : t \in K <=> part[t] = i
                                   /\ count[i] = SumFunctionOnSet(sent_at, K)
    <3>1. i \in Ring /\ i # -1
      BY <1>1, <2>1 DEF Ring
    <3>2. Kept(i) \in SUBSET T /\ \A t \in T : t \in Kept(i) <=> part[t] = i
      BY <3>1 DEF Kept
    <3> QED BY <3>1, <3>2 DEF RateInv
  <2>4. IsFiniteSet(T) /\ \A t \in T : sent_at[t] \in Nat
    BY <1>5
  <2>6. U \in SUBSET T /\ \A t \in T : t \in U <=> part[t] \in Live
    OBVIOUS
  <2> HIDE DEF T, part, U
  <2>5. SumFunctionOnSet(count, Live) = SumFunctionOnSet(sent_at, U)
    BY <2>2, <2>3, <2>4, <2>6, SumOfParts
  <2> QED BY <2>5 DEF CountAt
<1>8. ASSUME NEW t \in U
      PROVE  now - t < Buckets * BucketNs
  <2>1. t \in T /\ part[t] \in Live /\ part[t] \in Ring
    BY DEF Live
  <2>2. BucketOf(t) = index[SlotOf(t)] /\ SlotOf(t) \in Live
    <3>1. \A i \in Ring : i # - 1
      BY <1>1 DEF Ring
    <3> QED BY <2>1, <3>1
  <2>3. BucketOf(now) < BucketOf(t) + Buckets
    <3>1. index[SlotOf(t)] + Buckets > Bucket
      BY <2>2 DEF Live
    <3>2. index[SlotOf(t)] \in Nat /\ BucketOf(now) \in Nat
      BY <1>2, <1>3, <2>1
    <3> QED BY <1>1, <1>4, <2>2, <3>1, <3>2
  <2> QED BY <1>2, <1>3, <2>1, <2>3, LapsAgree
<1>9. Sent(U) \in SUBSET Far
  <2> SUFFICES ASSUME NEW t \in Sent(U) PROVE t \in Far
    OBVIOUS
  <2>1. t \in T /\ t \in U /\ sent_at[t] # 0
    OBVIOUS
  <2>2. t <= now
    BY <2>1 DEF RateInv
  <2>3. t \in 0 .. now
    BY <1>2, <1>3, <2>1, <2>2
  <2> QED BY <1>8, <2>1, <2>3
<1>10. Sent(Recent) \in SUBSET U
  <2> SUFFICES ASSUME NEW t \in Sent(Recent) PROVE t \in U
    OBVIOUS
  <2> DEFINE k == BucketOf(t)
             i == SlotOf(t)
  <2>1. t \in T /\ sent_at[t] # 0 /\ now - t < (Buckets - 1) * BucketNs
    BY <1>6
  <2>2. k \in Nat /\ i \in Ring /\ i = k % Buckets /\ t \in Nat
    BY <1>3, <2>1 DEF SlotOf
  <2>3. BucketOf(now) < k + Buckets
    BY <1>2, <2>1, <2>2, LapsAgree
  <2>4. k <= index[i] /\ index[i] <= BucketOf(now)
    BY <1>4, <2>1, <2>2 DEF RateInv
  <2>5. index[i] % Buckets = i \/ index[i] = 0
    BY <2>2 DEF RateInv
  <2>6. index[i] \in Nat /\ BucketOf(now) \in Nat
    BY <1>2, <1>3, <2>2
  <2>7. part[t] = IF k = index[i] THEN i ELSE - 1
    BY <2>1
  <2>8. Live = {j \in Ring : index[j] <= BucketOf(now) /\ index[j] + Buckets > BucketOf(now)}
    BY <1>4 DEF Live
  <2> HIDE DEF k, i
  <2>9. index[i] = k
    <3> DEFINE x == index[i]
    <3> SUFFICES ASSUME x # k PROVE FALSE
      OBVIOUS
    <3>1. x \in Nat /\ k < x /\ x < k + Buckets /\ (x % Buckets = i \/ x = 0)
      BY <1>1, <2>2, <2>3, <2>4, <2>5, <2>6
    <3> HIDE DEF x
    <3>2. x % Buckets = k % Buckets
      BY <2>2, <3>1
    <3>3. k % Buckets # x % Buckets
      BY <1>1, <2>2, <3>1, SlotsDiffer
    <3> QED BY <3>2, <3>3
  <2>10. i \in Live
    BY <1>1, <2>2, <2>3, <2>4, <2>6, <2>8, <2>9
  <2>11. part[t] \in Live
    BY <2>7, <2>9, <2>10
  <2> QED BY <2>1, <2>11
<1>11. \A S \in SUBSET T : /\ Sent(S) \in SUBSET T
                           /\ SumFunctionOnSet(sent_at, S) = SumFunctionOnSet(sent_at, Sent(S))
  <2> TAKE S \in SUBSET T
  <2>1. Sent(S) \in SUBSET S /\ \A t \in S \ Sent(S) : sent_at[t] = 0
    OBVIOUS
  <2>2. IsFiniteSet(S) /\ \A t \in S : sent_at[t] \in Nat
    BY <1>5
  <2> HIDE DEF Sent
  <2>3. SumFunctionOnSet(sent_at, S) = SumFunctionOnSet(sent_at, Sent(S))
    BY <2>1, <2>2, SumOfSome
  <2> QED BY <2>1, <2>3
<1>12. SentWithin((Buckets - 1) * BucketNs) = SumFunctionOnSet(sent_at, Recent)
  BY DEF SentWithin
<1>13. SentWithin(Buckets * BucketNs) = SumFunctionOnSet(sent_at, Far)
  BY DEF SentWithin
<1> HIDE DEF T, Recent, Far, U, Sent
<1>14. SumFunctionOnSet(sent_at, Sent(Recent)) <= SumFunctionOnSet(sent_at, U)
  BY <1>5, <1>6, <1>10, SumGrows
<1>15. SumFunctionOnSet(sent_at, Sent(U)) <= SumFunctionOnSet(sent_at, Far)
  BY <1>5, <1>6, <1>9, SumGrows
<1> QED BY <1>6, <1>7, <1>11, <1>12, <1>13, <1>14, <1>15 DEF WindowIsHonest

\* What neither sends nor moves the clock leaves the limiter alone.
LEMMA RestKeepsRate ==
  ASSUME RateInv, UNCHANGED <<now, rate_vars>>
  PROVE  RateInv'
<1>1. now' = now /\ index' = index /\ count' = count /\ sent_at' = sent_at
  BY DEF rate_vars
<1>2. \A i \in Ring : Kept(i)' = Kept(i)
  BY <1>1 DEF Kept, BucketOf, SlotOf
<1>3. RateType' /\ Bucket' = Bucket
  BY <1>1 DEF RateInv, RateType, Bucket
<1>4. \A t \in 0 .. MaxTime : BucketOf(t)' = BucketOf(t) /\ SlotOf(t)' = SlotOf(t)
  BY DEF BucketOf, SlotOf
<1> QED BY <1>1, <1>2, <1>3, <1>4 DEF RateInv

\* An order that goes out is recorded, a tick moves the clock, and no other step
\* of the engine touches the limiter.
LEMMA LimiterSteps ==
  ASSUME [Next]_vars
  PROVE  \/ Record /\ now' = now
         \/ now < MaxTime /\ now' = now + 1 /\ UNCHANGED rate_vars
         \/ UNCHANGED <<now, rate_vars>>
<1>1. ASSUME NEW r \in Request, SendOrder(r)
      PROVE  (Record /\ now' = now) \/ UNCHANGED <<now, rate_vars>>
  <2>1. CASE SlotFor(slots, r.token) = NoSlot
    BY <1>1, <2>1 DEF SendOrder
  <2>2. CASE SlotFor(slots, r.token) # NoSlot
    BY <1>1, <2>2 DEF SendOrder
  <2> QED BY <2>1, <2>2
<1>2. ASSUME NEW t \in Tokens, NEW n \in Answered,
             OnFill(t, n) \/ OnCancelAcked(t, n) \/ OnReject(t)
      PROVE  UNCHANGED <<now, rate_vars>>
  BY <1>2 DEF OnFill, OnCancelAcked, OnReject, Reduce
<1>3. ASSUME NEW t \in Tokens, OnReject(t)
      PROVE  UNCHANGED <<now, rate_vars>>
  BY <1>3 DEF OnReject, Reduce
<1>4. ASSUME TripKillSwitch("operator") \/ ResetKillSwitchAfterHumanReview
      PROVE  UNCHANGED <<now, rate_vars>>
  BY <1>4 DEF TripKillSwitch, ResetKillSwitchAfterHumanReview
<1>5. ASSUME NEW l \in Locates, NEW b \in BOOLEAN, EnableSymbol(l, b) \/ SetHalted(l, b)
      PROVE  UNCHANGED <<now, rate_vars>>
  BY <1>5 DEF EnableSymbol, SetHalted
<1>6. ASSUME NEW l \in AllLimits, SetLimits(l)
      PROVE  UNCHANGED <<now, rate_vars>>
  BY <1>6 DEF SetLimits
<1>7. CASE Tick
  BY <1>7 DEF Tick
<1>8. CASE UNCHANGED vars
  BY <1>8 DEF vars
<1>9. \A n \in Answered \ {0} : n \in Answered
  OBVIOUS
<1> HIDE DEF Answered
<1> QED BY <1>1, <1>2, <1>3, <1>4, <1>5, <1>6, <1>7, <1>8, <1>9, SMTT(30) DEF Next

\* What count_at counts covers the last nine of its ten buckets whole, and nothing
\* that is a second old: the laps of the ring never mix, although no bucket is ever
\* cleared.
THEOREM RateWindowIsHonest == Spec => []WindowIsHonest
<1>1. Init => RateInv
  BY RateStarts DEF Init
<1>2. RateInv /\ [Next]_vars => RateInv'
  BY LimiterSteps, RecordKeepsRate, TickKeepsRate, RestKeepsRate
<1>3. RateInv => WindowIsHonest
  BY LiveBucketsAreHonest
<1> QED BY <1>1, <1>2, <1>3, PTL DEF Spec
=============================================================================
