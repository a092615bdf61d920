----------------------------- MODULE BookBuilder -----------------------------
(***************************************************************************)
(* The order books of include/tick/book_builder.hpp: three structures that *)
(* have to agree, the table from references to orders, the pool the orders *)
(* live in, and the price levels they are linked into.                     *)
(*                                                                         *)
(* Each message is one step.  Any message may come at any time, because    *)
(* what a gap has swallowed is not known to the book: it can be about an   *)
(* order that never came, that is gone, or that has fewer shares.          *)
(*                                                                         *)
(* A price level is the set of the orders linked into it and the total it  *)
(* keeps of their shares; a level that is not there is Absent.  The side   *)
(* containers of book_side.hpp are functions of the price.  Messages that  *)
(* count volume and touch no order are left out.                           *)
(***************************************************************************)
EXTENDS FlatOrderMap, Functions

CONSTANTS
  Refs,           \* order references, from one on
  Locates,        \* symbols
  Prices,
  Shares,         \* sizes of orders, positive
  Objects,        \* the storage of the pool, for one order each
  MapCapacity,    \* capacity of the order map at the start
  Free,           \* an object of the pool that is not allocated
  Absent,         \* a price level that does not exist
  ReusesLive      \* whether a replace may name a reference that rests

VARIABLE book   \* [orders, pool, levels, live_orders]

Side == {"buy", "sell"}
Order == [locate : Locates, side : Side, price : Prices, qty : Shares]
LevelKey == Locates \X Side \X Prices
LevelOf(o) == <<o.locate, o.side, o.price>>

\* What the constants are: storage is finite, and an entry of the table, an
\* order and a level are told from their absence.
ASSUME BookAssumption ==
  /\ MapCapacity \in Nat \ {0}
  /\ Hash \in [Refs -> Nat]
  /\ Shares \subseteq Nat \ {0}
  /\ IsFiniteSet(Objects)
  /\ Empty \notin [key : Refs, val : Objects]
  /\ Free \notin [locate : Locates, side : Side, price : Prices, qty : Nat \ {0}]
  /\ Absent \notin [orders : SUBSET Objects, total : Nat]

Resting(b, r) == Has(b.orders, r)
OrderAt(b, r) == b.pool[Get(b.orders, r)]

\* remove_order(): unlink from the level, drop the level when it is empty,
\* forget the reference, give the storage back.
RemoveOrder(b, r) ==
  LET object == Get(b.orders, r)
      o == b.pool[object]
      level == b.levels[LevelOf(o)]
      left == level.orders \ {object}
  IN  [orders |-> Erase(b.orders, r),
       pool |-> [b.pool EXCEPT ![object] = Free],
       levels |-> IF level = Absent THEN b.levels
                  ELSE [b.levels EXCEPT ![LevelOf(o)] =
                          IF left = {} THEN Absent
                          ELSE [orders |-> left, total |-> level.total - o.qty]],
       live_orders |-> b.live_orders - 1]

\* Allocate an order, link it into its level, creating that when it is not
\* there, and give it the reference.  Without room the message is dropped.
PlaceOrder(b, r, o) ==
  LET available == {object \in Objects : b.pool[object] = Free}
      object == CHOOSE x \in available : TRUE
      level == b.levels[LevelOf(o)]
  IN  IF available = {} THEN b
      ELSE [orders |-> Insert(b.orders, r, object),
            pool |-> [b.pool EXCEPT ![object] = o],
            levels |-> [b.levels EXCEPT ![LevelOf(o)] =
                          IF level = Absent
                            THEN [orders |-> {object}, total |-> o.qty]
                            ELSE [orders |-> level.orders \cup {object},
                                  total |-> level.total + o.qty]],
            live_orders |-> b.live_orders + 1]

\* Fault: the level keeps the shares the order has lost.
ReduceOrderOnly(b, r, n) ==
  LET object == Get(b.orders, r)
      o == b.pool[object]
  IN  IF n >= o.qty THEN RemoveOrder(b, r)
      ELSE [b EXCEPT !.pool[object].qty = @ - n]

\* reduce(): take shares off an order, all of it when nothing would be left.
Reduce(b, r, n) ==
  LET object == Get(b.orders, r)
      o == b.pool[object]
  IN  IF n >= o.qty THEN RemoveOrder(b, r)
      ELSE [b EXCEPT !.pool[object].qty = @ - n, !.levels[LevelOf(o)].total = @ - n]

-----------------------------------------------------------------------------
\* Fault: an order that has the reference already is leaked.
LeaveDuplicate(b, r) == b

\* An add for a reference that rests abandons the order that had it.
Abandon(b, r) == IF Resting(b, r) THEN RemoveOrder(b, r) ELSE b

Add(b, r, o) == PlaceOrder(Abandon(b, r), r, o)

\* Fault: a replacement takes the side of the book's other half.
ReplacementCrosses(o, price, qty) ==
  [o EXCEPT !.side = CHOOSE s \in Side : s # o.side, !.price = price, !.qty = qty]

\* The side and the symbol come from the order being replaced.
Replacement(o, price, qty) == [o EXCEPT !.price = price, !.qty = qty]

Replace(b, r, q, price, qty) ==
  PlaceOrder(RemoveOrder(b, r), q, Replacement(OrderAt(b, r), price, qty))

-----------------------------------------------------------------------------
OnAdd(r, o) == book' = Add(book, r, o)

\* on_execute, on_execute_price and on_cancel; a message about an order that
\* does not rest is an orphan, and is only counted.
OnTake(r, n) ==
  /\ Resting(book, r)
  /\ book' = Reduce(book, r, n)

OnDelete(r) ==
  /\ Resting(book, r)
  /\ book' = RemoveOrder(book, r)

OnReplace(r, q, price, qty) ==
  /\ Resting(book, r)
  /\ ReusesLive \/ q = r \/ ~ Resting(book, q)
  /\ book' = Replace(book, r, q, price, qty)

EmptyBook ==
  [orders |-> EmptyMap(MapCapacity),
   pool |-> [object \in Objects |-> Free],
   levels |-> [key \in LevelKey |-> Absent],
   live_orders |-> 0]

BookInit == book = EmptyBook

BookNext ==
  \/ \E r \in Refs, o \in Order : OnAdd(r, o)
  \/ \E r \in Refs, n \in Shares : OnTake(r, n)
  \/ \E r \in Refs : OnDelete(r)
  \/ \E r, q \in Refs, price \in Prices, qty \in Shares : OnReplace(r, q, price, qty)

BookSpec == BookInit /\ [][BookNext]_book

-----------------------------------------------------------------------------
\* A probe finds every reference and comes to an end, and the count that
\* decides growth is right, after any run of inserts, backward shifts and
\* growths.
EveryReferenceIsFound ==
  LET map == book.orders
  IN  /\ \A i \in Used(map) : ProbeFor(map, map.slots[i].key) = i
      /\ map.size = Cardinality(Used(map))
      /\ map.size < Capacity(map)

\* The references that rest, with the order each leads to.
Rest(b) == [r \in {r \in Refs : Resting(b, r)} |-> OrderAt(b, r)]

\* Each level shows exactly the orders that rest at its price, with the total
\* of their shares, a level without any is gone, and no order is held in the
\* pool that no reference leads to: nothing is leaked and no liquidity invented.
LevelsAreTheOrders ==
  LET rest == Rest(book)
      lead == [r \in DOMAIN rest |-> Get(book.orders, r)]
      at(key) == {r \in DOMAIN rest : LevelOf(rest[r]) = key}
  IN  /\ \A key \in LevelKey :
           book.levels[key] =
             IF at(key) = {} THEN Absent
             ELSE [orders |-> {lead[r] : r \in at(key)},
                   total |-> SumFunctionOnSet([r \in DOMAIN rest |-> rest[r].qty], at(key))]
      /\ {object \in Objects : book.pool[object] # Free} = {lead[r] : r \in DOMAIN rest}
      /\ IsInjective(lead)
      /\ book.live_orders = Cardinality(DOMAIN rest)

\* What the feed says the orders are, with no table, no pool and no levels in it.
Without(rest, r) == Restrict(rest, DOMAIN rest \ {r})
With(rest, r, o) ==
  IF Cardinality(DOMAIN rest) = Cardinality(Objects) THEN rest
  ELSE [x \in DOMAIN rest \cup {r} |-> IF x = r THEN o ELSE rest[x]]

\* What messages do to a book: each changes the orders that rest as the feed says
\* it does and no others.  The order it is about, or the one whose reference it
\* reuses, is the one that goes, shrinks or moves.
MessagesMeanWhatTheySay(b) ==
  LET rest == Rest(b)
  IN  /\ \A r \in Refs :
           LET others == Without(rest, r)
           IN  \A o \in Order : Rest(Add(b, r, o)) = With(others, r, o)
      /\ \A r \in DOMAIN rest :
           /\ Rest(RemoveOrder(b, r)) = Without(rest, r)
           /\ \A n \in Shares :
                Rest(Reduce(b, r, n)) =
                  IF n >= rest[r].qty THEN Without(rest, r)
                  ELSE [rest EXCEPT ![r].qty = @ - n]
           /\ \A q \in (Refs \ DOMAIN rest) \cup {r}, price \in Prices, qty \in Shares :
                Rest(Replace(b, r, q, price, qty)) =
                  With(Without(rest, r), q,
                       [locate |-> rest[r].locate, side |-> rest[r].side,
                        price |-> price, qty |-> qty])

\* In every book the day can lead to, each message means what it says.  Of the
\* book the day starts with it is a fact of the constants, and is asked as one.
FeedIsObeyed == book # EmptyBook => MessagesMeanWhatTheySay(book)
=============================================================================
