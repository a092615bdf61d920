--------------------------- MODULE OpenOrderTable ---------------------------
(***************************************************************************)
(* The table of open orders inside the risk engine of include/tick/risk.hpp: *)
(* open addressing with linear probing, and deletion by backward shift, so *)
(* that a probe may stop at the first slot that is not occupied.           *)
(*                                                                         *)
(* A table is a function from slots to entries or Vacant; an entry is a    *)
(* record with a token.  The hash is a constant: any function will do.     *)
(***************************************************************************)
EXTENDS Integers, FiniteSetsExt

CONSTANTS
  Tokens,   \* tokens of orders
  Size,     \* slots in the table
  Home,     \* where the probe for each token starts
  Vacant    \* a slot that is not occupied

ASSUME TableAssumption ==
  /\ Size \in Nat \ {0}
  /\ Home \in [Tokens -> 0 .. Size - 1]

Slots == 0 .. Size - 1
NoSlot == Size
EmptyTable == [i \in Slots |-> Vacant]
Occupied(table) == {i \in Slots : table[i] # Vacant}

\* Where a probe for token t ends: at t, or at the first slot not occupied.
Probe(table, t) ==
  LET at(d) == (Home[t] + d) % Size
      ends == {d \in Slots : table[at(d)] = Vacant \/ table[at(d)].token = t}
  IN  at(Min(ends))

\* find_open().
FindOpen(table, t) ==
  LET i == Probe(table, t) IN IF table[i] = Vacant THEN NoSlot ELSE i

\* insert_open(): the slot the entry goes to, or NoSlot when its token is there
\* already or the table is full.
SlotFor(table, t) ==
  IF Occupied(table) = Slots \/ FindOpen(table, t) # NoSlot
    THEN NoSlot ELSE Probe(table, t)

\* Fault: the wrap around the end of the table is forgotten.
MovableUnwrapped(hole, j, k) == k <= hole \/ k > j

\* The entry of slot j, whose probe starts at k, would be found in the hole.
Movable(hole, j, k) ==
  IF j >= hole THEN k <= hole \/ k > j ELSE k <= hole /\ k > j

\* The hole is filled by the entry of slot j, when that may move.
Fall(was, j) ==
  IF Movable(was.hole, j, Home[was.table[j].token])
    THEN [hole |-> j,
          table |-> [was.table EXCEPT ![was.hole] = was.table[j], ![j] = Vacant]]
    ELSE was

\* erase_at(): walk the cluster behind i, and let each entry that may move fall
\* into the hole, which is then where it was.
EraseAt(table, i) ==
  LET at(d) == (i + d) % Size
      run == Min({d \in 1 .. Size - 1 : table[at(d)] = Vacant} \cup {Size})
      walk[d \in 0 .. run - 1] ==
        IF d = 0 THEN [hole |-> i, table |-> [table EXCEPT ![i] = Vacant]]
                 ELSE Fall(walk[d - 1], at(d))
  IN  walk[run - 1].table
=============================================================================
