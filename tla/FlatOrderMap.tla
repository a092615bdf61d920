---------------------------- MODULE FlatOrderMap ----------------------------
(***************************************************************************)
(* The order reference table of include/tick/flat_order_map.hpp: open      *)
(* addressing with linear probing, deletion by backward shift, and growth  *)
(* before the table is more than six tenths full.                          *)
(*                                                                         *)
(* A map is [slots, size]: slots is a function from 0 .. capacity - 1 to   *)
(* [key, val] or Empty, size is the counter size_ that decides growth.     *)
(***************************************************************************)
EXTENDS Integers, FiniteSetsExt

CONSTANTS
  Hash,   \* the hash of each key
  Empty   \* a slot whose key is kEmptyKey

Capacity(map) == Cardinality(DOMAIN map.slots)
Used(map) == {i \in DOMAIN map.slots : map.slots[i] # Empty}
MaxFill(map) == (Capacity(map) * 6) \div 10
EmptyMap(capacity) == [slots |-> [i \in 0 .. capacity - 1 |-> Empty], size |-> 0]

\* slot(): where the probe for a key starts.
Ideal(map, key) == Hash[key] % Capacity(map)

\* Where it ends: at the key, or at the first empty slot.
ProbeFor(map, key) ==
  LET start == Ideal(map, key)
      size == Capacity(map)
      at(d) == (start + d) % size
      ends == {d \in DOMAIN map.slots :
                 map.slots[at(d)] = Empty \/ map.slots[at(d)].key = key}
  IN  at(Min(ends))

Has(map, key) == map.slots[ProbeFor(map, key)] # Empty
Get(map, key) == map.slots[ProbeFor(map, key)].val

\* insert() into a table that need not grow: a value is overwritten, or the
\* key takes the empty slot.
Put(map, key, val) ==
  LET slot == ProbeFor(map, key)
  IN  [slots |-> [map.slots EXCEPT ![slot] = [key |-> key, val |-> val]],
       size |-> IF map.slots[slot] = Empty THEN map.size + 1 ELSE map.size]

\* grow(): a table of twice the capacity, filled in the order of the old slots.
Grow(map) ==
  LET filled[n \in 0 .. Capacity(map)] ==
        IF n = 0 THEN EmptyMap(2 * Capacity(map))
        ELSE IF map.slots[n - 1] = Empty THEN filled[n - 1]
        ELSE Put(filled[n - 1], map.slots[n - 1].key, map.slots[n - 1].val)
  IN  filled[Capacity(map)]

Insert(map, key, val) ==
  Put(IF map.size + 1 > MaxFill(map) THEN Grow(map) ELSE map, key, val)

\* Fault: an entry that belongs in the hole itself is left behind.
BetweenClosed(lo, x, hi) ==
  IF lo <= hi THEN lo <= x /\ x <= hi ELSE lo <= x \/ x <= hi

\* cyclically_between().
CyclicallyBetween(lo, x, hi) ==
  IF lo <= hi THEN lo < x /\ x <= hi ELSE lo < x \/ x <= hi

\* The hole is filled by the entry of slot j, unless its probe starts behind the
\* hole: the entry would not be found there.
Fall(map, was, j) ==
  IF CyclicallyBetween(was.hole, Ideal(map, was.table[j].key), j) THEN was
  ELSE [hole |-> j,
        table |-> [was.table EXCEPT ![was.hole] = was.table[j], ![j] = Empty]]

\* erase(): walk the cluster behind the key, and let what may fall into the hole
\* do so.
Erase(map, key) ==
  LET i == ProbeFor(map, key)
      at(d) == (i + d) % Capacity(map)
      run == Min({d \in 1 .. Capacity(map) : map.slots[at(d)] = Empty})
      walk[d \in 0 .. run - 1] ==
        IF d = 0 THEN [hole |-> i, table |-> [map.slots EXCEPT ![i] = Empty]]
                 ELSE Fall(map, walk[d - 1], at(d))
  IN  [slots |-> walk[run - 1].table, size |-> map.size - 1]
=============================================================================
