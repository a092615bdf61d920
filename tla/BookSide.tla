------------------------------ MODULE BookSide ------------------------------
(***************************************************************************)
(* book_side.hpp: one side of a book held twice, as MapSide (a tree        *)
(* ordered best first) and as VectorSide (a sorted vector searched by      *)
(* halving), under the same calls.  A level is its price and what the      *)
(* builder wrote through the reference it was handed.                      *)
(***************************************************************************)
EXTENDS Integers, Sequences, SequencesExt, FiniteSetsExt

CONSTANTS SidePrices, Quantities      \* the quantity 0 is a level just created

ASSUME SideAssumption == SidePrices \subseteq Int

VARIABLES isBid, tree, vector

sideVars == <<isBid, tree, vector>>

\* before: the order of both sides, best price first.
Before(a, b) == IF isBid THEN a > b ELSE a < b

\* Fault: the comparison is not strict.
LocateAfterEqual(p) ==
    Min({i \in 1..Len(vector) : ~(Before(vector[i].price, p) \/ vector[i].price = p)}
            \union {Len(vector) + 1})

\* locate: std::lower_bound, the first level the price does not come after.
Locate(p) ==
    Min({i \in 1..Len(vector) : ~Before(vector[i].price, p)} \union {Len(vector) + 1})

Holds(i, p) == i <= Len(vector) /\ vector[i].price = p

SideInit == isBid \in BOOLEAN /\ tree = <<>> /\ vector = <<>>

\* MapSide::level and VectorSide::level, then the builder's write.
Level(p, q) ==
    LET i == Locate(p)
        found == IF Holds(i, p) THEN vector ELSE InsertAt(vector, i, [price |-> p, quantity |-> 0])
    IN /\ vector' = [found EXCEPT ![i].quantity = q]
       /\ tree' = [x \in DOMAIN tree \union {p} |-> IF x = p THEN q ELSE tree[x]]
       /\ UNCHANGED isBid

\* MapSide::erase and VectorSide::erase
EraseLevel(p) ==
    LET i == Locate(p)
    IN /\ vector' = IF Holds(i, p) THEN RemoveAt(vector, i) ELSE vector
       /\ tree' = [x \in DOMAIN tree \ {p} |-> tree[x]]
       /\ UNCHANGED isBid

ClearSide == vector' = <<>> /\ tree' = <<>> /\ UNCHANGED isBid

SideNext ==
    \/ \E p \in SidePrices : (\E q \in Quantities : Level(p, q)) \/ EraseLevel(p)
    \/ ClearSide

SideSpec == SideInit /\ [][SideNext]_sideVars

\* find, best and for_each
TreeFind(p) == IF p \in DOMAIN tree THEN <<tree[p]>> ELSE <<>>
VectorFind(p) == IF Holds(Locate(p), p) THEN <<vector[Locate(p)].quantity>> ELSE <<>>
TreeWalk == [i \in 1..Cardinality(DOMAIN tree) |->
                LET p == CHOOSE x \in DOMAIN tree :
                             Cardinality({y \in DOMAIN tree : Before(y, x)}) = i - 1
                IN [price |-> p, quantity |-> tree[p]]]

(***************************************************************************)
(* The two layouts are one book: whatever levels are made, written and     *)
(* erased, both visit the same levels best first, show the same best       *)
(* level and find the same level at every price.                           *)
(***************************************************************************)
LayoutsAgree ==
    /\ vector = TreeWalk
    /\ \A p \in SidePrices : VectorFind(p) = TreeFind(p)
=============================================================================
