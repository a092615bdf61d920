----------------------------- MODULE Ascending -----------------------------
(***************************************************************************)
(* A finite set of numbers laid out as a sequence, smallest first: the     *)
(* order in which a loop that counts upwards meets them.                   *)
(***************************************************************************)
EXTENDS Integers, FiniteSets

Rank(n, S) == Cardinality({m \in S : m <= n})

InOrderOf(S) ==
  [i \in 1 .. Cardinality(S) |-> CHOOSE n \in S : Rank(n, S) = i]
=============================================================================
