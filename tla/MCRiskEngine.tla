---------------------------- MODULE MCRiskEngine ----------------------------
EXTENDS RiskEngine, TLC

CONSTANTS t1, t2, t3

\* Two probes start at the last slot, so their cluster wraps around the end.
Collide == t1 :> 3 @@ t2 :> 3 @@ t3 :> 0

\* Symbols are alike, and so are the two tokens that start at one slot.
Alike == Permutations(Locates) \cup Permutations({t1, t2})

Limit(orders, position, messages) ==
  [order_shares |-> 2, order_notional |-> 3, position |-> position,
   symbol_notional |-> 6, open_orders |-> orders, messages |-> messages]

TwoLimits == {Limit(3, 1, 2), Limit(2, 2, 1)}
OneMessage == {Limit(1, 1, 1)}
=============================================================================
