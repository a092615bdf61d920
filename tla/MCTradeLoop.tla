---------------------------- MODULE MCTradeLoop ----------------------------
EXTENDS TradeLoop

Top(bid, ask) == [bid |-> bid, bid_qty |-> 1, ask |-> ask, ask_qty |-> 1]

\* A market that falls through our bid and rises through our ask, one too wide
\* to quote and one with no offers.
FourTops == {Top(10, 14), Top(6, 10), Top(2, 20), [Top(10, 14) EXCEPT !.ask_qty = 0]}
=============================================================================
