----------------------------- MODULE TradeLoop -----------------------------
(***************************************************************************)
(* The loop of tickerplant_trade.cpp: one feed message at a time through   *)
(* the quoting rule of strategy.hpp, the checks of risk.hpp and the venue, *)
(* which is another project's matching engine and is modelled from how     *)
(* Venue uses it.  RiskEngine has the checks in full; here the engine is   *)
(* what the loop tells it and what it answers about exposure.              *)
(***************************************************************************)
EXTENDS Integers, Sequences, FiniteSetsExt

CONSTANTS
    Tops,                      \* tops of book the feed can show: [bid, bid_qty, ask, ask_qty]
    TickSize, HalfSpread, QuoteSize, SkewPerShare, MaxInventory, Threshold, MaxSpread,
    TradeSize,                 \* shares of a market order, 100 in the code
    MaxPosition, MaxOpen,      \* two of the limits of RiskLimits
    MaxTokens                  \* bound: tokens drawn

VARIABLES
    quoter,        \* MicroPriceQuoter: quoting_, live_, position_
    resting,       \* the venue's book of our orders: [id, side, price, qty]
    live_id,       \* live_bid_id and live_ask_id, 0 when nothing rests
    live_token,    \* live_bid_token and live_ask_token
    risk,          \* the working orders, the best prices and the position of RiskEngine
    halted, next_id, next_token,
    executed       \* history: the shares the venue traded for us, buys less sells

loopVars == <<quoter, resting, live_id, live_token, risk, halted, next_id, next_token, executed>>

Side == {"buy", "sell"}
Other(side) == IF side = "buy" THEN "sell" ELSE "buy"
Signed(side, n) == IF side = "buy" THEN n ELSE -n

NoQuote == [has |-> [s \in Side |-> FALSE], price |-> [s \in Side |-> 0]]

Init ==
    /\ quoter = [quoting |-> FALSE, live |-> NoQuote, position |-> 0]
    /\ resting = {} /\ executed = 0
    /\ live_id = [s \in Side |-> 0] /\ live_token = [s \in Side |-> 0]
    /\ risk = [open |-> {}, best |-> [s \in Side |-> 0], position |-> 0]
    /\ halted = FALSE /\ next_id = 1 /\ next_token = 1

----------------------------------------------------------------------------
(* MicroPriceQuoter::on_top_of_book.                                       *)

TwoSided(top) == top.bid_qty > 0 /\ top.ask_qty > 0

Mid(top) == (top.bid + top.ask) \div 2

MicroPrice(top) ==
    (top.bid * top.ask_qty + top.ask * top.bid_qty) \div (top.bid_qty + top.ask_qty)

FloorToTick(p) == (p \div TickSize) * TickSize
CeilToTick(p) == ((p + TickSize - 1) \div TickSize) * TickSize

\* Around the micro price, shifted against the inventory, rounded outward,
\* backed off the other side of the market.
Wanted(top, position) ==
    LET fair == MicroPrice(top) - position * SkewPerShare
        bid == FloorToTick(fair - HalfSpread * TickSize)
        ask == CeilToTick(fair + HalfSpread * TickSize)
    IN [has |-> [s \in Side |-> IF s = "buy" THEN position < MaxInventory
                                             ELSE position > -MaxInventory],
        price |-> [s \in Side |->
                      IF s = "buy"
                      THEN IF bid >= top.ask THEN FloorToTick(top.ask - TickSize) ELSE bid
                      ELSE IF ask <= top.bid THEN CeilToTick(top.bid + TickSize) ELSE ask]]

Distance(a, b) == IF a > b THEN a - b ELSE b - a

\* worth_requoting, soon when the least interval has not passed.
WorthRequoting(q, soon) ==
    \/ ~quoter.quoting
    \/ /\ ~soon
       /\ \/ q.has # quoter.live.has
          \/ \E s \in Side : Distance(q.price[s], quoter.live.price[s]) >= Threshold * TickSize

\* The decision, as far as the loop tells decisions apart, and the quote wanted.
Decision(top, soon, stopped) ==
    LET none == stopped \/ ~TwoSided(top) \/ top.ask - top.bid > MaxSpread * TickSize
        q == Wanted(top, quoter.position)
    IN IF none \/ q.has = NoQuote.has
       THEN [is |-> IF quoter.quoting THEN "Pull" ELSE "None", quote |-> NoQuote]
       ELSE IF WorthRequoting(q, soon) THEN [is |-> "Requote", quote |-> q]
       ELSE [is |-> "None", quote |-> quoter.live]

----------------------------------------------------------------------------
(* The venue.  A step of the loop is threaded through a record of the      *)
(* variables a message changes, with the fills waiting to be drained.      *)

Better(a, b) == IF a.price = b.price THEN a.id < b.id
                ELSE IF a.side = "buy" THEN a.price > b.price ELSE a.price < b.price

\* An order of size n meets our resting orders, best price first.
Match(w, side, price, n) ==
    LET hit == {o \in w.resting : o.side = Other(side) /\ Signed(side, price - o.price) >= 0}
        before(o) == MapThenSumSet(LAMBDA x : x.qty, {x \in hit : Better(x, o)})
        got(o) == IF o \notin hit \/ before(o) >= n THEN 0
                  ELSE IF n - before(o) < o.qty THEN n - before(o) ELSE o.qty
        filled == {o \in hit : got(o) > 0}
        left == {[o EXCEPT !.qty = @ - got(o)] : o \in w.resting}
        rank(o) == Cardinality({x \in filled : Better(x, o)}) + 1
        fill == [i \in 1..Cardinality(filled) |->
                    LET o == CHOOSE o \in filled : rank(o) = i
                    IN [side |-> o.side, qty |-> got(o)]]
    IN [w EXCEPT !.resting = {o \in left : o.qty > 0},
                 !.fills = @ \o fill,
                 !.executed = @ + MapThenSumSet(LAMBDA o : Signed(o.side, got(o)), filled)]

\* market_traded from both sides at the middle of the market.
MarketTraded(w, top) ==
    IF TwoSided(top)
    THEN Match(Match(w, "buy", Mid(top), TradeSize), "sell", Mid(top), TradeSize)
    ELSE w

Taken(w, side, price) ==
    MapThenSumSet(LAMBDA o : o.qty,
                  {o \in w.resting : o.side = Other(side) /\ Signed(side, price - o.price) >= 0})

\* Venue::submit: what is not matched at once rests.
Submit(w, side, price) ==
    LET taken == Min({Taken(w, side, price), QuoteSize})
        met == Match(w, side, price, QuoteSize)
    IN [met EXCEPT
           !.resting = @ \union (IF taken = QuoteSize THEN {}
                                 ELSE {[id |-> w.next_id, side |-> side, price |-> price,
                                        qty |-> QuoteSize - taken]}),
           !.executed = @ + Signed(side, taken),
           !.live_id[side] = w.next_id,
           !.live_token[side] = w.next_token - 1,
           !.next_id = @ + 1]

\* Both quotes are cancelled at the venue; the risk engine is not told.
CancelQuotes(w) ==
    [w EXCEPT !.resting = {o \in w.resting : o.id \notin {w.live_id[s] : s \in Side}},
              !.live_id = [s \in Side |-> 0]]

----------------------------------------------------------------------------
(* The risk engine: what check reads of exposure, on_order_sent, on_fill.  *)

WorkingShares(r, side) ==
    MapThenSumSet(LAMBDA o : o.left, {o \in r.open : o.side = side})

Passes(r, side, price) ==
    /\ Signed(side, r.position) + WorkingShares(r, side) + QuoteSize <= MaxPosition
    /\ Cardinality(r.open) < MaxOpen
    /\ (\E o \in r.open : o.side = Other(side)) => Signed(side, price - r.best[Other(side)]) < 0

OnOrderSent(r, token, side, price) ==
    LET alone == \A o \in r.open : o.side # side
    IN [r EXCEPT !.open = @ \union {[token |-> token, side |-> side, left |-> QuoteSize]},
                 !.best[side] = IF alone \/ Signed(side, price - @) > 0 THEN price ELSE @]

\* A token that is not working moves a counter and nothing else.
OnFill(r, token, n) ==
    IF \E o \in r.open : o.token = token
    THEN LET o == CHOOSE o \in r.open : o.token = token
             taken == Min({n, o.left})
             left == IF taken = o.left THEN {} ELSE {[o EXCEPT !.left = @ - taken]}
         IN [r EXCEPT !.open = (@ \ {o}) \union left,
                      !.position = @ + Signed(o.side, taken)]
    ELSE r

----------------------------------------------------------------------------
(* send: a token is drawn for every quote, an id only for one that passes. *)
SendQuote(w, side, d, denied) ==
    IF ~d.quote.has[side] THEN w
    ELSE LET drawn == [w EXCEPT !.next_token = @ + 1]
             price == d.quote.price[side]
         IN IF side \in denied \/ ~Passes(w.risk, side, price) THEN drawn
            ELSE Submit([drawn EXCEPT !.risk = OnOrderSent(@, w.next_token, side, price)],
                        side, price)

\* One fill drained: it is booked against whatever quote is live on its side.
DrainFill(w) ==
    LET f == Head(w.fills)
    IN [w EXCEPT !.fills = Tail(@),
                 !.position = @ + Signed(f.side, f.qty),
                 !.risk = OnFill(@, w.live_token[f.side], f.qty),
                 !.live_id[f.side] = 0]

Drained(w) ==
    LET step[n \in 0..Len(w.fills)] == IF n = 0 THEN w ELSE DrainFill(step[n - 1])
    IN step[Len(w.fills)]

\* One message of the quoted symbol: kind, the top of book after it, whether it
\* comes too soon after the last quote, and which orders fail a check that is
\* not about exposure.
OnMessage(kind, top, soon, denied) ==
    LET stopped == IF kind = "halt" THEN TRUE ELSE IF kind = "resume" THEN FALSE ELSE halted
        start == [resting |-> resting, live_id |-> live_id, live_token |-> live_token,
                  risk |-> risk, next_id |-> next_id, next_token |-> next_token,
                  executed |-> executed, position |-> quoter.position, fills |-> <<>>]
        traded == IF kind = "trade" THEN MarketTraded(start, top) ELSE start
        d == Decision(top, soon, stopped)
        cleared == IF d.is = "None" THEN traded ELSE CancelQuotes(traded)
        quoted == IF d.is = "Requote"
                  THEN SendQuote(SendQuote(cleared, "buy", d, denied), "sell", d, denied)
                  ELSE cleared
        end == Drained(quoted)
    IN /\ next_token + 2 <= MaxTokens
       /\ halted' = stopped
       /\ quoter' = [quoting |-> IF d.is = "None" THEN quoter.quoting ELSE d.is = "Requote",
                     live |-> IF d.is = "None" THEN quoter.live ELSE d.quote,
                     position |-> end.position]
       /\ resting' = end.resting
       /\ live_id' = end.live_id
       /\ live_token' = end.live_token
       /\ risk' = end.risk
       /\ next_id' = end.next_id
       /\ next_token' = end.next_token
       /\ executed' = end.executed

Next ==
    \E kind \in {"trade", "halt", "resume", "other"}, top \in Tops, soon \in BOOLEAN,
       denied \in SUBSET Side : OnMessage(kind, top, soon, denied)

Spec == Init /\ [][Next]_loopVars

(***************************************************************************)
(* tickerplant_trade.cpp:416: "Drain whatever filled, so the next quoting  *)
(* decision and the next risk check both see the position that actually    *)
(* exists": after every message both hold what the venue traded for us.    *)
(***************************************************************************)
BothSeeThePosition ==
    risk.position = executed /\ quoter.position = executed
=============================================================================
