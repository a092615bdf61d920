----------------------------- MODULE RiskEngine -----------------------------
(***************************************************************************)
(* The pre-trade risk engine of include/tick/risk.hpp: every order passes  *)
(* a run of checks, its exposure is counted from the moment it is sent,    *)
(* and what the exchange answers turns exposure into position or releases  *)
(* it.                                                                     *)
(*                                                                         *)
(* An order is sent in one step: the sending path checks it, and when it   *)
(* passes writes it and calls on_order_sent, on one thread.  The answers   *)
(* come in any order, for any token, with any number of shares: what an    *)
(* answer does must be right whatever the exchange says.                   *)
(*                                                                         *)
(* The checks of a request against itself and the market it brings along   *)
(* (a positive price, a fresh book with two sides, a price near it) move   *)
(* nothing and read no state: a request that fails them is not listed.     *)
(* The load of positions at the start of the day is part of Init.          *)
(***************************************************************************)
EXTENDS OpenOrderTable, RateLimiter

CONSTANTS
  Locates,         \* symbols
  Shares,          \* sizes of orders
  Prices,          \* their prices
  AllLimits,       \* limits a human may set
  StartPositions   \* positions loaded at the start of the day

ASSUME RiskAssumption ==
  /\ Shares \subseteq Nat \ {0} /\ Prices \subseteq Nat \ {0}
  /\ StartPositions \subseteq Int
  /\ \A limit \in AllLimits :
       /\ limit.open_orders \in Nat /\ limit.open_orders < Size
       /\ limit.position \in Int

VARIABLES
  slots,         \* slots_, the table of open orders
  symbols,       \* symbols_
  open_orders,   \* open_orders_
  kill_reason,   \* kill_reason, and tripped_ with it: "none" when not tripped
  limits         \* limits_

engine_vars == <<slots, symbols, open_orders, kill_reason, limits>>
vars == <<engine_vars, now, rate_vars>>

Side == {"buy", "sell"}
Request == [token : Tokens, locate : Locates, side : Side, leaves : Shares,
            price : Prices]
tripped == kill_reason # "none"

\* What a slot holds while its order works; the price is history.
Order == [token : Tokens, locate : Locates, side : Side, leaves : Nat \ {0},
          price : Prices]

ASSUME VacantAssumption == Vacant \notin Order

\* What could be owned, and owed, if everything working filled at once.
WorstLong(l) == symbols[l].position + symbols[l].shares["buy"]
WorstShort(l) == symbols[l].position - symbols[l].shares["sell"]

Magnitude(n) == IF n < 0 THEN - n ELSE n

\* Fault: only what has filled counts.
WithinLimitsFilled(r) ==
  LET long == symbols[r.locate].position + (IF r.side = "buy" THEN r.leaves ELSE 0)
      short == symbols[r.locate].position - (IF r.side = "sell" THEN r.leaves ELSE 0)
  IN  /\ long <= limits.position /\ short >= - limits.position

\* The position check, and the notional of the worst case at this price.
WithinLimits(r) ==
  LET long == WorstLong(r.locate) + (IF r.side = "buy" THEN r.leaves ELSE 0)
      short == WorstShort(r.locate) - (IF r.side = "sell" THEN r.leaves ELSE 0)
      worst == IF Magnitude(long) > Magnitude(short) THEN Magnitude(long)
                                                      ELSE Magnitude(short)
  IN  /\ long <= limits.position /\ short >= - limits.position
      /\ worst * r.price <= limits.symbol_notional

\* r would trade against the best of our own orders on the other side.
SelfCross(r) ==
  LET s == symbols[r.locate]
  IN  IF r.side = "buy"
        THEN s.orders["sell"] > 0 /\ r.price >= s.best["sell"]
        ELSE s.orders["buy"] > 0 /\ r.price <= s.best["buy"]

\* Fault: the switch stops nothing.
CheckWithoutSwitch(r) ==
  /\ symbols[r.locate].enabled /\ ~ symbols[r.locate].halted
  /\ r.leaves <= limits.order_shares
  /\ r.leaves * r.price <= limits.order_notional
  /\ WithinLimits(r) /\ ~ SelfCross(r)
  /\ open_orders < limits.open_orders
  /\ CountAt < limits.messages
  /\ FindOpen(slots, r.token) = NoSlot

\* check() returns None.
Check(r) ==
  /\ ~ tripped
  /\ symbols[r.locate].enabled /\ ~ symbols[r.locate].halted
  /\ r.leaves <= limits.order_shares
  /\ r.leaves * r.price <= limits.order_notional
  /\ WithinLimits(r)
  /\ ~ SelfCross(r)
  /\ open_orders < limits.open_orders
  /\ CountAt < limits.messages
  /\ FindOpen(slots, r.token) = NoSlot

\* Fault: the price of the last order is the best one.
MoreAggressiveAlways(side, p, q) == TRUE

\* p is a better price than q on its side.
MoreAggressive(side, p, q) == IF side = "buy" THEN p > q ELSE p < q

\* on_order_sent, for an order that has passed the checks.
SendOrder(r) ==
  LET slot == SlotFor(slots, r.token)
      s == symbols[r.locate]
      first == s.orders[r.side] = 0
  IN  /\ Check(r)
      /\ IF slot = NoSlot
           THEN /\ kill_reason' = "table_full"
                /\ UNCHANGED <<slots, symbols, open_orders, limits, now, rate_vars>>
           ELSE /\ slots' = [slots EXCEPT ![slot] = r]
                /\ symbols' = [symbols EXCEPT ![r.locate] = [s EXCEPT
                     !.shares[r.side] = @ + r.leaves,
                     !.orders[r.side] = @ + 1,
                     !.best[r.side] = IF first \/ MoreAggressive(r.side, r.price, @)
                                        THEN r.price ELSE @]]
                /\ open_orders' = open_orders + 1
                /\ Record
                /\ UNCHANGED <<kill_reason, limits, now>>

\* Fault: a fill adds to the position and leaves the exposure.
ReleasedNot(o, n) == 0

\* The exposure that n shares of order o stop being.
Released(o, n) == n

\* n shares of the order in a slot are not working any more, because they have
\* filled or because they are gone; with the last one the order is retired.
Reduce(slot, n, filled) ==
  LET o == slots[slot]
      s == symbols[o.locate]
      gone == o.leaves = n
      last == gone /\ s.orders[o.side] = 1
  IN  /\ slots' = IF gone THEN EraseAt(slots, slot)
                  ELSE [slots EXCEPT ![slot].leaves = @ - n]
      /\ symbols' = [symbols EXCEPT ![o.locate] = [s EXCEPT
           !.position = IF ~ filled THEN @
                        ELSE IF o.side = "buy" THEN @ + n ELSE @ - n,
           !.shares[o.side] = IF last THEN 0 ELSE @ - Released(o, n),
           !.orders[o.side] = IF gone THEN @ - 1 ELSE @,
           !.best[o.side] = IF last THEN 0 ELSE @]]
      /\ open_orders' = IF gone THEN open_orders - 1 ELSE open_orders
      /\ UNCHANGED <<kill_reason, limits, now, rate_vars>>

\* An answer for a token that is not open moves only a counter.
OnFill(t, n) ==
  LET slot == FindOpen(slots, t)
  IN  /\ slot # NoSlot
      /\ Reduce(slot, Min({n, slots[slot].leaves}), TRUE)

\* A Canceled of zero shares says that the whole balance went.
OnCancelAcked(t, n) ==
  LET slot == FindOpen(slots, t)
  IN  /\ slot # NoSlot
      /\ Reduce(slot, IF n = 0 THEN slots[slot].leaves
                      ELSE Min({n, slots[slot].leaves}), FALSE)

OnReject(t) ==
  LET slot == FindOpen(slots, t)
  IN  /\ slot # NoSlot
      /\ Reduce(slot, slots[slot].leaves, FALSE)

-----------------------------------------------------------------------------
\* Only the first reason is kept.
TripKillSwitch(why) ==
  /\ ~ tripped
  /\ kill_reason' = why
  /\ UNCHANGED <<slots, symbols, open_orders, limits, now, rate_vars>>

ResetKillSwitchAfterHumanReview ==
  /\ tripped
  /\ kill_reason' = "none"
  /\ UNCHANGED <<slots, symbols, open_orders, limits, now, rate_vars>>

EnableSymbol(l, on) ==
  /\ symbols[l].enabled # on
  /\ symbols' = [symbols EXCEPT ![l].enabled = on]
  /\ UNCHANGED <<slots, open_orders, kill_reason, limits, now, rate_vars>>

\* on_trading_action and set_halted.
SetHalted(l, halted) ==
  /\ symbols[l].halted # halted
  /\ symbols' = [symbols EXCEPT ![l].halted = halted]
  /\ UNCHANGED <<slots, open_orders, kill_reason, limits, now, rate_vars>>

\* Refused while anything is working; the table is built anew.
SetLimits(l) ==
  /\ open_orders = 0
  /\ limits' = l
  /\ slots' = EmptyTable
  /\ UNCHANGED <<symbols, open_orders, kill_reason, now, rate_vars>>

Tick ==
  /\ now < MaxTime
  /\ now' = now + 1
  /\ UNCHANGED <<engine_vars, rate_vars>>

Flat(p) ==
  [position |-> p, shares |-> [side \in Side |-> 0],
   orders |-> [side \in Side |-> 0], best |-> [side \in Side |-> 0],
   enabled |-> FALSE, halted |-> FALSE]

Init ==
  /\ slots = EmptyTable
  /\ symbols \in [Locates -> {Flat(p) : p \in StartPositions}]
  /\ open_orders = 0
  /\ kill_reason = "none"
  /\ limits \in AllLimits
  /\ RateInit

Answered == 0 .. Max(Shares) + 1

Next ==
  \/ \E r \in Request : SendOrder(r)
  \/ \E t \in Tokens, n \in Answered \ {0} : OnFill(t, n)
  \/ \E t \in Tokens, n \in Answered : OnCancelAcked(t, n)
  \/ \E t \in Tokens : OnReject(t)
  \/ TripKillSwitch("operator")
  \/ ResetKillSwitchAfterHumanReview
  \/ \E l \in Locates, b \in BOOLEAN : EnableSymbol(l, b) \/ SetHalted(l, b)
  \/ \E l \in AllLimits : SetLimits(l)
  \/ Tick

Spec == Init /\ [][Next]_vars

-----------------------------------------------------------------------------
Working(l, side) ==
  {i \in Occupied(slots) : slots[i].locate = l /\ slots[i].side = side}

\* The tallies the checks read are those of the orders in the table, per symbol
\* and side and for the engine, after any run of partial fills, partial
\* cancels, overfills and rejects.
ExposureExact ==
  /\ open_orders = Cardinality(Occupied(slots))
  /\ \A l \in Locates, side \in Side :
       /\ symbols[l].orders[side] = Cardinality(Working(l, side))
       /\ symbols[l].shares[side] =
            SumFunction([i \in Working(l, side) |-> slots[i].leaves])

\* "How much it could own if every order it has outstanding were filled": no
\* run of orders and fills takes a symbol with orders working past the limit.
WorstCaseWithinLimit ==
  \A l \in Locates :
    (\E side \in Side : symbols[l].orders[side] > 0) =>
       /\ WorstLong(l) <= limits.position
       /\ WorstShort(l) >= - limits.position

\* "It can never miss one that would": no two of our orders cross, although the
\* best price kept for a side is not corrected when its order goes.
NoSelfCross ==
  \A i, j \in Occupied(slots) :
    (slots[i].locate = slots[j].locate
      /\ slots[i].side = "buy" /\ slots[j].side = "sell")
    => slots[i].price < slots[j].price

\* "No probe chain is ever broken": every open order is found by its token, so
\* no answer of the exchange is taken for one about an unknown order, and an
\* order that passed the checks has a slot to go to.
EveryOrderIsFound ==
  /\ \A i \in Occupied(slots) : FindOpen(slots, slots[i].token) = i
  /\ kill_reason # "table_full"

\* Once tripped, "nothing goes out": until a human resets the switch the worst
\* case of every symbol can only shrink, whatever the exchange still answers.
KillSwitchHolds ==
  [][tripped /\ tripped' =>
       /\ kill_reason' = kill_reason
       /\ \A l \in Locates :
            WorstLong(l)' <= WorstLong(l) /\ WorstShort(l)' >= WorstShort(l)]_vars

\* What the limiter counts covers the last nine buckets' worth of time whole,
\* and nothing that is a second old: its laps never mix.
WindowIsHonest ==
  /\ SentWithin((Buckets - 1) * BucketNs) <= CountAt
  /\ CountAt <= SentWithin(Buckets * BucketNs)

\* The limiter "never lets more than the limit through in any one second".
NeverMoreThanTheLimitPerSecond ==
  SentWithin(Buckets * BucketNs) <= limits.messages
=============================================================================
