----------------------------- MODULE OuchOrder -----------------------------
(***************************************************************************)
(* ClientOrderState of ouch.hpp: what a client believes of one order, from *)
(* what it sent and what came back, while requests and answers cross.  The *)
(* exchange is not in the source: its answers follow the message comments  *)
(* of ouch.hpp.  Requests arrive in order.  Answers do too, but for what   *)
(* ouch.hpp tells a client to expect: after a connection failure the       *)
(* exchange may resend its Accepted, and an Executed may come after a      *)
(* Canceled that crossed it, of shares the Canceled leaves alone or, when  *)
(* it ended the order, of shares it took.                                  *)
(***************************************************************************)
EXTENDS Integers, Sequences

CONSTANTS MaxShares, MaxWire      \* bounds: shares of an order, messages in flight each way

ASSUME OrderAssumption == MaxShares \in Nat /\ MaxWire \in Nat

VARIABLES client,      \* ClientOrderState
          venue,       \* the exchange's order: canceled are the shares taken by the
                       \* Canceled that ended it, late those of them executed after all
          inbound,     \* requests on their way to the exchange
          outbound,    \* answers on their way back
          resent       \* the exchange has resent an Accepted

orderVars == <<client, venue, inbound, outbound, resent>>

Terminal(o) == o.state \in {"Filled", "Canceled", "Rejected"}

\* A counter is kept as whether it is above zero.
Counted(o, legal) == o.illegal_transitions \/ ~legal

Unknown == [state |-> "Unknown", original |-> 0, leaves |-> 0, filled |-> 0,
            illegal_transitions |-> FALSE, orphan_fills |-> FALSE, overfills |-> FALSE]

OrderInit ==
    /\ client = Unknown
    /\ venue = [state |-> "none", leaves |-> 0, executed |-> 0, accepted |-> 0,
                canceled |-> 0, late |-> 0]
    /\ inbound = <<>> /\ outbound = <<>> /\ resent = FALSE

----------------------------------------------------------------------------
(* The transitions of the client's record.                                 *)

OnSent(o, shares) ==
    [o EXCEPT !.illegal_transitions = Counted(o, o.state = "Unknown"),
              !.original = shares, !.leaves = shares, !.filled = 0, !.state = "Sent"]

OnAccepted(o, m) ==
    [o EXCEPT !.illegal_transitions = Counted(o, o.state = "Sent"),
              !.original = m.shares,
              !.leaves = IF ~m.dead /\ m.shares > o.filled THEN m.shares - o.filled ELSE 0,
              !.state = IF m.dead THEN "Canceled" ELSE "Accepted"]

OnReplaced(o, m) ==
    [o EXCEPT !.illegal_transitions = Counted(o, o.state = "ReplaceSent"),
              !.original = m.shares + o.filled,
              !.leaves = IF m.dead THEN 0 ELSE m.shares,
              !.state = IF m.dead THEN "Canceled" ELSE "Accepted"]

OnFill(o, m) ==
    LET leaves == IF m.shares > o.leaves THEN 0 ELSE o.leaves - m.shares
    IN [o EXCEPT !.orphan_fills = @ \/ Terminal(o) \/ o.state = "Unknown",
                 !.overfills = @ \/ m.shares > o.leaves,
                 !.leaves = leaves, !.filled = @ + m.shares,
                 !.state = IF leaves = 0 THEN "Filled" ELSE "PartiallyFilled"]

OnCancelSent(o) ==
    [o EXCEPT !.illegal_transitions = Counted(o, o.state \in {"Accepted", "PartiallyFilled", "Sent"}),
              !.state = "CancelSent"]

OnReplaceSent(o) ==
    [o EXCEPT !.illegal_transitions = Counted(o, o.state \in {"Accepted", "PartiallyFilled"}),
              !.state = "ReplaceSent"]

\* Fault: Canceled is taken for the end of the order.
OnCanceledAsTerminal(o, m) == [o EXCEPT !.leaves = 0, !.state = "Canceled"]

OnCanceled(o, m) ==
    LET leaves == IF m.shares > o.leaves THEN 0 ELSE o.leaves - m.shares
    IN [o EXCEPT !.illegal_transitions = Counted(o, ~Terminal(o) /\ o.state # "Unknown"),
                 !.overfills = @ \/ m.shares > o.leaves,
                 !.leaves = leaves,
                 !.state = IF leaves > 0 THEN @
                           ELSE IF o.filled > 0 /\ o.filled = o.original THEN "Filled"
                           ELSE "Canceled"]

OnRejected(o) ==
    [o EXCEPT !.illegal_transitions = Counted(o, o.state \in {"Sent", "ReplaceSent"}),
              !.leaves = 0, !.state = "Rejected"]

Answered(o, m) ==
    CASE m.type = "Accepted" -> OnAccepted(o, m)
      [] m.type = "Replaced" -> OnReplaced(o, m)
      [] m.type = "Executed" -> OnFill(o, m)
      [] m.type = "Canceled" -> OnCanceled(o, m)
      [] m.type = "Rejected" -> OnRejected(o)

----------------------------------------------------------------------------
(* The client's calls, and the answers it takes.                           *)

Request(o, m) ==
    /\ Len(inbound) < MaxWire
    /\ client' = o
    /\ inbound' = Append(inbound, m)
    /\ UNCHANGED <<venue, outbound, resent>>

Enter == client.state = "Unknown" /\ \E shares \in 1..MaxShares :
    Request(OnSent(client, shares), [type |-> "Enter", shares |-> shares])

\* The new intended size, not a decrement; the client asks while it is legal.
Cancel == client.state \in {"Accepted", "PartiallyFilled", "Sent"} /\ \E shares \in 0..MaxShares :
    Request(OnCancelSent(client), [type |-> "Cancel", shares |-> shares])

ReplaceOrder == client.state \in {"Accepted", "PartiallyFilled"} /\ \E shares \in 1..MaxShares :
    Request(OnReplaceSent(client), [type |-> "Replace", shares |-> shares])

Deliver ==
    /\ outbound # <<>>
    /\ client' = Answered(client, Head(outbound))
    /\ outbound' = Tail(outbound)
    /\ UNCHANGED <<venue, inbound, resent>>

----------------------------------------------------------------------------
(* The exchange.                                                           *)

Answer(type, shares, dead) == [type |-> type, shares |-> shares, dead |-> dead]

Send(v, m) ==
    /\ Len(outbound) < MaxWire
    /\ venue' = v
    /\ outbound' = Append(outbound, m)

\* An entry is accepted, for fewer shares perhaps or dead at once, or rejected.
VenueEnters(m) ==
    \/ \E shares \in 1..m.shares, dead \in BOOLEAN :
          Send([state |-> IF dead THEN "dead" ELSE "live", leaves |-> IF dead THEN 0 ELSE shares,
                executed |-> 0, accepted |-> shares, canceled |-> 0, late |-> 0],
               Answer("Accepted", shares, dead))
    \/ Send([venue EXCEPT !.state = "dead"], Answer("Rejected", 0, FALSE))

Reduced(v, by) == [v EXCEPT !.leaves = @ - by, !.state = IF v.leaves = by THEN "dead" ELSE @]
FilledBy(v, n) == [Reduced(v, n) EXCEPT !.executed = @ + n]
CanceledBy(v, n) == [Reduced(v, n) EXCEPT !.canceled = IF v.leaves = n THEN n ELSE 0]

\* What a request to cancel takes off: its size is the most that may execute in all.
Excess(v, m) == LET by == v.executed + v.leaves - m.shares
                IN IF by > v.leaves THEN v.leaves ELSE by

\* What arrives late is ignored.
VenueCancels(m) ==
    LET n == Excess(venue, m)
    IN IF venue.state = "live" /\ n > 0
       THEN Send(CanceledBy(venue, n), Answer("Canceled", n, FALSE))
       ELSE UNCHANGED <<venue, outbound>>

VenueReplaces(m) ==
    IF venue.state = "live"
    THEN \E dead \in BOOLEAN :
            Send([venue EXCEPT !.leaves = IF dead THEN 0 ELSE m.shares,
                               !.state = IF dead THEN "dead" ELSE "live"],
                 Answer("Replaced", m.shares, dead))
    ELSE UNCHANGED <<venue, outbound>>

VenueReads ==
    /\ inbound # <<>>
    /\ LET m == Head(inbound)
       IN \/ m.type = "Enter" /\ VenueEnters(m)
          \/ m.type = "Cancel" /\ VenueCancels(m)
          \/ m.type = "Replace" /\ VenueReplaces(m)
    /\ inbound' = Tail(inbound)
    /\ UNCHANGED <<client, resent>>

VenueFills ==
    /\ \E n \in 1..venue.leaves : venue.executed + n <= MaxShares
          /\ Send(FilledBy(venue, n), Answer("Executed", n, FALSE))
    /\ UNCHANGED <<client, inbound, resent>>

VenueCancelsUnasked ==
    /\ \E n \in 1..venue.leaves : Send(CanceledBy(venue, n), Answer("Canceled", n, FALSE))
    /\ UNCHANGED <<client, inbound, resent>>

\* The Canceled of shares that a fill left, asked for or not, overtakes its Executed.
VenueCrosses ==
    /\ Len(outbound) + 1 < MaxWire
    /\ \E n \in 1..venue.leaves :
          LET v == FilledBy(venue, n)
          IN /\ v.executed <= MaxShares
             /\ \E c \in 1..v.leaves :
                   /\ venue' = CanceledBy(v, c)
                   /\ outbound' = outbound \o <<Answer("Canceled", c, FALSE),
                                               Answer("Executed", n, FALSE)>>
                   /\ \/ UNCHANGED inbound
                      \/ /\ inbound # <<>> /\ Head(inbound).type = "Cancel"
                         /\ Excess(v, Head(inbound)) = c
                         /\ inbound' = Tail(inbound)
    /\ UNCHANGED <<client, resent>>

\* Shares that the last Canceled took executed before it did.
VenueFillsLate ==
    /\ venue.state = "dead"
    /\ \E n \in 1..venue.canceled - venue.late : venue.executed + n <= MaxShares
          /\ Send([venue EXCEPT !.executed = @ + n, !.late = @ + n], Answer("Executed", n, FALSE))
    /\ UNCHANGED <<client, inbound, resent>>

\* After a connection failure.
VenueResends ==
    /\ venue.accepted > 0 /\ ~resent
    /\ Send(venue, Answer("Accepted", venue.accepted, FALSE))
    /\ resent' = TRUE
    /\ UNCHANGED <<client, inbound>>

OrderNext ==
    \/ Enter \/ Cancel \/ ReplaceOrder \/ Deliver
    \/ VenueReads \/ VenueFills \/ VenueCancelsUnasked \/ VenueResends
    \/ VenueCrosses \/ VenueFillsLate

OrderSpec == OrderInit /\ [][OrderNext]_orderVars

----------------------------------------------------------------------------

\* A record once it has read the answers of s.
Replay(o, s) ==
    LET read[i \in 0..Len(s)] == IF i = 0 THEN o ELSE Answered(read[i - 1], s[i])
    IN read[Len(s)]

\* The client's record once it has read every answer under way.
Caught == Replay(client, outbound)

Agrees(o) == o.leaves = venue.leaves /\ (Terminal(o) <=> venue.state = "dead")

(***************************************************************************)
(* Requests cross answers, and a Canceled crosses the Executed before it.  *)
(* Once the client has read what is under way it holds the position the    *)
(* exchange executed, whatever crossed or was resent, fills that come      *)
(* after the order's end included.  A resent Accepted has been counted as  *)
(* illegal.  Without one the client holds the working size too, believes   *)
(* the order dead exactly when it is, and counts an orphan, and shares     *)
(* beyond the working ones, exactly when shares that a Canceled took have  *)
(* executed after all: never for a fill and a Canceled of other shares,    *)
(* in whichever order the two arrive (ouch.hpp:1120-1131).                 *)
(***************************************************************************)
ClientSeesTheOrder ==
    LET o == Caught
    IN venue.state # "none" =>
         /\ o.filled = venue.executed
         /\ resent => o.illegal_transitions
         /\ ~resent => /\ Agrees(o)
                       /\ o.orphan_fills <=> venue.late > 0
                       /\ o.overfills <=> venue.late > 0
=============================================================================
