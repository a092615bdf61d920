---------------------------- MODULE OrderedFeed ----------------------------
(***************************************************************************)
(* What the arbitrator of include/tick/sequencer.hpp promises the order    *)
(* book behind it, with no ring, no clock and no requests in it:           *)
(*                                                                         *)
(*   - what is handed over in a session is strictly increasing and intact; *)
(*   - nothing is missing from it, until the feed owns up to a loss;       *)
(*   - owning up is for the rest of the session.                           *)
(***************************************************************************)
EXTENDS Integers, Sequences

CONSTANT Numbers   \* the sequence numbers that can appear on the wire

VARIABLES
  open,    \* the session has a beginning
  next,    \* the next sequence owed downstream
  out,     \* what was handed downstream in this session
  honest   \* nothing has been lost in this session

vars == <<open, next, out, honest>>

Message(s, b) == [seq |-> s, body |-> b]

\* The messages lo .. hi - 1, none missing.
Whole(lo, hi) == [i \in 1 .. hi - lo |-> Message(lo + i - 1, lo + i - 1)]

\* b is in order, intact, and within lo .. hi - 1.
Partial(b, lo, hi) ==
  /\ \A i \in DOMAIN b : b[i].seq \in lo .. hi - 1 /\ b[i].body = b[i].seq
  /\ \A i, j \in DOMAIN b : i < j => b[i].seq < b[j].seq

Init == open = FALSE /\ next = 0 /\ out = << >> /\ honest = TRUE

\* A session starts at f.
Start(f) ==
  /\ open' = TRUE
  /\ next' = f
  /\ out' = << >>
  /\ honest' = TRUE

\* The first message of a session that nobody announced sets its start.
Join(f) ==
  /\ ~ open
  /\ open' = TRUE
  /\ next' = f + 1
  /\ out' = Whole(f, f + 1)
  /\ UNCHANGED honest

\* Everything up to next' - 1 goes out.
Deliver ==
  /\ open
  /\ next' > next
  /\ out' = out \o Whole(next, next')
  /\ UNCHANGED <<open, honest>>

\* Something below next' is given up, and the feed says so.
GiveUp ==
  /\ open
  /\ next' >= next
  /\ Len(out') >= Len(out)
  /\ SubSeq(out', 1, Len(out)) = out
  /\ Partial(SubSeq(out', Len(out) + 1, Len(out')), next, next')
  /\ honest' = FALSE
  /\ UNCHANGED open

Next ==
  \/ \E f \in Numbers : Start(f) \/ Join(f)
  \/ Deliver
  \/ GiveUp

Spec == Init /\ [][Next]_vars
=============================================================================
