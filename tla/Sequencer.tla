----------------------------- MODULE Sequencer -----------------------------
(***************************************************************************)
(* The line arbitrator of include/tick/sequencer.hpp: two lossy copies of  *)
(* one numbered stream (and the answers of a retransmission server) go in, *)
(* a strictly increasing stream comes out.                                 *)
(*                                                                         *)
(* The ring of slots is kept as the code keeps it, a header array and a    *)
(* byte array both indexed by sequence modulo the capacity, because what   *)
(* can go wrong is an old lap of the ring being read as a new one.  A      *)
(* payload is the sequence number it was published under, so the stream    *)
(* downstream is a sequence of [seq, body] and is intact when seq = body.  *)
(*                                                                         *)
(* Each public call is one step: on_message and on_retransmit through the  *)
(* paths of ingest, poll through the branches that change state, reset.    *)
(* Time is the caller's and moves between calls (Tick).  The two instants  *)
(* the code remembers are only ever compared with now, so they are kept as *)
(* the distance the comparison asks for: how old the gap is, up to the     *)
(* grace period, and how long the request has left, down to zero.          *)
(***************************************************************************)
EXTENDS Integers, Sequences, FiniteSetsExt, Ascending

CONSTANTS
  Cap,          \* slots in the ring (capacity_)
  Grace,        \* gap_grace_ns, in ticks
  Timeout,      \* recovery_timeout_ns, in ticks
  MaxAttempts,  \* max_recovery_attempts
  MaxRequest,   \* most sequences one request can name, 65535 in the code
  Numbers,      \* the sequence numbers that can appear on the wire
  Wide,         \* those whose payload is wider than max_payload
  MaxResets,    \* bound on the calls of reset
  MaxDropped    \* bound on messages_dropped while a wide payload can be repeated

ASSUME SequencerAssumption ==
  /\ Cap \in Nat \ {0}
  /\ Grace \in Nat /\ Timeout \in Nat
  /\ MaxAttempts \in Nat \ {0}
  /\ MaxRequest \in Nat \ {0}
  /\ Numbers \subseteq Nat /\ Wide \subseteq Numbers
  /\ MaxResets \in Nat /\ MaxDropped \in Nat

VARIABLES
  state,         \* state_
  started,       \* started_
  expected,      \* expected_, the next sequence owed downstream
  slots,         \* slots_, the header of each slot
  bytes,         \* bytes_, the payload area of each slot
  pending,       \* pending_, slots in use
  gap_age,       \* now_ns - gap_since_ns_, no further than Grace
  time_left,     \* recovery_deadline_ns_ - now_ns, no less than 0
  attempts,      \* recovery_attempts_
  recovery_end,  \* recovery_end_, one past what the outstanding request covers
  stats,         \* the counters of SequencerStats that properties speak of
  request,       \* the request the last step returned, or NoRequest
  first,         \* history: where the session began
  delivered,     \* history: what the sink was handed in this session
  resets         \* history: calls of reset so far

recovery == <<time_left, attempts, recovery_end>>
history == <<first, delivered, resets>>
vars == <<state, started, expected, slots, bytes, pending, gap_age, recovery,
          stats, request, history>>

FeedState == {"Synced", "Gap", "Recovering", "Stale"}
Source == {"line", "retransmit"}
Index == 0 .. Cap - 1
Slot == [seq : Nat, present : BOOLEAN]
Counter == {"accepted", "dropped", "detected", "recovered"}

NoRequest == [seq |-> 0, count |-> 0]
Message(s, b) == [seq |-> s, body |-> b]

-----------------------------------------------------------------------------
(***************************************************************************)
(* The ring.                                                               *)
(***************************************************************************)

\* Fault: any message in the slot of s is taken for s.
PresentAnyLap(s) == slots[s % Cap].present

\* The slot of s holds s itself, not another lap of the ring.
Present(s) == slots[s % Cap].present /\ slots[s % Cap].seq = s

\* Where drain() stops when it starts at e.
DrainEnd(e) == Min({n \in e .. e + Cap : ~ Present(n)})

\* Fault: everything up to the last held message is asked for.
MissingRunToLast ==
  Cap - Min({n \in 1 .. Cap - 1 : Present(expected + (Cap - n))} \cup {Cap})

\* missing_run(): how many sequences are absent from expected on.
MissingRun ==
  Min({n \in 0 .. Cap - 1 : Present(expected + n)} \cup {Cap})

\* Fault: what was delivered on the way is counted as lost too.
MissingAll(lo, hi) == lo .. hi - 1

\* What the ring holds of the sequences lo .. hi - 1, and what it does not.
Between(lo, hi) == {n \in lo .. hi - 1 : Present(n)}
Missing(lo, hi) == {n \in lo .. hi - 1 : ~ Present(n)}

\* Those held, in the order the front passes them, as the sink is handed them.
Release(lo, hi) ==
  LET run == InOrderOf(Between(lo, hi))
  IN  [i \in 1 .. Cardinality(Between(lo, hi)) |->
         Message(run[i], bytes[run[i] % Cap])]

\* The slots once the front has passed from lo to hi.
Vacate(lo, hi) ==
  [i \in Index |->
     [slots[i] EXCEPT !.present = @ /\ slots[i].seq \notin lo .. hi - 1]]

EmptyRing == [i \in Index |-> [slots[i] EXCEPT !.present = FALSE]]

-----------------------------------------------------------------------------
ClearRecovery == time_left' = 0 /\ attempts' = 0 /\ recovery_end' = 0

\* Fault: the loss is not owned up to.
EnterStaleQuietly == UNCHANGED state /\ ClearRecovery

EnterStale == state' = "Stale" /\ ClearRecovery

\* on_retransmit: a message taken from the server while a request is still
\* outstanding restarts the clock of that request.
RestartClock(source) ==
  time_left' = IF source = "retransmit" /\ state = "Recovering"
                THEN Timeout ELSE time_left

\* Fault: a window that empties makes any feed Synced, a Stale one too.
ClosedInAnyState == pending' = 0

\* Fault: nobody looks whether the hole that was asked for has moved.
UncoveredNever == FALSE

\* settle(), after a delivery in a feed that is not going stale: nothing is
\* held any more, or the hole that was asked for is filled and another one
\* shows behind it, or neither.
Closed == pending' = 0 /\ state \in {"Gap", "Recovering"}
Uncovered == pending' # 0 /\ state = "Recovering" /\ expected' >= recovery_end

Settle(source) ==
  \/ /\ Closed
     /\ state' = "Synced"
     /\ ClearRecovery
     /\ UNCHANGED gap_age
  \/ /\ Uncovered
     /\ state' = "Gap"
     /\ gap_age' = 0
     /\ ClearRecovery
  \/ /\ ~ Closed /\ ~ Uncovered
     /\ UNCHANGED <<state, gap_age, attempts, recovery_end>>
     /\ RestartClock(source)

-----------------------------------------------------------------------------
(***************************************************************************)
(* on_message and on_retransmit: the paths of ingest.  A duplicate moves   *)
(* nothing but a counter that is not modelled, so it is no step.           *)
(***************************************************************************)

\* Fault: every message is taken to be the one owed downstream.
FrontAnywhere(s) == s

\* The first message of all says where the stream starts.
Front(s) == IF started THEN expected ELSE s

\* s is the sequence owed downstream: hand it over, drain what it unblocks.
InOrder(source, s) ==
  LET end == DrainEnd(s + 1)
      out == Release(s + 1, end)
  IN  /\ s = Front(s)
      /\ started' = TRUE
      /\ first' = IF started THEN first ELSE s
      /\ expected' = end
      /\ slots' = Vacate(s, end)
      /\ pending' = pending - Len(out)
      /\ delivered' = delivered \o <<Message(s, s)>> \o out
      /\ Settle(source)
      /\ stats' = [stats EXCEPT
           !.accepted = @ + 1 + Len(out),
           !.recovered = IF Closed \/ Uncovered THEN @ + 1 ELSE @,
           !.detected = IF Uncovered THEN @ + 1 ELSE @]
      /\ request' = NoRequest
      /\ UNCHANGED <<bytes, resets>>

\* s is ahead of the front and new.  When it lies beyond the window the front
\* slides by the least that makes room, and drains from there.
Ahead(s) == started /\ s > expected /\ ~ Present(s)
Overflows(s) == s - expected >= Cap
TargetFar(s) == IF Overflows(s) THEN s ELSE expected   \* Fault: skip all
Target(s) == IF Overflows(s) THEN s - (Cap - 1) ELSE expected
Jumps(s) == Target(s) - expected >= Cap
Slid(s) == IF Overflows(s) THEN DrainEnd(Target(s)) ELSE expected

\* There is room for s: hold it until the front reaches it.
Hold(source, s) ==
  LET out == Release(expected, Slid(s))
      alone == pending = Len(out)
  IN  /\ Ahead(s) /\ ~ Jumps(s) /\ Slid(s) # s
      /\ s \notin Wide
      /\ expected' = Slid(s)
      /\ slots' = [Vacate(expected, Slid(s)) EXCEPT
                     ![s % Cap] = [seq |-> s, present |-> TRUE]]
      /\ bytes' = [bytes EXCEPT ![s % Cap] = s]
      /\ pending' = pending - Len(out) + 1
      /\ delivered' = delivered \o out
      /\ gap_age' = IF alone THEN 0 ELSE gap_age
      /\ stats' = [stats EXCEPT
           !.accepted = @ + Len(out),
           !.dropped = @ + Cardinality(Missing(expected, Target(s))),
           !.detected = IF alone THEN @ + 1 ELSE @]
      /\ IF Overflows(s)
           THEN EnterStale
           ELSE /\ state' = IF state = "Synced" THEN "Gap" ELSE state
                /\ RestartClock(source)
                /\ UNCHANGED <<attempts, recovery_end>>
      /\ request' = NoRequest
      /\ UNCHANGED <<started, first, resets>>

\* A payload that no slot can hold is a lost message.
TooWide(s) ==
  LET out == Release(expected, Slid(s))
  IN  /\ Ahead(s) /\ ~ Jumps(s) /\ Slid(s) # s
      /\ s \in Wide /\ stats.dropped < MaxDropped
      /\ expected' = Slid(s)
      /\ slots' = Vacate(expected, Slid(s))
      /\ pending' = pending - Len(out)
      /\ delivered' = delivered \o out
      /\ stats' = [stats EXCEPT
           !.accepted = @ + Len(out),
           !.dropped = @ + Cardinality(Missing(expected, Target(s))) + 1]
      /\ IF Overflows(s) THEN EnterStale ELSE UNCHANGED <<state, recovery>>
      /\ request' = NoRequest
      /\ UNCHANGED <<started, bytes, gap_age, first, resets>>

\* The slide drained all the way up to s, which is therefore in order.
CatchUp(s) ==
  LET end == DrainEnd(s + 1)
      before == Release(expected, s)
      after == Release(s + 1, end)
  IN  /\ Ahead(s) /\ ~ Jumps(s) /\ Slid(s) = s
      /\ expected' = end
      /\ slots' = Vacate(expected, end)
      /\ pending' = pending - Len(before) - Len(after)
      /\ delivered' = delivered \o before \o <<Message(s, s)>> \o after
      /\ stats' = [stats EXCEPT
           !.accepted = @ + Len(before) + 1 + Len(after),
           !.dropped = @ + Cardinality(Missing(expected, Target(s)))]
      /\ EnterStale
      /\ request' = NoRequest
      /\ UNCHANGED <<started, bytes, gap_age, first, resets>>

\* s is so far ahead that nothing held survives: resynchronise on s.
Jump(s) ==
  /\ Ahead(s) /\ Jumps(s)
  /\ expected' = s + 1
  /\ slots' = EmptyRing
  /\ pending' = 0
  /\ delivered' = Append(delivered, Message(s, s))
  /\ stats' = [stats EXCEPT !.accepted = @ + 1,
                            !.dropped = @ + (s - expected)]
  /\ EnterStale
  /\ request' = NoRequest
  /\ UNCHANGED <<started, bytes, gap_age, first, resets>>

Ingest(source, s) ==
  \/ InOrder(source, s)
  \/ Hold(source, s)
  \/ TooWide(s)
  \/ CatchUp(s)
  \/ Jump(s)

-----------------------------------------------------------------------------
(***************************************************************************)
(* poll: the branches that change something.                               *)
(***************************************************************************)

UnderPressure == pending * 4 >= Cap * 3
GraceOver == gap_age = Grace

\* issue_request(): exactly the run missing at the front.
IssueRequest ==
  LET n == IF MissingRun > MaxRequest THEN MaxRequest ELSE MissingRun
  IN  /\ request' = [seq |-> expected, count |-> n]
      /\ recovery_end' = expected + n
      /\ time_left' = Timeout

PollAsk ==
  /\ state = "Gap"
  /\ UnderPressure \/ GraceOver
  /\ state' = "Recovering"
  /\ attempts' = 1
  /\ IssueRequest
  /\ UNCHANGED <<started, expected, slots, bytes, pending, gap_age, stats,
                 history>>

\* Fault: one attempt too many.
PollRetryOnceMore ==
  /\ state = "Recovering" /\ time_left = 0
  /\ attempts <= MaxAttempts
  /\ attempts' = attempts + 1
  /\ IssueRequest
  /\ UNCHANGED <<state, started, expected, slots, bytes, pending, gap_age,
                 stats, history>>

PollRetry ==
  /\ state = "Recovering" /\ time_left = 0
  /\ attempts < MaxAttempts
  /\ attempts' = attempts + 1
  /\ IssueRequest
  /\ UNCHANGED <<state, started, expected, slots, bytes, pending, gap_age,
                 stats, history>>

\* skip_hole(): step over the missing run and release what it held up.  What
\* is held bounds the run, so skip_to never has to empty the window here.
SkipHole ==
  LET target == expected + MissingRun
      end == DrainEnd(target)
      out == Release(target, end)
  IN  /\ expected' = end
      /\ slots' = Vacate(expected, end)
      /\ pending' = pending - Len(out)
      /\ delivered' = delivered \o out
      /\ stats' = [stats EXCEPT !.accepted = @ + Len(out),
                                !.dropped = @ + MissingRun]
      /\ request' = NoRequest
      /\ UNCHANGED <<started, bytes, first, resets>>

PollGiveUp ==
  /\ state = "Recovering" /\ time_left = 0
  /\ attempts >= MaxAttempts
  /\ SkipHole
  /\ EnterStale
  /\ UNCHANGED gap_age

\* Fault: a Stale feed is left alone.
PollStepOverNever == FALSE

PollStepOver ==
  /\ state = "Stale" /\ pending # 0 /\ GraceOver
  /\ SkipHole
  /\ gap_age' = 0
  /\ UNCHANGED <<state, recovery>>

Poll == PollAsk \/ PollRetry \/ PollGiveUp \/ PollStepOver

-----------------------------------------------------------------------------
\* reset: a new session, and the only way out of Stale.
Reset(f) ==
  /\ resets < MaxResets
  /\ resets' = resets + 1
  /\ slots' = EmptyRing
  /\ pending' = 0
  /\ expected' = f
  /\ state' = "Synced"
  /\ started' = TRUE
  /\ gap_age' = Grace
  /\ ClearRecovery
  /\ first' = f
  /\ delivered' = << >>
  /\ request' = NoRequest
  /\ UNCHANGED <<bytes, stats>>

\* The caller's clock moves between two calls.
Tick ==
  /\ gap_age < Grace \/ time_left > 0
  /\ gap_age' = IF gap_age < Grace THEN gap_age + 1 ELSE gap_age
  /\ time_left' = IF time_left > 0 THEN time_left - 1 ELSE 0
  /\ request' = NoRequest
  /\ UNCHANGED <<state, started, expected, slots, bytes, pending, attempts,
                 recovery_end, stats, history>>

Init ==
  /\ state = "Synced"
  /\ started = FALSE
  /\ expected = 0
  /\ slots = [i \in Index |-> [seq |-> 0, present |-> FALSE]]
  /\ bytes = [i \in Index |-> 0]
  /\ pending = 0
  /\ gap_age = Grace
  /\ time_left = 0 /\ attempts = 0 /\ recovery_end = 0
  /\ stats = [c \in Counter |-> 0]
  /\ request = NoRequest
  /\ first = 0
  /\ delivered = << >>
  /\ resets = 0

Next ==
  \/ \E source \in Source, s \in Numbers : Ingest(source, s)
  \/ Poll
  \/ \E f \in Numbers : Reset(f)
  \/ Tick

Spec == Init /\ [][Next]_vars

-----------------------------------------------------------------------------
\* The variables have their types: in particular pending_ never goes below zero
\* and recovery_attempts_ never past the configured number.
TypeOK ==
  /\ state \in FeedState
  /\ started \in BOOLEAN
  /\ expected \in Nat
  /\ slots \in [Index -> Slot]
  /\ bytes \in [Index -> Nat]
  /\ pending \in Nat
  /\ gap_age \in 0 .. Grace /\ time_left \in 0 .. Timeout
  /\ attempts \in 0 .. MaxAttempts
  /\ recovery_end \in Nat
  /\ stats \in [Counter -> Nat]
  /\ request \in [seq : Nat, count : 0 .. MaxRequest]
  /\ first \in Nat
  /\ delivered \in Seq([seq : Nat, body : Nat])
  /\ resets \in 0 .. MaxResets

Delivered == {delivered[i].seq : i \in DOMAIN delivered}
Held == {slots[i].seq : i \in {j \in Index : slots[j].present}}

\* "The one rule that outranks everything else is that downstream sees strictly
\* increasing sequences", whatever the lines lose, repeat and reorder.
StrictlyIncreasing ==
  \A i, j \in DOMAIN delivered : i < j => delivered[i].seq < delivered[j].seq

\* What the sink is handed as sequence s is what was published as s, never
\* what an earlier lap of the ring left in the slot of s.
Intact == \A i \in DOMAIN delivered : delivered[i].body = delivered[i].seq

\* The window is what the code believes it is: pending_ counts the slots in
\* use, and each holds, with its own bytes, a sequence ahead of the front and
\* within one window of it, so the slot of expected_ is never occupied.
WindowExact ==
  /\ pending = Cardinality({i \in Index : slots[i].present})
  /\ \A i \in Index : slots[i].present =>
       /\ slots[i].seq % Cap = i
       /\ slots[i].seq > expected /\ slots[i].seq < expected + Cap
       /\ bytes[i] = slots[i].seq

\* A feed that has not gone Stale has handed over every sequence since the
\* session began: "when this file cannot deliver in order it says so by going
\* Stale".
CompleteUnlessStale ==
  state # "Stale" =>
    delivered = [i \in 1 .. expected - first |-> Message(first + i - 1, first + i - 1)]

\* The state machine and the window agree: nothing is held by a Synced feed,
\* something is held in a Gap, and a recovery is about the hole at the front.
StateMatchesWindow ==
  /\ state = "Synced" => pending = 0
  /\ state \in {"Gap", "Recovering"} => pending > 0
  /\ IF state = "Recovering"
       THEN attempts >= 1 /\ expected < recovery_end
       ELSE attempts = 0 /\ time_left = 0 /\ recovery_end = 0

\* "Ask for exactly the run that is missing, no more": a request starts at the
\* front, names nothing that is held, and stops short of the next held message
\* only at the most a request can name.
RequestIsExact ==
  request # NoRequest =>
    /\ request.seq = expected
    /\ request.count \in 1 .. MaxRequest
    /\ \A n \in expected .. expected + request.count - 1 : n \notin Held
    /\ request.count = MaxRequest \/ expected + request.count \in Held

\* A gap is counted recovered at most once for each time it was counted
\* detected, and the one still open is not counted recovered yet, also when two
\* holes first looked like one.
GapsBalance ==
  stats.recovered + (IF state \in {"Gap", "Recovering"} THEN 1 ELSE 0)
    <= stats.detected

\* "Skipping the least possible is what keeps a message that was already
\* received from being thrown away": a held message leaves the window only
\* downstream, unless one message moves the front by two windows.
HeldIsDelivered ==
  [][resets' = resets /\ expected' - expected < 2 * Cap
       => Held \subseteq Held' \cup Delivered']_vars

\* The counters miss nothing and invent nothing: a call adds one to accepted for
\* each message it hands the sink, and one to dropped for each sequence the front
\* passes that the sink was not handed.  A payload too wide for a slot adds one
\* more each time it is thrown away, though the front has not passed it: it is
\* counted again when the front skips it, or handed over when it comes in order.
FrontIsAccounted ==
  [][resets' = resets /\ started =>
       /\ stats'.accepted - stats.accepted = Len(delivered') - Len(delivered)
       /\ stats'.dropped - stats.dropped
            = Cardinality({n \in expected .. expected' - 1 : n \notin Delivered'})
              + (IF \E s \in Wide : TooWide(s) THEN 1 ELSE 0)]_vars

-----------------------------------------------------------------------------
(***************************************************************************)
(* The arbitrator seen from downstream.                                    *)
(***************************************************************************)
Downstream == INSTANCE OrderedFeed WITH
  open <- started, next <- expected, out <- delivered, honest <- state # "Stale"

\* Every call of the arbitrator is a step the order book was promised: it
\* receives a strictly increasing, intact stream, complete until the feed says
\* Stale, and Stale until a new session.
ImplementsOrderedFeed == Downstream!Spec

\* The receive loop polls over and over and the clock does not stop, so a poll
\* that can change something is not put off for ever.
Fairness == WF_vars(Poll) /\ WF_vars(Tick)
FairSpec == Spec /\ Fairness

\* "What it must not do is leave messages sitting in the window forever": what
\* is held behind a hole reaches the sink or is abandoned, whatever is lost.
HeldIsReleased == \A s \in Numbers : s \in Held ~> s \notin Held
=============================================================================
