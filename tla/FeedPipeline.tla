---------------------------- MODULE FeedPipeline ----------------------------
(***************************************************************************)
(* The feed from file to book: the publisher process                       *)
(* (tools/tickerplant_pub.cpp) with its thread that answers requests, two  *)
(* lines and a unicast socket that lose datagrams, and the receive loop    *)
(* (tools/tickerplant_rx.cpp) around the arbitrator of Sequencer.          *)
(*                                                                         *)
(* A datagram is [to, seq, count] and carries the messages seq ..          *)
(* seq + count - 1, as a MoldUDP64 header says it does.  A line is the     *)
(* datagrams on their way and in the socket: a datagram that is lost, in   *)
(* the network or by --drop, is never put on it.  Delays are the           *)
(* publisher's: a packet that is held back, and every packet of line B     *)
(* when it is skewed, waits in one queue and leaves in its order.  When    *)
(* they are due is left open.                                              *)
(*                                                                         *)
(* The race inside the store is in RetransmitStore; here a fetch is one    *)
(* step.  The clock of the receiver moves while its loop is at a line, in  *)
(* a receive call: an empty line is returned from at once or after up to   *)
(* Wait ticks, as the receive strategy has it (200 ms of a blocking read,  *)
(* 10 ms of epoll and kqueue, microseconds of a loop that spins).          *)
(***************************************************************************)
EXTENDS Sequencer

CONSTANTS
  MaxMessages,  \* messages in the file
  Batch,        \* opt.batch
  Room,         \* what one datagram holds
  Large,        \* the messages that take two units of it; the others take one
  StoreSlots,   \* opt.store_capacity
  IdleExit,     \* opt.idle_exit_ms, in ticks
  Wait,         \* the ticks one receive call may take
  MaxLate       \* bound on the packets held back

ASSUME PipelineAssumption ==
  /\ 1 \in Numbers /\ 1 .. MaxMessages \subseteq Numbers
  /\ MaxResets \in Nat \ {0}
  /\ MaxMessages \in Nat
  /\ Batch \in Nat \ {0} /\ StoreSlots \in Nat \ {0}
  /\ Room \in Nat \ {0, 1} /\ Room < 65535
  /\ IdleExit \in Nat /\ Wait \in Nat \ {0} /\ MaxLate \in Nat

VARIABLES
  pub,      \* where the publishing thread is, sequence, builder.count()
  delayed,  \* the deque of packets held back
  line,     \* per line, the datagrams on their way
  asks,     \* requests on their way to the server
  answers,  \* the server's answers on their way back
  rx,       \* where the receive loop is, got_any, the time since last_traffic,
            \* and what is left of the wait of the receive call
  hand      \* the messages of the datagram in hand still to be given over

network == <<delayed, line, asks, answers>>
pipeline == <<pub, network, rx, hand>>

Line == {"A", "B"}
EndOfSession == 65535

\* What the messages s .. s + n - 1 take of a datagram.
Size(s, n) == n + Cardinality(Large \cap s .. s + n - 1)

Datagram(l, s, n) == [to |-> l, seq |-> s, count |-> n]

-----------------------------------------------------------------------------
(***************************************************************************)
(* The publishing thread.                                                  *)
(***************************************************************************)

\* The datagrams of a queue that go to line l.
Bound(q, l) ==
  LET own == {i \in DOMAIN q : q[i].to = l}
      turn == InOrderOf(own)
  IN  [j \in 1 .. Cardinality(own) |-> q[turn[j]]]

Copy(l, s, n, fate) == IF fate[l] THEN <<Datagram(l, s, n)>> ELSE << >>

\* flush_packet: first what is due of the delayed packets, then this one on
\* each line that does not lose it.  A packet held back is late on both lines,
\* one on a skewed line B on that line alone.
Flush(s, n, next) ==
  \E due \in 0 .. Len(delayed), fate \in [Line -> BOOLEAN],
     late \in IF pub.late < MaxLate THEN {{}, {"B"}, Line} ELSE {{}} :
    LET leaving == SubSeq(delayed, 1, due)
        Kept(l) == IF l \in late THEN Copy(l, s, n, fate) ELSE << >>
        Sent(l) == IF l \in late THEN << >> ELSE Copy(l, s, n, fate)
    IN  /\ line' = [l \in Line |-> line[l] \o Bound(leaving, l) \o Sent(l)]
        /\ delayed' = SubSeq(delayed, due + 1, Len(delayed))
                        \o Kept("A") \o Kept("B")
        /\ pub' = [next EXCEPT !.late = IF late = {} THEN @ ELSE @ + 1]

\* Fault: a message goes out before the store has it.
StoreLate ==
  /\ pub.at = "store" /\ pub.sequence <= MaxMessages
  /\ pub' = [pub EXCEPT !.at = "append", !.stored = pub.sequence - 1]
  /\ UNCHANGED network

\* The message goes into the retransmission store before anything else.
Store ==
  /\ pub.at = "store" /\ pub.sequence <= MaxMessages
  /\ pub' = [pub EXCEPT !.at = "append", !.stored = pub.sequence]
  /\ UNCHANGED network

\* try_append, and a flush when the packet has opt.batch messages or no room.
AppendMessage ==
  LET s == pub.sequence
      n == pub.count
      Appended(k) == [pub EXCEPT !.at = "store", !.sequence = s + 1, !.count = k]
      Fits == Size(s - n, n + 1) <= Room
  IN  /\ pub.at = "append"
      /\ \/ /\ Fits /\ n + 1 < Batch
            /\ pub' = Appended(n + 1)
            /\ UNCHANGED <<line, delayed>>
         \/ Fits /\ n + 1 >= Batch /\ Flush(s - n, n + 1, Appended(0))
         \/ ~ Fits /\ Flush(s - n, n, Appended(1))
      /\ UNCHANGED <<asks, answers>>

\* The file is at its end: what is in the builder leaves.
LastPacket ==
  /\ pub.at = "store" /\ pub.sequence > MaxMessages
  /\ LET next == [pub EXCEPT !.at = "drain", !.count = 0]
     IN  IF pub.count = 0
           THEN pub' = next /\ UNCHANGED <<line, delayed>>
           ELSE Flush(pub.sequence - pub.count, pub.count, next)
  /\ UNCHANGED <<asks, answers>>

\* Fault: the end of the session does not wait for what is held back.
DrainedNever == TRUE

\* Everything held back leaves before the session ends.
Drained == delayed = << >>

Drain ==
  /\ pub.at = "drain" /\ delayed # << >>
  /\ \E due \in 1 .. Len(delayed) :
       /\ line' = [l \in Line |-> line[l] \o Bound(SubSeq(delayed, 1, due), l)]
       /\ delayed' = SubSeq(delayed, due + 1, Len(delayed))
  /\ UNCHANGED <<pub, asks, answers>>

\* The end of session packet on each line, named after the next message.  The
\* second copy of it is left out: it is counted, and nothing else.
End ==
  /\ pub.at = "drain" /\ Drained
  /\ pub' = [pub EXCEPT !.at = "grace"]
  /\ line' = [l \in Line |->
                Append(line[l], Datagram(l, pub.sequence, EndOfSession))]
  /\ UNCHANGED <<delayed, asks, answers>>

\* The half second for late requests is over: the server is stopped.
Stop ==
  /\ pub.at = "grace"
  /\ pub' = [pub EXCEPT !.at = "gone"]
  /\ UNCHANGED network

Publisher ==
  /\ Store \/ AppendMessage \/ LastPacket \/ Drain \/ End \/ Stop
  /\ UNCHANGED <<vars, rx, hand>>

-----------------------------------------------------------------------------
(***************************************************************************)
(* The server thread.                                                      *)
(***************************************************************************)
Fetched(s) == s \in 1 .. pub.stored /\ s > pub.stored - StoreSlots

\* As much of the request as is found in a row and fits one datagram; an answer
\* with nothing in it is not sent.
Answered(ask) ==
  Min({n \in 0 .. ask.count :
         \/ n = ask.count
         \/ ~ Fetched(ask.seq + n)
         \/ Size(ask.seq, n + 1) > Room})

Serve ==
  /\ pub.at # "gone" /\ asks # << >>
  /\ LET ask == Head(asks)
         n == Answered(ask)
         answer == <<Datagram("rx", ask.seq, n)>>
     IN  \/ n > 0 /\ answers' = answers \o answer
         \/ answers' = answers
  /\ asks' = Tail(asks)
  /\ UNCHANGED <<vars, pub, delayed, line, rx, hand>>

-----------------------------------------------------------------------------
(***************************************************************************)
(* The receive loop.                                                       *)
(***************************************************************************)

\* The messages of a datagram, in the order PacketView walks them; an end of
\* session packet is counted and carries none.
Messages(source, d) ==
  [i \in 1 .. IF d.count = EndOfSession THEN 0 ELSE d.count |->
     [source |-> source, seq |-> d.seq + i - 1]]

\* main: the arbitrator starts a session at sequence 1 before the first look at
\* a line, so that whatever is missing from there on is a gap.
StartSession ==
  /\ rx.at = "start"
  /\ Reset(1)
  /\ rx' = [rx EXCEPT !.at = "A", !.left = Wait]
  /\ UNCHANGED <<pub, network, hand>>

\* A datagram comes, and the next receive call may wait as long again.  How long
\* the feed has been quiet is not asked before the end of a turn with traffic.
ReadLine(l) ==
  /\ rx.at = l /\ hand = << >> /\ line[l] # << >>
  /\ hand' = Messages("line", Head(line[l]))
  /\ line' = [line EXCEPT ![l] = Tail(@)]
  /\ rx' = [rx EXCEPT !.got = TRUE, !.idle = 0, !.left = Wait]
  /\ UNCHANGED <<vars, pub, delayed, asks, answers>>

ReadAnswer ==
  /\ rx.at = "answers" /\ hand = << >> /\ answers # << >>
  /\ hand' = Messages("retransmit", Head(answers))
  /\ answers' = Tail(answers)
  /\ rx' = [rx EXCEPT !.got = TRUE, !.idle = 0]
  /\ UNCHANGED <<vars, pub, delayed, line, asks>>

\* A socket with nothing to read, after a wait of any length: on to the next.
Then(next, left) == rx' = [rx EXCEPT !.at = next, !.left = left]

NothingToRead ==
  /\ hand = << >>
  /\ \/ rx.at = "A" /\ line["A"] = << >> /\ Then("B", Wait)
     \/ rx.at = "B" /\ line["B"] = << >> /\ Then("answers", 0)
     \/ rx.at = "answers" /\ answers = << >> /\ Then("poll", 0)
  /\ UNCHANGED <<vars, pub, network, hand>>

\* on_message or on_retransmit for the next message in hand.
Duplicate(s) == s < expected \/ Present(s)

GiveToArbitrator ==
  /\ hand # << >>
  /\ LET m == Head(hand)
     IN  IF Duplicate(m.seq) THEN UNCHANGED vars ELSE Ingest(m.source, m.seq)
  /\ hand' = Tail(hand)
  /\ UNCHANGED <<pub, network, rx>>

\* Fault: the gap state machine is driven by traffic alone.
PollDueOnTraffic ==
  rx.got /\ \/ state = "Gap" /\ (UnderPressure \/ GraceOver)
            \/ state = "Recovering" /\ time_left = 0
            \/ state = "Stale" /\ pending # 0 /\ GraceOver

\* When a poll changes something.
PollDue ==
  \/ state = "Gap" /\ (UnderPressure \/ GraceOver)
  \/ state = "Recovering" /\ time_left = 0
  \/ state = "Stale" /\ pending # 0 /\ GraceOver

\* The end of a turn: poll, send what it asks for, and leave when the feed has
\* been quiet for long enough.  A turn without traffic polls too.
EndTurn ==
  /\ rx.at = "poll"
  /\ IF PollDue THEN Poll ELSE UNCHANGED vars
  /\ \/ PollDue /\ request' # NoRequest /\ asks' = Append(asks, request')
     \/ asks' = asks
  /\ rx' = [at |-> IF ~ rx.got /\ delivered' # << >> /\ rx.idle > IdleExit
                     THEN "exited" ELSE "A",
            got |-> FALSE,
            idle |-> IF rx.got THEN 0 ELSE rx.idle,
            left |-> Wait]
  /\ UNCHANGED <<pub, delayed, line, answers, hand>>

Receiver ==
  \/ StartSession
  \/ \E l \in Line : ReadLine(l)
  \/ ReadAnswer \/ NothingToRead \/ GiveToArbitrator \/ EndTurn

\* Time passes in a receive call.  The instants the loop works with are taken
\* after one: now_ns() for the datagrams it returned, and for the answers, the
\* poll and the idle time once both lines have been drained.
Clock ==
  /\ rx.at \in Line /\ hand = << >> /\ rx.left > 0
  /\ rx' = [rx EXCEPT !.left = @ - 1,
                      !.idle = IF rx.got \/ @ > IdleExit THEN @ ELSE @ + 1]
  /\ IF gap_age < Grace \/ time_left > 0 THEN Tick ELSE UNCHANGED vars
  /\ UNCHANGED <<pub, network, hand>>

-----------------------------------------------------------------------------
PipelineInit ==
  /\ Init
  /\ pub = [at |-> "store", sequence |-> 1, count |-> 0, stored |-> 0, late |-> 0]
  /\ delayed = << >>
  /\ line = [l \in Line |-> << >>]
  /\ asks = << >> /\ answers = << >>
  /\ rx = [at |-> "start", got |-> FALSE, idle |-> 0, left |-> 0]
  /\ hand = << >>

PipelineNext == Publisher \/ Serve \/ Receiver \/ Clock

PipelineSpec == PipelineInit /\ [][PipelineNext]_<<vars, pipeline>>

-----------------------------------------------------------------------------
\* "The retransmission store has to hold the message before it goes out,
\* because a receiver can ask for it the instant it notices the gap": whatever
\* is on its way on a line, held back, or asked for, the store has had.
LastOf(d) == d.seq + d.count - 1

SentIsStored ==
  /\ \A l \in Line : \A i \in DOMAIN line[l] :
       line[l][i].count # EndOfSession => LastOf(line[l][i]) <= pub.stored
  /\ \A i \in DOMAIN delayed : LastOf(delayed[i]) <= pub.stored
  /\ \A i \in DOMAIN asks : LastOf(asks[i]) <= pub.stored

\* "Everything still held back has to go out before the session ends": once an
\* end of session packet is on a line no data follows it there, however late it
\* was sent, and none is left in the publisher.
EndComesLast ==
  \A l \in Line : \A i \in DOMAIN line[l] :
    line[l][i].count = EndOfSession =>
      /\ delayed = << >>
      /\ \A j \in i + 1 .. Len(line[l]) : line[l][j].count = EndOfSession

\* Without traffic: the longest from one poll to the next, from a poll that sets
\* a timer of n ticks to the one that finds it over, and until a hole that nobody
\* answers for has been given up.
Turn == 2 * Wait
Noticed(n) == n + Turn - 1
GivesUpAfter == Noticed(Grace) + MaxAttempts * Noticed(Timeout)

\* A turn without traffic drives the gap state machine too, so a receiver that
\* leaves an idle feed never leaves a gap unasked, nor a request before its last
\* attempt: one that still holds messages is Stale, and ends with an error.  And
\* it holds so many only for want of time: every further grace period of its idle
\* time let go of one, until nothing was left.
HeldAtExitIsLoud ==
  rx.at = "exited" /\ pending # 0 =>
    /\ state = "Stale"
    /\ IdleExit + Turn < GivesUpAfter + (Cap - 1 - pending) * Noticed(Grace)

\* "The whole point of the gap state machine is that unrecovered loss is loud":
\* a receiver that has read everything, the end of session packet included, and
\* leaves without being Stale, was handed the last message published.
UnrecoveredLossIsLoud ==
  /\ rx.at = "exited" /\ state # "Stale"
  /\ pub.at = "gone" /\ \A l \in Line : line[l] = << >>
  => expected = pub.sequence
=============================================================================
