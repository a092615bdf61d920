------------------------------ MODULE MoldWire ------------------------------
(***************************************************************************)
(* MoldUDP64 packets of moldudp64.hpp between a builder that fills one     *)
(* buffer again and again and a receiver that trusts no length: the header *)
(* of twenty bytes, the blocks behind it, the heartbeat, the end of        *)
(* session and the request.  A datagram may reach the receiver cut short   *)
(* or with more bytes of the buffer behind it.                             *)
(***************************************************************************)
EXTENDS WireBytes

CONSTANTS Base,         \* values of a byte, 256 in the code
          BufLen,       \* the builder's buffer
          Sessions,     \* lengths of the session's name
          Messages,     \* what the caller appends
          Firsts,       \* sequence numbers a packet starts at
          MaxPackets    \* bound: packets written into the buffer

VARIABLES buf,      \* the builder's buffer
          size,     \* size_
          count,    \* count_
          session,  \* session_, before it is padded or cut
          packet,   \* history: what the bytes in the buffer were written from
          view      \* what the receiver made of the datagram it got

moldVars == <<buf, size, count, session, packet, view>>

kHeaderLen == 20
kSessionLen == 10
kOffSession == 0
kOffSequence == 10
kOffCount == 18
kBlockLenBytes == 2
kEndOfSession == Base * Base - 1
kMaxCount == kEndOfSession - 1

\* An integer of w bytes in the host, and what the bytes of one are worth.
WordBytes(v, w) == [k \in 1 .. w |-> (v \div Base ^ (k - 1)) % Base]
Worth(v) == FoldLeftDomain(LAMBDA n, k : n + v[k] * Base ^ (k - 1), 0, v)

Number(p, o, w) == Worth(Load(p, o, w))

-----------------------------------------------------------------------------
(* Encoding.                                                               *)

WriteHeader(b, name, sequence, n) ==
  Written(b, << <<kOffSession, PutAlpha(name, kSessionLen)>>,
                <<kOffSequence, BeStore(WordBytes(sequence, 8))>>,
                <<kOffCount, BeStore(WordBytes(n, 2))>> >>)

\* Fault: a packet may be filled up to the count that ends the session.
MayAppendOneMore(msg) ==
  /\ count < kEndOfSession
  /\ Len(msg) < Base * Base
  /\ kBlockLenBytes + Len(msg) <= BufLen - size

\* What try_append refuses is too many blocks, a length that two bytes cannot
\* hold, and no room.
MayAppend(msg) ==
  /\ count < kMaxCount
  /\ Len(msg) < Base * Base
  /\ kBlockLenBytes + Len(msg) <= BufLen - size

-----------------------------------------------------------------------------
(* Decoding.  p is the datagram, a function on 0 .. n - 1.                 *)

Refused == [ok |-> FALSE]

ParseHeader(p, n) ==
  IF n < kHeaderLen THEN Refused
  ELSE [ok |-> TRUE, session |-> Trimmed(Bytes(p, kOffSession, kSessionLen)),
        sequence |-> Number(p, kOffSequence, 8), count |-> Number(p, kOffCount, 2)]

\* The offset behind i blocks, or Overrun when a prefix or a body runs past the
\* end of the datagram.
Overrun == -1
Behind(p, n, blocks) ==
  LET off[i \in 0 .. blocks] ==
        IF i = 0 THEN kHeaderLen
        ELSE LET o == off[i - 1]
             IN  IF o = Overrun \/ n - o < kBlockLenBytes THEN Overrun
                 ELSE LET len == Number(p, o, kBlockLenBytes)
                      IN  IF n - o - kBlockLenBytes < len THEN Overrun
                          ELSE o + kBlockLenBytes + len
  IN  off

\* The bodies, as the iterator walks them.
Walk(p, off, blocks) ==
  [i \in 1 .. blocks |->
     Bytes(p, off[i - 1] + kBlockLenBytes, Number(p, off[i - 1], kBlockLenBytes))]

Parse(p, n) ==
  LET h == ParseHeader(p, n)
      blocks == IF h.count = kEndOfSession THEN 0 ELSE h.count
      off == Behind(p, n, blocks)
  IN  IF ~ h.ok THEN Refused
      ELSE IF off[blocks] # n THEN Refused
      ELSE [ok |-> TRUE, header |-> h, messages |-> Walk(p, off, blocks)]

-----------------------------------------------------------------------------
Nothing == [kind |-> "nothing", number |-> 0]
Unseen == [parsed |-> Refused, header |-> Refused, length |-> -1]

MoldInit ==
  /\ session \in {[k \in 1 .. n |-> <<"session", k>>] : n \in Sessions}
  /\ buf = [i \in 0 .. BufLen - 1 |-> 0]
  /\ size = 0 /\ count = 0
  /\ packet = Nothing
  /\ view = Unseen

\* reset: the header is written in full.
Reset(first) ==
  /\ packet.number < MaxPackets
  /\ packet.kind # "open"
  /\ buf' = WriteHeader(buf, session, first, 0)
  /\ size' = kHeaderLen /\ count' = 0
  /\ packet' = [kind |-> "open", number |-> packet.number + 1, first |-> first,
                messages |-> << >>]
  /\ view' = Unseen
  /\ UNCHANGED session

TryAppend(msg) ==
  /\ packet.kind = "open"
  /\ IF MayAppend(msg)
       THEN /\ buf' = Written(buf, << <<size, BeStore(WordBytes(Len(msg), kBlockLenBytes))>>,
                                      <<size + kBlockLenBytes, msg>> >>)
            /\ size' = size + kBlockLenBytes + Len(msg)
            /\ count' = count + 1
            /\ packet' = [packet EXCEPT !.messages = Append(@, msg)]
       ELSE UNCHANGED <<buf, size, count, packet>>
  /\ UNCHANGED <<session, view>>

\* finish: the count is stamped into the header.
Finish ==
  /\ packet.kind = "open"
  /\ buf' = Written(buf, << <<kOffCount, BeStore(WordBytes(count, 2))>> >>)
  /\ packet' = [packet EXCEPT !.kind = "data"]
  /\ UNCHANGED <<size, count, session, view>>

\* heartbeat, end_of_session and request: a header and nothing else.
WriteControl(kind, first, n) ==
  /\ packet.number < MaxPackets
  /\ packet.kind # "open"
  /\ buf' = WriteHeader(buf, session, first, n)
  /\ size' = kHeaderLen
  /\ packet' = [kind |-> kind, number |-> packet.number + 1, first |-> first,
                messages |-> << >>, count |-> n]
  /\ view' = Unseen
  /\ UNCHANGED <<count, session>>

\* The first n bytes arrive: a subscriber parses them, a server reads a header.
Arrive(n) ==
  LET p == [i \in 0 .. n - 1 |-> buf[i]]
  IN  /\ packet.kind \notin {"nothing", "open"}
      /\ view' = [parsed |-> Parse(p, n), header |-> ParseHeader(p, n), length |-> n]
      /\ UNCHANGED <<buf, size, count, session, packet>>

Arrivals == {0, kHeaderLen - 1, kHeaderLen, size - 1, size, size + 1, BufLen} \cap 0 .. BufLen

MoldNext ==
  \/ \E first \in Firsts :
       \/ Reset(first)
       \/ WriteControl("heartbeat", first, 0)
       \/ WriteControl("end of session", first, kEndOfSession)
       \/ \E n \in 1 .. kMaxCount : WriteControl("request", first, n)
  \/ \E msg \in Messages : TryAppend(msg)
  \/ Finish
  \/ \E n \in Arrivals : Arrive(n)

-----------------------------------------------------------------------------
(* A packet that arrives whole gives the receiver the session, the first   *)
(* sequence and exactly the messages that were appended, whatever the      *)
(* buffer held before, and only an end of session is taken for one; one    *)
(* that is cut short or has bytes left over is refused, and no byte past   *)
(* its end is read (moldudp64.hpp:68-71, 207-215 and 306-308).  A request  *)
(* reads as the numbers it was written from.                               *)
PacketsSurvive ==
  LET name == SubSeq(session, 1, Min({kSessionLen, Len(session)}))
      parsed == view.parsed
      exact == view.length = size
  IN  /\ packet.kind = "data" /\ view # Unseen =>
           /\ parsed.ok <=> exact
           /\ parsed.ok =>
                /\ parsed.messages = packet.messages
                /\ parsed.header = [ok |-> TRUE, session |-> name, sequence |-> packet.first,
                                    count |-> Len(packet.messages)]
                /\ parsed.header.count # kEndOfSession
      /\ packet.kind \in {"heartbeat", "end of session"} /\ view # Unseen =>
           /\ parsed.ok <=> exact
           /\ parsed.ok => parsed.messages = << >> /\ parsed.header.sequence = packet.first
           /\ parsed.ok => (parsed.header.count = kEndOfSession
                              <=> packet.kind = "end of session")
      /\ packet.kind = "request" /\ view # Unseen =>
           /\ view.header.ok <=> view.length >= kHeaderLen
           /\ view.header.ok => /\ view.header.sequence = packet.first
                                /\ view.header.count = packet.count
           /\ exact => ~ parsed.ok
=============================================================================
