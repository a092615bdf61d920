------------------------- MODULE FeedPipelineProofs -------------------------
(***************************************************************************)
(* The pipeline's safety, for every file, batch, room, ring and timing,    *)
(* and whatever the network loses.                                         *)
(*                                                                         *)
(* Two facts carry it.  Everything that moves was stored before: the store *)
(* comes first in the publishing loop, and the arbitrator asks only up to  *)
(* something it holds, which was on a line.  And the publisher does not    *)
(* end before the queue of packets held back is empty.  Each queue is      *)
(* given the set its datagrams are in, so that what an operation on the    *)
(* queue keeps is a matter of its type.  That the receiver leaves with     *)
(* nothing held is a matter of time, and has an invariant at the end.      *)
(***************************************************************************)
EXTENDS FeedPipeline, SequencerProofs

DatagramType == [to : Line \cup {"rx"}, seq : Nat, count : Nat]

\* The datagrams, the answers and the requests that name nothing past n.
Sendable(n) == {d \in DatagramType :
                  d.seq >= 1 /\ d.count # EndOfSession /\ LastOf(d) <= n}
Returned(n) == {d \in DatagramType : d.seq >= 1 /\ LastOf(d) <= n}
Askable(n) == {a \in [seq : Nat, count : Nat] : LastOf(a) <= n}
Ends == {d \in DatagramType : d.count = EndOfSession}
Given(n) == [source : Source, seq : 1 .. n]

Over == pub.at \in {"grace", "gone"}

PublisherType ==
  [at : {"store", "append", "drain", "grace", "gone"},
   sequence : Nat, count : Nat, stored : Nat, late : Nat]

ReceiverType ==
  [at : {"start", "A", "B", "answers", "poll", "exited"},
   got : BOOLEAN, idle : Nat, left : 0 .. Wait]

\* The store is up with the loop, and what the builder holds came before.
StoreIsAhead ==
  /\ pub.sequence \in 1 .. MaxMessages + 1
  /\ pub.count < pub.sequence /\ pub.count <= Room
  /\ IF pub.at = "append" THEN pub.stored = pub.sequence /\ pub.stored <= MaxMessages
                          ELSE pub.stored = pub.sequence - 1

EndsLast(q) ==
  \A i, j \in DOMAIN q : i < j /\ q[i].count = EndOfSession => q[j].count = EndOfSession

\* Whatever moves was stored, whatever the arbitrator holds was on its way.
AllStored ==
  LET n == pub.stored
  IN  /\ delayed \in Seq(Sendable(n))
      /\ line \in [Line -> Seq(Sendable(n) \cup Ends)]
      /\ asks \in Seq(Askable(n))
      /\ answers \in Seq(Returned(n))
      /\ hand \in Seq(Given(n))
      /\ \A i \in Index : slots[i].present => slots[i].seq <= n

\* The end of the session is on a line only once nothing is held back.
EndIsEnd ==
  IF Over THEN delayed = << >> /\ \A l \in Line : EndsLast(line[l])
          ELSE line \in [Line -> Seq(Sendable(pub.stored))]

PInv ==
  /\ IInv
  /\ pub \in PublisherType /\ rx \in ReceiverType
  /\ StoreIsAhead
  /\ AllStored
  /\ EndIsEnd

-----------------------------------------------------------------------------
\* What names nothing past n names nothing past a later n.
LEMMA SetsWiden ==
  ASSUME NEW n \in Nat, NEW m \in Nat, n <= m
  PROVE  /\ Sendable(n) \subseteq Sendable(m) /\ Returned(n) \subseteq Returned(m)
         /\ Askable(n) \subseteq Askable(m) /\ Given(n) \subseteq Given(m)
<1>1. /\ \A d \in DatagramType : LastOf(d) \in Int
      /\ \A a \in [seq : Nat, count : Nat] : LastOf(a) \in Int
  BY DEF DatagramType, LastOf
<1>2. Sendable(n) \subseteq Sendable(m) /\ Returned(n) \subseteq Returned(m)
  BY <1>1 DEF Sendable, Returned
<1>3. Askable(n) \subseteq Askable(m)
  BY <1>1 DEF Askable
<1>4. 1 .. n \subseteq 1 .. m
  OBVIOUS
<1>5. Given(n) \subseteq Given(m)
  BY <1>4 DEF Given
<1> QED BY <1>2, <1>3, <1>5

\* What the constants promise.
LEMMA RoomFacts ==
  /\ MaxMessages \in Nat /\ Room \in Nat /\ Room >= 2 /\ Room < EndOfSession
  /\ Wait \in Nat \ {0} /\ IdleExit \in Nat /\ 0 \in 0 .. Wait /\ Wait \in 0 .. Wait
BY PipelineAssumption DEF EndOfSession

\* The facts of the invariant that a step starts from.
LEMMA PipelineFacts ==
  ASSUME PInv
  PROVE  /\ IInv /\ pub \in PublisherType /\ rx \in ReceiverType
         /\ pub.stored \in Nat /\ pub.stored <= MaxMessages /\ MaxMessages \in Nat
         /\ delayed \in Seq(Sendable(pub.stored))
         /\ line \in [Line -> Seq(Sendable(pub.stored) \cup Ends)]
         /\ asks \in Seq(Askable(pub.stored))
         /\ answers \in Seq(Returned(pub.stored))
         /\ hand \in Seq(Given(pub.stored))
         /\ \A i \in Index : slots[i].present => slots[i].seq <= pub.stored
<1>1. pub \in PublisherType /\ StoreIsAhead /\ AllStored /\ IInv /\ rx \in ReceiverType
  BY DEF PInv
<1>2. MaxMessages \in Nat
  BY RoomFacts
<1>3. pub.stored \in Nat /\ pub.sequence \in Nat
  BY <1>1 DEF PublisherType
<1>4. pub.stored <= MaxMessages
  BY <1>1, <1>2, <1>3 DEF StoreIsAhead
<1> QED BY <1>1, <1>2, <1>3, <1>4 DEF AllStored

\* The arbitrator is left alone, or takes a step of its own: its invariant holds.
LEMMA ArbitratorHolds ==
  ASSUME PInv, [Next]_vars
  PROVE  IInv'
BY StepHolds DEF PInv

\* A step that leaves the publisher, its queue and what it sent alone.
LEMMA PublisherRests ==
  ASSUME PInv, UNCHANGED <<pub, delayed>>
  PROVE  pub' \in PublisherType /\ StoreIsAhead' /\ delayed' \in Seq(Sendable(pub'.stored))
<1>1. pub \in PublisherType /\ StoreIsAhead /\ delayed \in Seq(Sendable(pub.stored))
  BY DEF PInv, AllStored
<1>2. pub' = pub /\ delayed' = delayed
  OBVIOUS
<1>3. StoreIsAhead'
  BY <1>1, <1>2 DEF StoreIsAhead
<1> QED BY <1>1, <1>2, <1>3

\* EndIsEnd speaks of the publisher and the lines alone.
LEMMA EndRests ==
  ASSUME PInv, UNCHANGED <<pub, delayed, line>>
  PROVE  EndIsEnd'
<1>1. pub' = pub /\ delayed' = delayed /\ line' = line /\ EndIsEnd
  BY DEF PInv
<1> QED BY <1>1 DEF EndIsEnd, Over, EndsLast

\* The ring, when the arbitrator is left alone.
LEMMA RingRests ==
  ASSUME PInv, UNCHANGED vars, NEW n \in Nat, pub.stored <= n
  PROVE  \A i \in Index : slots'[i].present => slots'[i].seq <= n
<1>1. slots' = slots
  BY DEF vars
<1>2. /\ \A i \in Index : slots[i].present => slots[i].seq <= pub.stored
      /\ pub.stored \in Nat /\ IInv
  BY PipelineFacts
<1>3. slots \in [Index -> Slot]
  BY <1>2, Facts
<1>4. \A i \in Index : slots[i].seq \in Nat
  BY <1>3 DEF Slot
<1> QED BY <1>1, <1>2, <1>4

-----------------------------------------------------------------------------
(***************************************************************************)
(* The publishing thread.                                                  *)
(***************************************************************************)
\* The datagrams of a queue that go to a line are datagrams of the queue.
LEMMA BoundFacts ==
  ASSUME NEW T, NEW q \in Seq(T), NEW l
  PROVE  Bound(q, l) \in Seq(T)
<1> DEFINE own == {i \in DOMAIN q : q[i].to = l}
           turn == InOrderOf(own)
<1>1. DOMAIN q = 1 .. Len(q) /\ Len(q) \in Nat
  OBVIOUS
<1>2. own \in SUBSET Nat /\ own \in SUBSET (1 .. Len(q)) /\ \A m \in own : m <= Len(q)
  BY <1>1
<1>0. IsFiniteSet(1 .. Len(q))
  BY <1>1, FS_Interval
<1> HIDE DEF own
<1>3. IsFiniteSet(own)
  BY <1>0, <1>2, FS_Subset
<1>4. /\ Cardinality(own) \in Nat
      /\ \A j \in 1 .. Cardinality(own) : turn[j] \in own
  BY <1>1, <1>2, <1>3, InOrderOfFacts
<1>5. \A j \in 1 .. Cardinality(own) : q[turn[j]] \in T
  <2> TAKE j \in 1 .. Cardinality(own)
  <2>1. turn[j] \in 1 .. Len(q)
    BY <1>2, <1>4
  <2> QED BY <2>1, ElementOfSeq
<1>6. Bound(q, l) = [j \in 1 .. Cardinality(own) |-> q[turn[j]]]
  BY DEF Bound, own
<1> QED BY <1>4, <1>5, <1>6, IsASeq

\* A piece of a sequence.
LEMMA PieceFacts ==
  ASSUME NEW T, NEW q \in Seq(T), NEW lo \in Nat, NEW hi \in Nat, lo >= 1, hi <= Len(q)
  PROVE  SubSeq(q, lo, hi) \in Seq(T)
<1>1. \A i \in lo .. hi : q[i] \in T
  BY ElementOfSeq
<1> QED BY <1>1, SubSeqProperties

\* A datagram takes at least one unit of room for each of its messages.
LEMMA SizeFacts ==
  ASSUME NEW s \in Nat, NEW n \in Nat
  PROVE  Size(s, n) \in Nat /\ Size(s, n) >= n
<1>1. IsFiniteSet(s .. s + n - 1)
  BY FS_Interval
<1>2. IsFiniteSet(Large \cap s .. s + n - 1)
  BY <1>1, FS_Subset
<1>3. Cardinality(Large \cap s .. s + n - 1) \in Nat
  BY <1>2, FS_CardinalityType
<1> QED BY <1>3 DEF Size

\* A flush puts the datagram and those held back on the lines, in the queue, or
\* nowhere.
LEMMA FlushFacts ==
  ASSUME NEW s \in Nat, NEW n \in Nat, NEW m \in Nat, NEW next \in PublisherType,
         s >= 1, n # EndOfSession, s + n - 1 <= m,
         delayed \in Seq(Sendable(m)), line \in [Line -> Seq(Sendable(m))],
         Flush(s, n, next)
  PROVE  /\ delayed' \in Seq(Sendable(m)) /\ line' \in [Line -> Seq(Sendable(m))]
         /\ pub' \in PublisherType
         /\ pub'.at = next.at /\ pub'.sequence = next.sequence
         /\ pub'.count = next.count /\ pub'.stored = next.stored
<1> DEFINE T == Sendable(m)
<1>1. PICK due \in 0 .. Len(delayed), fate \in [Line -> BOOLEAN],
           late \in (IF pub.late < MaxLate THEN {{}, {"B"}, Line} ELSE {{}}) :
        LET leaving == SubSeq(delayed, 1, due)
            Kept(l) == IF l \in late THEN Copy(l, s, n, fate) ELSE << >>
            Sent(l) == IF l \in late THEN << >> ELSE Copy(l, s, n, fate)
        IN  /\ line' = [l \in Line |-> line[l] \o Bound(leaving, l) \o Sent(l)]
            /\ delayed' = SubSeq(delayed, due + 1, Len(delayed)) \o Kept("A") \o Kept("B")
            /\ pub' = [next EXCEPT !.late = IF late = {} THEN @ ELSE @ + 1]
  BY DEF Flush
<1> DEFINE leaving == SubSeq(delayed, 1, due)
           rest == SubSeq(delayed, due + 1, Len(delayed))
           Kept(l) == IF l \in late THEN Copy(l, s, n, fate) ELSE << >>
           Sent(l) == IF l \in late THEN << >> ELSE Copy(l, s, n, fate)
<1>2. \A l \in Line : Datagram(l, s, n) \in T
  BY DEF Sendable, DatagramType, Datagram, LastOf
<1>3. \A l \in Line : Kept(l) \in Seq(T) /\ Sent(l) \in Seq(T)
  BY <1>2 DEF Copy
<1>4. Len(delayed) \in Nat
  BY LenProperties
<1>5. leaving \in Seq(T) /\ rest \in Seq(T)
  BY <1>4, PieceFacts
<1>6. \A l \in Line : line[l] \in Seq(T)
  OBVIOUS
<1>7. \A l \in Line : Bound(leaving, l) \in Seq(T)
  BY <1>5, BoundFacts
<1>8. /\ line' = [l \in Line |-> line[l] \o Bound(leaving, l) \o Sent(l)]
      /\ delayed' = rest \o Kept("A") \o Kept("B")
      /\ pub' = [next EXCEPT !.late = IF late = {} THEN @ ELSE @ + 1]
  BY <1>1
<1> HIDE DEF leaving, rest, Kept, Sent, T
<1>9. line' \in [Line -> Seq(T)]
  <2>1. \A l \in Line : line[l] \o Bound(leaving, l) \o Sent(l) \in Seq(T)
    BY <1>3, <1>6, <1>7, ConcatProperties
  <2> QED BY <1>8, <2>1
<1>10. delayed' \in Seq(T)
  <2>1. "A" \in Line /\ "B" \in Line
    BY DEF Line
  <2>2. rest \o Kept("A") \in Seq(T)
    BY <1>3, <1>5, <2>1, ConcatProperties
  <2> QED BY <1>3, <1>8, <2>1, <2>2, ConcatProperties
<1>11. /\ pub' \in PublisherType
       /\ pub'.at = next.at /\ pub'.sequence = next.sequence
       /\ pub'.count = next.count /\ pub'.stored = next.stored
  <2> DEFINE later == IF late = {} THEN next.late ELSE next.late + 1
  <2>1. later \in Nat
    BY DEF PublisherType
  <2>2. pub' = [next EXCEPT !.late = later]
    BY <1>8
  <2> HIDE DEF later
  <2> QED BY <2>1, <2>2 DEF PublisherType
<1> QED BY <1>9, <1>10, <1>11 DEF T

\* What the publishing thread has to show for its step, the rest being idle.
LEMMA PublisherKeeps ==
  ASSUME PInv, UNCHANGED <<vars, rx, hand, asks, answers>>,
         pub' \in PublisherType, pub.stored <= pub'.stored, StoreIsAhead',
         delayed' \in Seq(Sendable(pub'.stored)),
         line' \in [Line -> Seq(Sendable(pub'.stored) \cup Ends)], EndIsEnd'
  PROVE  PInv'
<1>1. IInv'
  BY ArbitratorHolds
<1>2. /\ pub.stored \in Nat /\ pub'.stored \in Nat
      /\ rx \in ReceiverType /\ asks \in Seq(Askable(pub.stored))
      /\ answers \in Seq(Returned(pub.stored)) /\ hand \in Seq(Given(pub.stored))
  BY PipelineFacts DEF PublisherType
<1>3. /\ Returned(pub.stored) \subseteq Returned(pub'.stored)
      /\ Askable(pub.stored) \subseteq Askable(pub'.stored)
      /\ Given(pub.stored) \subseteq Given(pub'.stored)
  BY <1>2, SetsWiden
<1>4. /\ asks' \in Seq(Askable(pub'.stored))
      /\ answers' \in Seq(Returned(pub'.stored))
      /\ hand' \in Seq(Given(pub'.stored))
  BY <1>2, <1>3, SeqMonotonic
<1>5. \A i \in Index : slots'[i].present => slots'[i].seq <= pub'.stored
  BY <1>2, RingRests
<1>6. AllStored'
  BY <1>4, <1>5 DEF AllStored
<1>7. rx' \in ReceiverType
  BY <1>2
<1> QED BY <1>1, <1>6, <1>7 DEF PInv

\* Before the end of the session the lines carry data alone.
LEMMA BeforeTheEnd ==
  ASSUME PInv, ~ Over
  PROVE  line \in [Line -> Seq(Sendable(pub.stored))]
BY DEF PInv, EndIsEnd

\* Lines that carry data alone are lines that carry data or ends.
LEMMA DataIsTraffic ==
  ASSUME NEW m, NEW f \in [Line -> Seq(Sendable(m))]
  PROVE  f \in [Line -> Seq(Sendable(m) \cup Ends)]
<1>1. \A l \in Line : f[l] \in Seq(Sendable(m) \cup Ends)
  BY SeqMonotonic
<1> QED BY <1>1

\* The message is in the store: nothing else has moved.
LEMMA StoreStep ==
  ASSUME PInv, Store, UNCHANGED <<vars, rx, hand>>
  PROVE  PInv'
<1>1. /\ pub \in PublisherType /\ StoreIsAhead /\ pub.at = "store"
      /\ pub.sequence <= MaxMessages /\ MaxMessages \in Nat
      /\ pub' = [pub EXCEPT !.at = "append", !.stored = pub.sequence]
      /\ UNCHANGED <<delayed, line, asks, answers>>
  <2>1. pub \in PublisherType /\ StoreIsAhead /\ MaxMessages \in Nat
    BY RoomFacts DEF PInv
  <2>2. UNCHANGED network
    BY DEF Store
  <2> QED BY <2>1, <2>2 DEF Store, network
<1>2. /\ pub.stored \in Nat /\ pub.sequence \in Nat /\ pub.count \in Nat
      /\ pub.stored = pub.sequence - 1 /\ pub.count < pub.sequence /\ pub.count <= Room
      /\ pub.sequence \in 1 .. MaxMessages + 1
  BY <1>1 DEF PublisherType, StoreIsAhead
<1>3. /\ pub' \in PublisherType /\ pub'.at = "append" /\ pub'.stored = pub.sequence
      /\ pub'.sequence = pub.sequence /\ pub'.count = pub.count
  BY <1>1, <1>2 DEF PublisherType
<1>4. StoreIsAhead'
  BY <1>1, <1>2, <1>3 DEF StoreIsAhead
<1>5. Sendable(pub.stored) \subseteq Sendable(pub'.stored)
  BY <1>2, <1>3, SetsWiden
<1>6. delayed' \in Seq(Sendable(pub'.stored))
  BY <1>1, <1>5, PipelineFacts, SeqMonotonic
<1>7. line' \in [Line -> Seq(Sendable(pub'.stored))]
  <2>1. line \in [Line -> Seq(Sendable(pub.stored))]
    BY <1>1, BeforeTheEnd DEF Over
  <2>2. \A l \in Line : line[l] \in Seq(Sendable(pub'.stored))
    BY <1>5, <2>1, SeqMonotonic
  <2> QED BY <1>1, <2>1, <2>2
<1>8. EndIsEnd'
  BY <1>3, <1>7 DEF EndIsEnd, Over
<1> QED BY <1>1, <1>2, <1>3, <1>4, <1>6, <1>7, <1>8, DataIsTraffic, PublisherKeeps

\* A flush before the end of the session, of messages the store has.
LEMMA FlushStep ==
  ASSUME PInv, ~ Over, NEW s \in Nat, NEW n \in Nat, NEW next \in PublisherType,
         s >= 1, n <= Room, s + n - 1 <= pub.stored, next.stored = pub.stored,
         next.at \in {"store", "drain"}, next.stored = next.sequence - 1,
         next.sequence \in 1 .. MaxMessages + 1,
         next.count < next.sequence, next.count <= Room,
         Flush(s, n, next), UNCHANGED <<asks, answers, vars, rx, hand>>
  PROVE  PInv'
<1>1. n # EndOfSession
  BY RoomFacts DEF EndOfSession
<1>2. pub.stored \in Nat /\ delayed \in Seq(Sendable(pub.stored))
  BY PipelineFacts
<1>3. line \in [Line -> Seq(Sendable(pub.stored))]
  BY BeforeTheEnd
<1>4. /\ delayed' \in Seq(Sendable(pub.stored)) /\ line' \in [Line -> Seq(Sendable(pub.stored))]
      /\ pub' \in PublisherType
      /\ pub'.at = next.at /\ pub'.sequence = next.sequence
      /\ pub'.count = next.count /\ pub'.stored = next.stored
  BY <1>1, <1>2, <1>3, FlushFacts
<1>5. StoreIsAhead'
  BY <1>4 DEF StoreIsAhead
<1>6. EndIsEnd'
  BY <1>4 DEF EndIsEnd, Over
<1> QED BY <1>2, <1>4, <1>5, <1>6, DataIsTraffic, PublisherKeeps

\* The message is in the packet, or the packet leaves and the message opens the
\* next one.
LEMMA AppendMessageStep ==
  ASSUME PInv, AppendMessage, UNCHANGED <<vars, rx, hand>>
  PROVE  PInv'
<1> DEFINE Appended(s, k) == [pub EXCEPT !.at = "store", !.sequence = s + 1, !.count = k]
<1>0. /\ pub.at = "append"
      /\ UNCHANGED <<asks, answers>>
  BY DEF AppendMessage
<1>1. /\ pub \in PublisherType /\ StoreIsAhead
      /\ MaxMessages \in Nat /\ Room \in Nat /\ Room >= 2
  BY RoomFacts DEF PInv
<1>a. PICK s \in Nat, n \in Nat : s = pub.sequence /\ n = pub.count
  <2>1. pub.sequence \in Nat /\ pub.count \in Nat
    BY <1>1 DEF PublisherType
  <2> QED BY <2>1
<1>2. /\ pub.stored = s /\ s <= MaxMessages
      /\ n < s /\ n <= Room
  BY <1>0, <1>1, <1>a DEF StoreIsAhead
<1>3. ~ Over
  BY <1>0 DEF Over
<1>4. \/ /\ Size(s - n, n + 1) <= Room
         /\ pub' = Appended(s, n + 1) /\ UNCHANGED <<line, delayed>>
      \/ /\ Size(s - n, n + 1) <= Room
         /\ Flush(s - n, n + 1, Appended(s, 0))
      \/ Flush(s - n, n, Appended(s, 1))
  BY <1>a DEF AppendMessage
<1>5. ASSUME NEW k \in Nat
      PROVE  /\ Appended(s, k) \in PublisherType /\ Appended(s, k).at = "store"
             /\ Appended(s, k).sequence = s + 1 /\ Appended(s, k).count = k
             /\ Appended(s, k).stored = s
  <2>1. s + 1 \in Nat /\ pub.stored = s /\ pub \in PublisherType
    BY <1>1, <1>2
  <2> QED BY <2>1 DEF PublisherType
<1>6. Size(s - n, n + 1) <= Room => n + 1 <= Room
  <2>1. s - n \in Nat /\ n + 1 \in Nat
    BY <1>2
  <2>2. Size(s - n, n + 1) \in Nat /\ Size(s - n, n + 1) >= n + 1
    BY <2>1, SizeFacts
  <2> QED BY <1>1, <2>1, <2>2
<1>7. s - n \in Nat /\ s - n >= 1 /\ (s - n) + (n + 1) - 1 <= s /\ (s - n) + n - 1 <= s
  BY <1>2
<1>8. s = (s + 1) - 1 /\ s + 1 \in 1 .. MaxMessages + 1 /\ 1 <= Room /\ 1 < s + 1
  BY <1>1, <1>2
<1> HIDE DEF Appended
<1>9. CASE /\ Size(s - n, n + 1) <= Room
           /\ pub' = Appended(s, n + 1) /\ UNCHANGED <<line, delayed>>
  <2>1. n + 1 \in Nat /\ n + 1 <= Room /\ n + 1 < s + 1
    BY <1>2, <1>6, <1>9
  <2>2. /\ pub' \in PublisherType /\ pub'.at = "store"
        /\ pub'.sequence = s + 1 /\ pub'.count = n + 1
        /\ pub'.stored = s
    BY <1>5, <1>9, <2>1
  <2>3. StoreIsAhead'
    BY <1>8, <2>1, <2>2 DEF StoreIsAhead
  <2>4. line \in [Line -> Seq(Sendable(pub.stored))] /\ delayed \in Seq(Sendable(pub.stored))
    BY <1>3, BeforeTheEnd, PipelineFacts
  <2>5. /\ line' = line /\ delayed' = delayed /\ pub'.stored = pub.stored
        /\ pub.stored <= pub'.stored
    BY <1>2, <1>9, <2>2
  <2>6. EndIsEnd'
    BY <2>2, <2>4, <2>5 DEF EndIsEnd, Over
  <2>7. /\ delayed' \in Seq(Sendable(pub'.stored))
        /\ line' \in [Line -> Seq(Sendable(pub'.stored) \cup Ends)]
    BY <2>4, <2>5, DataIsTraffic
  <2> QED BY <1>0, <2>2, <2>3, <2>5, <2>6, <2>7, PublisherKeeps
<1>10. CASE /\ Size(s - n, n + 1) <= Room
            /\ Flush(s - n, n + 1, Appended(s, 0))
  <2>1. n + 1 \in Nat /\ n + 1 <= Room
    BY <1>2, <1>6, <1>10
  <2>2. 0 \in Nat /\ 0 < s + 1 /\ 0 <= Room
    BY <1>1, <1>2
  <2>3. /\ Appended(s, 0) \in PublisherType /\ Appended(s, 0).at \in {"store", "drain"}
        /\ Appended(s, 0).sequence = s + 1 /\ Appended(s, 0).count = 0
        /\ Appended(s, 0).stored = s
    BY <1>5, <2>2
  <2> QED BY <1>0, <1>2, <1>3, <1>7, <1>8, <1>10, <2>1, <2>2, <2>3, FlushStep
<1>11. CASE Flush(s - n, n, Appended(s, 1))
  <2>3. /\ Appended(s, 1) \in PublisherType /\ Appended(s, 1).at \in {"store", "drain"}
        /\ Appended(s, 1).sequence = s + 1 /\ Appended(s, 1).count = 1
        /\ Appended(s, 1).stored = s
    BY <1>5
  <2> QED BY <1>0, <1>2, <1>3, <1>7, <1>8, <1>11, <2>3, FlushStep
<1> QED BY <1>4, <1>9, <1>10, <1>11

\* What is left in the packet leaves at the end of the file.
LEMMA LastPacketStep ==
  ASSUME PInv, LastPacket, UNCHANGED <<vars, rx, hand>>
  PROVE  PInv'
<1> DEFINE next == [pub EXCEPT !.at = "drain", !.count = 0]
<1>0. /\ pub.at = "store" /\ pub.sequence > MaxMessages
      /\ UNCHANGED <<asks, answers>>
  BY DEF LastPacket
<1>1. /\ pub \in PublisherType /\ StoreIsAhead
      /\ MaxMessages \in Nat /\ Room \in Nat
  BY RoomFacts DEF PInv
<1>a. PICK s \in Nat, n \in Nat : s = pub.sequence /\ n = pub.count
  <2>1. pub.sequence \in Nat /\ pub.count \in Nat
    BY <1>1 DEF PublisherType
  <2> QED BY <2>1
<1>2. /\ pub.stored = s - 1 /\ n < s /\ n <= Room /\ s \in 1 .. MaxMessages + 1
  BY <1>0, <1>1, <1>a DEF StoreIsAhead
<1>b. pub.stored \in Nat
  BY PipelineFacts
<1>3. ~ Over
  BY <1>0 DEF Over
<1>4. /\ next \in PublisherType /\ next.at \in {"store", "drain"} /\ next.at = "drain"
      /\ next.count = 0 /\ next.sequence = s /\ next.stored = s - 1
  BY <1>1, <1>2, <1>a, <1>b DEF PublisherType
<1>5. IF n = 0 THEN pub' = next /\ UNCHANGED <<line, delayed>>
               ELSE Flush(s - n, n, next)
  BY <1>a DEF LastPacket
<1>c. 0 \in Nat /\ 0 < s /\ 0 <= Room
  BY <1>1, <1>2
<1> HIDE DEF next
<1>6. CASE n = 0
  <2>1. pub' = next /\ line' = line /\ delayed' = delayed
    BY <1>5, <1>6
  <2>2. StoreIsAhead'
    BY <1>2, <1>4, <1>c, <2>1 DEF StoreIsAhead
  <2>4. line \in [Line -> Seq(Sendable(pub.stored))] /\ delayed \in Seq(Sendable(pub.stored))
    BY <1>3, BeforeTheEnd, PipelineFacts
  <2>5. pub'.stored = pub.stored /\ pub.stored <= pub'.stored
    BY <1>2, <1>4, <1>b, <2>1
  <2>6. EndIsEnd'
    BY <1>4, <2>1, <2>4, <2>5 DEF EndIsEnd, Over
  <2>7. /\ delayed' \in Seq(Sendable(pub'.stored))
        /\ line' \in [Line -> Seq(Sendable(pub'.stored) \cup Ends)]
    BY <2>1, <2>4, <2>5, DataIsTraffic
  <2> QED BY <1>0, <1>4, <2>1, <2>2, <2>5, <2>6, <2>7, PublisherKeeps
<1>7. CASE n # 0
  <2>1. Flush(s - n, n, next)
    BY <1>5, <1>7
  <2>2. s - n \in Nat /\ s - n >= 1 /\ (s - n) + n - 1 <= s - 1
    BY <1>2
  <2> QED BY <1>0, <1>2, <1>3, <1>4, <1>c, <2>1, <2>2, FlushStep
<1> QED BY <1>6, <1>7

\* Some of what was held back leaves, each packet for its line.
LEMMA DrainStep ==
  ASSUME PInv, Drain, UNCHANGED <<vars, rx, hand>>
  PROVE  PInv'
<1> DEFINE T == Sendable(pub.stored)
<1>1. PICK due \in 1 .. Len(delayed) :
        /\ line' = [l \in Line |-> line[l] \o Bound(SubSeq(delayed, 1, due), l)]
        /\ delayed' = SubSeq(delayed, due + 1, Len(delayed))
  BY DEF Drain
<1>2. pub.at = "drain" /\ UNCHANGED <<pub, asks, answers>>
  BY DEF Drain
<1>3. ~ Over
  BY <1>2 DEF Over
<1>4. line \in [Line -> Seq(T)] /\ delayed \in Seq(T) /\ pub.stored \in Nat
  BY <1>3, BeforeTheEnd, PipelineFacts
<1> HIDE DEF T
<1>5. Len(delayed) \in Nat
  BY <1>4, LenProperties
<1>6. SubSeq(delayed, 1, due) \in Seq(T) /\ delayed' \in Seq(T)
  BY <1>1, <1>4, <1>5, PieceFacts
<1>7. \A l \in Line : line[l] \o Bound(SubSeq(delayed, 1, due), l) \in Seq(T)
  BY <1>4, <1>6, BoundFacts, ConcatProperties
<1>8. line' \in [Line -> Seq(T)]
  BY <1>1, <1>7
<1>9. pub' = pub /\ pub.stored <= pub.stored
  BY <1>2, <1>4
<1>10. pub' \in PublisherType /\ StoreIsAhead'
  <2>1. pub \in PublisherType /\ StoreIsAhead
    BY DEF PInv
  <2> QED BY <1>9, <2>1 DEF StoreIsAhead
<1>11. EndIsEnd'
  BY <1>3, <1>8, <1>9 DEF EndIsEnd, Over, T
<1>12. /\ delayed' \in Seq(Sendable(pub'.stored))
       /\ line' \in [Line -> Seq(Sendable(pub'.stored) \cup Ends)]
  BY <1>6, <1>8, <1>9, DataIsTraffic DEF T
<1> QED BY <1>2, <1>9, <1>10, <1>11, <1>12, PublisherKeeps

\* The end of the session, with nothing held back any more.
LEMMA EndStep ==
  ASSUME PInv, End, UNCHANGED <<vars, rx, hand>>
  PROVE  PInv'
<1> DEFINE T == Sendable(pub.stored)
           end(l) == Datagram(l, pub.sequence, EndOfSession)
<1>1. /\ pub.at = "drain" /\ delayed = << >>
      /\ pub' = [pub EXCEPT !.at = "grace"]
      /\ line' = [l \in Line |-> Append(line[l], end(l))]
      /\ delayed' = delayed /\ UNCHANGED <<asks, answers>>
  BY DEF End, Drained
<1>2. pub \in PublisherType /\ StoreIsAhead
  BY DEF PInv
<1>3. ~ Over
  BY <1>1 DEF Over
<1>4. line \in [Line -> Seq(T)] /\ delayed \in Seq(T) /\ pub.stored \in Nat
  BY <1>3, BeforeTheEnd, PipelineFacts
<1>5. /\ pub' \in PublisherType /\ pub'.at = "grace" /\ pub'.stored = pub.stored
      /\ pub'.sequence = pub.sequence /\ pub'.count = pub.count
  BY <1>1, <1>2 DEF PublisherType
<1>6. StoreIsAhead'
  BY <1>1, <1>2, <1>5 DEF StoreIsAhead
<1>7. pub.sequence \in Nat
  BY <1>2 DEF PublisherType
<1>8. \A l \in Line : end(l) \in Ends
  BY <1>7 DEF Ends, DatagramType, Datagram, EndOfSession
<1>9. \A d \in T : d.count # EndOfSession
  BY DEF Sendable
<1> HIDE DEF T, end
<1>10. ASSUME NEW l \in Line
       PROVE  /\ Append(line[l], end(l)) \in Seq(T \cup Ends)
              /\ EndsLast(Append(line[l], end(l)))
  <2> DEFINE q == Append(line[l], end(l))
             k == Len(line[l])
  <2>1. line[l] \in Seq(T) /\ end(l) \in T \cup Ends
    BY <1>4, <1>8
  <2>2. line[l] \in Seq(T \cup Ends) /\ k \in Nat
    BY <2>1, SeqMonotonic, LenProperties
  <2>3. q \in Seq(T \cup Ends) /\ Len(q) = k + 1 /\ \A i \in 1 .. k : q[i] = line[l][i]
    BY <2>1, <2>2, AppendProperties
  <2>4. \A i \in 1 .. k : q[i].count # EndOfSession
    BY <1>9, <2>1, <2>3, ElementOfSeq
  <2>5. DOMAIN q = 1 .. k + 1
    BY <2>3, LenProperties
  <2> HIDE DEF q
  <2>6. EndsLast(q)
    BY <2>2, <2>4, <2>5 DEF EndsLast
  <2> QED BY <2>3, <2>6 DEF q
<1>11. line' \in [Line -> Seq(T \cup Ends)] /\ \A l \in Line : EndsLast(line'[l])
  BY <1>1, <1>10
<1>12. EndIsEnd'
  BY <1>1, <1>5, <1>11 DEF EndIsEnd, Over, EndsLast
<1>13. /\ delayed' \in Seq(Sendable(pub'.stored))
       /\ line' \in [Line -> Seq(Sendable(pub'.stored) \cup Ends)]
       /\ pub.stored <= pub'.stored
  BY <1>1, <1>4, <1>5, <1>11 DEF T
<1> QED BY <1>1, <1>5, <1>6, <1>12, <1>13, PublisherKeeps

\* The server is stopped.
LEMMA StopStep ==
  ASSUME PInv, Stop, UNCHANGED <<vars, rx, hand>>
  PROVE  PInv'
<1>1. pub.at = "grace" /\ pub' = [pub EXCEPT !.at = "gone"]
  BY DEF Stop
<1>2. line' = line /\ delayed' = delayed /\ asks' = asks /\ answers' = answers
  BY DEF Stop, network
<1>3. pub \in PublisherType /\ StoreIsAhead /\ EndIsEnd
  BY DEF PInv
<1>4. /\ pub' \in PublisherType /\ pub'.at = "gone" /\ pub'.stored = pub.stored
      /\ pub'.sequence = pub.sequence /\ pub'.count = pub.count
  BY <1>1, <1>3 DEF PublisherType
<1>5. StoreIsAhead'
  BY <1>1, <1>3, <1>4 DEF StoreIsAhead
<1>6. EndIsEnd'
  BY <1>1, <1>2, <1>3, <1>4 DEF EndIsEnd, Over, EndsLast
<1>7. /\ delayed' \in Seq(Sendable(pub'.stored))
      /\ line' \in [Line -> Seq(Sendable(pub'.stored) \cup Ends)]
      /\ pub.stored <= pub'.stored
  BY <1>2, <1>4, PipelineFacts
<1> QED BY <1>2, <1>4, <1>5, <1>6, <1>7, PublisherKeeps

\* A step of the publisher keeps the invariant of the pipeline.
LEMMA PublisherStep ==
  ASSUME PInv, Publisher
  PROVE  PInv' /\ UNCHANGED vars
BY StoreStep, AppendMessageStep, LastPacketStep, DrainStep, EndStep, StopStep
   DEF Publisher

-----------------------------------------------------------------------------
(***************************************************************************)
(* The server thread and the receive loop.                                 *)
(***************************************************************************)
\* What a step that leaves the publisher alone has to show.
LEMMA OthersKeep ==
  ASSUME PInv, UNCHANGED <<pub, delayed>>, [Next]_vars,
         line' \in [Line -> Seq(Sendable(pub.stored) \cup Ends)], EndIsEnd',
         asks' \in Seq(Askable(pub.stored)), answers' \in Seq(Returned(pub.stored)),
         hand' \in Seq(Given(pub.stored)), rx' \in ReceiverType,
         \A i \in Index : slots'[i].present => slots'[i].seq <= pub.stored
  PROVE  PInv'
<1>1. IInv'
  BY ArbitratorHolds
<1>2. pub' \in PublisherType /\ StoreIsAhead' /\ delayed' \in Seq(Sendable(pub'.stored))
  BY PublisherRests
<1>3. pub' = pub
  OBVIOUS
<1>4. AllStored'
  BY <1>2, <1>3 DEF AllStored
<1> QED BY <1>1, <1>2, <1>4 DEF PInv

\* An answer that is not empty begins in the store and ends in it.
LEMMA AnsweredFacts ==
  ASSUME NEW ask \in [seq : Nat, count : Nat], pub.stored \in Nat, Answered(ask) > 0
  PROVE  /\ Answered(ask) \in Nat
         /\ ask.seq >= 1 /\ ask.seq + Answered(ask) - 1 <= pub.stored
<1> DEFINE S == {n \in 0 .. ask.count :
                   \/ n = ask.count
                   \/ ~ Fetched(ask.seq + n)
                   \/ Size(ask.seq, n + 1) > Room}
           k == Min(S)
<1>1. ask.count \in Nat /\ ask.seq \in Nat
  OBVIOUS
<1>2. S \in SUBSET Nat /\ ask.count \in S
  BY <1>1
<1>3. Answered(ask) = k
  BY DEF Answered
<1>4. \A n \in 0 .. ask.count : n \notin S => Fetched(ask.seq + n)
  OBVIOUS
<1>5. \A n \in S : n <= ask.count
  BY <1>1
<1> HIDE DEF S
<1>6. k \in S /\ \A n \in S : k <= n
  BY <1>2, MinOfNaturals
<1> HIDE DEF k
<1>7. k \in Nat /\ k > 0 /\ k <= ask.count
  BY <1>2, <1>3, <1>5, <1>6
<1>8. 0 \notin S /\ k - 1 \notin S /\ 0 \in 0 .. ask.count /\ k - 1 \in 0 .. ask.count
  BY <1>1, <1>6, <1>7
<1>9. Fetched(ask.seq + 0) /\ Fetched(ask.seq + (k - 1))
  BY <1>4, <1>8
<1>10. ask.seq + 0 \in 1 .. pub.stored /\ ask.seq + (k - 1) \in 1 .. pub.stored
  BY <1>9 DEF Fetched
<1> QED BY <1>1, <1>3, <1>7, <1>10

\* A request is answered, or its answer is lost.
LEMMA ServeStep ==
  ASSUME PInv, Serve
  PROVE  PInv' /\ UNCHANGED vars
<1> DEFINE ask == Head(asks)
           n == Answered(ask)
           R == Returned(pub.stored)
           A == Askable(pub.stored)
<1>1. /\ asks # << >> /\ asks' = Tail(asks)
      /\ UNCHANGED vars /\ UNCHANGED <<pub, delayed, line>>
      /\ rx' = rx /\ hand' = hand
  BY DEF Serve
<1>2. \/ n > 0 /\ answers' = answers \o <<Datagram("rx", ask.seq, n)>>
      \/ answers' = answers
  BY DEF Serve
<1>3. /\ pub.stored \in Nat /\ rx \in ReceiverType
      /\ line \in [Line -> Seq(Sendable(pub.stored) \cup Ends)]
      /\ asks \in Seq(A) /\ answers \in Seq(R) /\ hand \in Seq(Given(pub.stored))
  BY PipelineFacts
<1>4. A \subseteq [seq : Nat, count : Nat]
  BY DEF Askable
<1> HIDE DEF A, R
<1>5. ask \in [seq : Nat, count : Nat] /\ asks' \in Seq(A)
  BY <1>1, <1>3, <1>4, HeadTailProperties
<1>6. answers' \in Seq(R)
  <2>1. CASE n > 0 /\ answers' = answers \o <<Datagram("rx", ask.seq, n)>>
    <3>1. n \in Nat /\ ask.seq \in Nat /\ ask.seq >= 1 /\ ask.seq + n - 1 <= pub.stored
      BY <1>3, <1>5, <2>1, AnsweredFacts
    <3> HIDE DEF n, ask
    <3>2. Datagram("rx", ask.seq, n) \in R
      BY <3>1 DEF R, Returned, DatagramType, Datagram, LastOf
    <3>3. <<Datagram("rx", ask.seq, n)>> \in Seq(R)
      BY <3>2
    <3> QED BY <1>3, <2>1, <3>3, ConcatProperties
  <2> QED BY <1>2, <1>3, <2>1
<1>7. EndIsEnd'
  BY <1>1, EndRests
<1>8. \A i \in Index : slots'[i].present => slots'[i].seq <= pub.stored
  <2>1. pub.stored <= pub.stored
    BY <1>3
  <2> QED BY <1>1, <1>3, <2>1, RingRests
<1> QED BY <1>1, <1>3, <1>5, <1>6, <1>7, <1>8, OthersKeep DEF A, R

\* The messages of a datagram that names nothing past n.
LEMMA MessagesFacts ==
  ASSUME NEW source \in Source, NEW n \in Nat, NEW d \in Returned(n) \cup Ends
  PROVE  Messages(source, d) \in Seq(Given(n))
<1> DEFINE k == IF d.count = EndOfSession THEN 0 ELSE d.count
<1>1. d \in DatagramType
  BY DEF Returned, Ends
<1>2. d.seq \in Nat /\ d.count \in Nat
  BY <1>1 DEF DatagramType
<1>3. k \in Nat
  BY <1>2
<1>4. k # 0 => d.seq >= 1 /\ k = d.count /\ d.seq + d.count - 1 <= n
  BY DEF Returned, Ends, LastOf
<1>5. Messages(source, d) = [i \in 1 .. k |-> [source |-> source, seq |-> d.seq + i - 1]]
  BY DEF Messages
<1> HIDE DEF k
<1>6. \A i \in 1 .. k : [source |-> source, seq |-> d.seq + i - 1] \in Given(n)
  <2> TAKE i \in 1 .. k
  <2>1. d.seq + i - 1 \in 1 .. n
    BY <1>2, <1>3, <1>4
  <2> QED BY <2>1 DEF Given
<1> QED BY <1>3, <1>5, <1>6, IsASeq

\* Sendable datagrams are fit to be returned.
LEMMA SendableIsReturned ==
  ASSUME NEW n
  PROVE  Sendable(n) \subseteq Returned(n)
BY DEF Sendable, Returned

\* The session is started: the ring is empty.
LEMMA StartSessionStep ==
  ASSUME PInv, StartSession
  PROVE  PInv' /\ [Next]_vars
<1> DEFINE n == pub.stored
<1>1. /\ Reset(1) /\ rx' = [rx EXCEPT !.at = "A", !.left = Wait]
      /\ UNCHANGED <<pub, hand>> /\ UNCHANGED network
  BY DEF StartSession
<1>2. UNCHANGED <<delayed, line, asks, answers>>
  BY <1>1 DEF network
<1>3. /\ n \in Nat /\ rx \in ReceiverType /\ line \in [Line -> Seq(Sendable(n) \cup Ends)]
      /\ asks \in Seq(Askable(n)) /\ answers \in Seq(Returned(n)) /\ hand \in Seq(Given(n))
      /\ IInv
  BY PipelineFacts
<1>4. rx' \in ReceiverType
  BY <1>1, <1>3, RoomFacts DEF ReceiverType
<1>5. [Next]_vars
  BY <1>1, PipelineAssumption DEF Next
<1>6. slots \in [Index -> Slot]
  BY <1>3, Facts
<1>7. \A i \in Index : ~ slots'[i].present
  BY <1>1, <1>6 DEF Reset, EmptyRing, Slot
<1>8. EndIsEnd'
  BY <1>1, <1>2, EndRests
<1> QED BY <1>1, <1>2, <1>3, <1>4, <1>5, <1>7, <1>8, OthersKeep

\* A datagram is taken from a line.
LEMMA ReadLineStep ==
  ASSUME PInv, NEW l \in Line, ReadLine(l)
  PROVE  PInv' /\ UNCHANGED vars
<1> DEFINE n == pub.stored
           D == Sendable(n) \cup Ends
           q == line[l]
<1>1. /\ line[l] # << >> /\ hand' = Messages("line", Head(line[l]))
      /\ line' = [line EXCEPT ![l] = Tail(@)]
      /\ rx' = [rx EXCEPT !.got = TRUE, !.idle = 0, !.left = Wait]
      /\ UNCHANGED vars /\ UNCHANGED <<pub, delayed, asks, answers>>
  BY DEF ReadLine
<1>2. /\ n \in Nat /\ rx \in ReceiverType /\ line \in [Line -> Seq(D)]
      /\ asks \in Seq(Askable(n)) /\ answers \in Seq(Returned(n))
  BY PipelineFacts
<1>3. rx' \in ReceiverType
  BY <1>1, <1>2, RoomFacts DEF ReceiverType
<1>4. D \subseteq Returned(n) \cup Ends
  BY SendableIsReturned
<1> HIDE DEF D
<1>5. q \in Seq(D) /\ q # << >>
  BY <1>1, <1>2
<1>6. Head(q) \in D /\ Tail(q) \in Seq(D)
  BY <1>5, HeadTailProperties
<1>7. hand' \in Seq(Given(n))
  <2>1. "line" \in Source
    BY DEF Source
  <2> QED BY <1>1, <1>2, <1>4, <1>6, <2>1, MessagesFacts
<1>8. line' \in [Line -> Seq(D)]
  BY <1>1, <1>2, <1>6
<1>9. EndIsEnd'
  <2>1. EndIsEnd /\ pub' = pub /\ delayed' = delayed
    BY <1>1 DEF PInv
  <2>2. CASE Over
    <3>1. delayed = << >> /\ \A m \in Line : EndsLast(line[m])
      BY <2>1, <2>2 DEF EndIsEnd
    <3>2. EndsLast(Tail(q))
      <4>1. /\ DOMAIN q = 1 .. Len(q) /\ Len(q) \in Nat
            /\ DOMAIN Tail(q) = 1 .. Len(Tail(q)) /\ Len(Tail(q)) = Len(q) - 1
            /\ \A i \in 1 .. Len(Tail(q)) : Tail(q)[i] = q[i + 1]
        BY <1>5, <1>6, HeadTailProperties, LenProperties
      <4>2. \A i, j \in DOMAIN q :
              i < j /\ q[i].count = EndOfSession => q[j].count = EndOfSession
        BY <3>1 DEF EndsLast
      <4> HIDE DEF q
      <4>3. ASSUME NEW i \in DOMAIN Tail(q), NEW j \in DOMAIN Tail(q), i < j,
                   Tail(q)[i].count = EndOfSession
            PROVE  Tail(q)[j].count = EndOfSession
        <5>1. i + 1 \in DOMAIN q /\ j + 1 \in DOMAIN q /\ i + 1 < j + 1
          BY <4>1, <4>3
        <5> QED BY <4>1, <4>2, <4>3, <5>1
      <4> QED BY <4>3 DEF EndsLast
    <3>3. \A m \in Line : EndsLast(line'[m])
      BY <1>1, <1>2, <3>1, <3>2
    <3> QED BY <2>1, <2>2, <3>1, <3>3 DEF EndIsEnd, Over, EndsLast
  <2>3. CASE ~ Over
    <3>1. line \in [Line -> Seq(Sendable(n))]
      BY <2>3, BeforeTheEnd
    <3>2. Tail(q) \in Seq(Sendable(n))
      BY <1>5, <3>1, HeadTailProperties
    <3>3. line' \in [Line -> Seq(Sendable(n))]
      BY <1>1, <3>1, <3>2
    <3> QED BY <2>1, <2>3, <3>3 DEF EndIsEnd, Over
  <2> QED BY <2>2, <2>3
<1>10. \A i \in Index : slots'[i].present => slots'[i].seq <= n
  <2>1. n <= n
    BY <1>2
  <2> QED BY <1>1, <1>2, <2>1, RingRests
<1> QED BY <1>1, <1>2, <1>3, <1>7, <1>8, <1>9, <1>10, OthersKeep DEF D

\* An answer is taken from the unicast socket.
LEMMA ReadAnswerStep ==
  ASSUME PInv, ReadAnswer
  PROVE  PInv' /\ UNCHANGED vars
<1> DEFINE n == pub.stored
           R == Returned(n)
<1>1. /\ answers # << >> /\ hand' = Messages("retransmit", Head(answers))
      /\ answers' = Tail(answers)
      /\ rx' = [rx EXCEPT !.got = TRUE, !.idle = 0]
      /\ UNCHANGED vars /\ UNCHANGED <<pub, delayed, line, asks>>
  BY DEF ReadAnswer
<1>2. /\ n \in Nat /\ rx \in ReceiverType /\ line \in [Line -> Seq(Sendable(n) \cup Ends)]
      /\ asks \in Seq(Askable(n)) /\ answers \in Seq(R)
  BY PipelineFacts
<1>3. rx' \in ReceiverType
  BY <1>1, <1>2 DEF ReceiverType
<1> HIDE DEF R
<1>4. Head(answers) \in R /\ answers' \in Seq(R)
  BY <1>1, <1>2, HeadTailProperties
<1>5. hand' \in Seq(Given(n))
  <2>1. "retransmit" \in Source
    BY DEF Source
  <2> QED BY <1>1, <1>2, <1>4, <2>1, MessagesFacts DEF R
<1>6. n <= n
  BY <1>2
<1>7. \A i \in Index : slots'[i].present => slots'[i].seq <= n
  BY <1>1, <1>2, <1>6, RingRests
<1>8. EndIsEnd'
  BY <1>1, EndRests
<1> QED BY <1>1, <1>2, <1>3, <1>4, <1>5, <1>7, <1>8, OthersKeep DEF R

\* On to the next socket.
LEMMA NothingToReadStep ==
  ASSUME PInv, NothingToRead
  PROVE  PInv' /\ UNCHANGED vars
<1> DEFINE n == pub.stored
<1>1. /\ \E next \in {"B", "answers", "poll"}, left \in {0, Wait} :
           rx' = [rx EXCEPT !.at = next, !.left = left]
      /\ UNCHANGED vars /\ UNCHANGED <<pub, hand>> /\ UNCHANGED network
  BY DEF NothingToRead, Then
<1>2. UNCHANGED <<delayed, line, asks, answers>>
  BY <1>1 DEF network
<1>3. /\ n \in Nat /\ rx \in ReceiverType /\ line \in [Line -> Seq(Sendable(n) \cup Ends)]
      /\ asks \in Seq(Askable(n)) /\ answers \in Seq(Returned(n)) /\ hand \in Seq(Given(n))
  BY PipelineFacts
<1>4. rx' \in ReceiverType
  BY <1>1, <1>3, RoomFacts DEF ReceiverType
<1>6. n <= n
  BY <1>3
<1>7. \A i \in Index : slots'[i].present => slots'[i].seq <= n
  BY <1>1, <1>3, <1>6, RingRests
<1>8. EndIsEnd'
  BY <1>1, <1>2, EndRests
<1> QED BY <1>1, <1>2, <1>3, <1>4, <1>7, <1>8, OthersKeep

\* What the arbitrator holds after a message is what it held and the message.
LEMMA HeldAfter ==
  ASSUME slots \in [Index -> Slot], NEW source, NEW s \in Nat, NEW n \in Nat, s <= n,
         \A i \in Index : slots[i].present => slots[i].seq <= n,
         Ingest(source, s)
  PROVE  \A i \in Index : slots'[i].present => slots'[i].seq <= n
<1>1. ASSUME NEW lo, NEW hi, NEW i \in Index, Vacate(lo, hi)[i].present
      PROVE  Vacate(lo, hi)[i].seq <= n
  <2>1. slots[i] \in Slot
    OBVIOUS
  <2>2. Vacate(lo, hi)[i]
          = [slots[i] EXCEPT !.present = @ /\ slots[i].seq \notin lo .. hi - 1]
    BY DEF Vacate
  <2>3. slots[i].present /\ Vacate(lo, hi)[i].seq = slots[i].seq
    BY <1>1, <2>1, <2>2 DEF Slot
  <2> QED BY <2>3
<1>2. ASSUME NEW i \in Index
      PROVE  ~ EmptyRing[i].present
  <2>1. slots[i] \in Slot
    OBVIOUS
  <2>2. EmptyRing[i] = [slots[i] EXCEPT !.present = FALSE]
    BY DEF EmptyRing
  <2> QED BY <2>1, <2>2 DEF Slot
<1>3. ASSUME NEW lo, NEW hi, slots' = Vacate(lo, hi)
      PROVE  \A i \in Index : slots'[i].present => slots'[i].seq <= n
  BY <1>1, <1>3
<1>4. CASE InOrder(source, s)
  <2>1. slots' = Vacate(s, DrainEnd(s + 1))
    BY <1>4 DEF InOrder
  <2> QED BY <1>3, <2>1
<1>5. CASE Hold(source, s)
  <2> DEFINE v == Vacate(expected, Slid(s))
  <2>1. slots' = [v EXCEPT ![s % Cap] = [seq |-> s, present |-> TRUE]]
    BY <1>5 DEF Hold
  <2>2. DOMAIN v = Index
    BY DEF Vacate
  <2>3. \A i \in Index : v[i].present => v[i].seq <= n
    BY <1>1
  <2> HIDE DEF v
  <2>4. ASSUME NEW i \in Index
        PROVE  slots'[i] = IF i = (s % Cap) THEN [seq |-> s, present |-> TRUE] ELSE v[i]
    BY <2>1, <2>2
  <2> QED BY <2>3, <2>4
<1>6. CASE TooWide(s)
  <2>1. slots' = Vacate(expected, Slid(s))
    BY <1>6 DEF TooWide
  <2> QED BY <1>3, <2>1
<1>7. CASE CatchUp(s)
  <2>1. slots' = Vacate(expected, DrainEnd(s + 1))
    BY <1>7 DEF CatchUp
  <2> QED BY <1>3, <2>1
<1>8. CASE Jump(s)
  <2>1. slots' = EmptyRing
    BY <1>8 DEF Jump
  <2> QED BY <1>2, <2>1
<1> QED BY <1>4, <1>5, <1>6, <1>7, <1>8 DEF Ingest

\* A message is given to the arbitrator, which knows it already or takes it in.
LEMMA GiveToArbitratorStep ==
  ASSUME PInv, GiveToArbitrator
  PROVE  PInv' /\ [Next]_vars
<1> DEFINE n == pub.stored
           m == Head(hand)
<1>1. /\ hand # << >> /\ hand' = Tail(hand)
      /\ IF Duplicate(m.seq) THEN UNCHANGED vars ELSE Ingest(m.source, m.seq)
      /\ UNCHANGED <<pub, rx>> /\ UNCHANGED network
  BY DEF GiveToArbitrator
<1>2. UNCHANGED <<delayed, line, asks, answers>>
  BY <1>1 DEF network
<1>3. /\ n \in Nat /\ n <= MaxMessages /\ MaxMessages \in Nat
      /\ rx \in ReceiverType /\ line \in [Line -> Seq(Sendable(n) \cup Ends)]
      /\ asks \in Seq(Askable(n)) /\ answers \in Seq(Returned(n)) /\ hand \in Seq(Given(n))
      /\ \A i \in Index : slots[i].present => slots[i].seq <= n
      /\ IInv
  BY PipelineFacts
<1>4. m \in Given(n) /\ hand' \in Seq(Given(n))
  BY <1>1, <1>3, HeadTailProperties
<1> HIDE DEF m
<1>5. m.source \in Source /\ m.seq \in 1 .. n
  BY <1>4 DEF Given
<1>6. m.seq \in Numbers /\ m.seq \in Nat /\ m.seq <= n
  <2>1. m.seq \in 1 .. MaxMessages
    BY <1>3, <1>5
  <2>2. 1 .. MaxMessages \subseteq Numbers
    BY PipelineAssumption
  <2> QED BY <1>3, <1>5, <2>1, <2>2
<1>7. [Next]_vars
  BY <1>1, <1>5, <1>6 DEF Next
<1>8. slots \in [Index -> Slot]
  BY <1>3, Facts
<1>9. n <= n
  BY <1>3
<1>10. \A i \in Index : slots'[i].present => slots'[i].seq <= n
  <2>1. CASE UNCHANGED vars
    BY <1>3, <1>9, <2>1, RingRests
  <2>2. CASE Ingest(m.source, m.seq)
    BY <1>3, <1>6, <1>8, <2>2, HeldAfter
  <2> QED BY <1>1, <2>1, <2>2
<1>11. EndIsEnd'
  BY <1>1, <1>2, EndRests
<1> QED BY <1>1, <1>2, <1>3, <1>4, <1>7, <1>10, <1>11, OthersKeep

\* The arbitrator asks up to something it holds.
LEMMA AskedIsHeld ==
  ASSUME IInv, NEW n \in Nat, IssueRequest, pending # 0,
         \A i \in Index : slots[i].present => slots[i].seq <= n
  PROVE  request' \in Askable(n)
<1> DEFINE run == MissingRun
           k == IF run > MaxRequest THEN MaxRequest ELSE run
<1>1. Window /\ expected \in Nat
  BY Facts
<1>2. run \in 1 .. Cap /\ Present(expected + run)
  BY <1>1, MissingRunFacts
<1>3. Cap \in Nat /\ MaxRequest \in Nat
  BY SequencerAssumption
<1>4. request' = [seq |-> expected, count |-> k]
  BY DEF IssueRequest
<1> HIDE DEF run
<1>5. k \in Nat /\ k <= run /\ run \in Nat
  BY <1>2, <1>3
<1>6. expected + run \in Nat
  BY <1>1, <1>5
<1>7. /\ ((expected + run) % Cap) \in Index
      /\ slots[((expected + run) % Cap)].present
      /\ slots[((expected + run) % Cap)].seq = expected + run
  BY <1>1, <1>2, <1>6, PresentFacts
<1>8. expected + run <= n
  BY <1>7
<1> HIDE DEF k
<1>9. expected + k - 1 <= n
  BY <1>1, <1>5, <1>8
<1> QED BY <1>1, <1>4, <1>5, <1>9 DEF Askable, LastOf

\* A poll holds nothing it did not hold, and asks for nothing the store lacks.
LEMMA PollFacts ==
  ASSUME IInv, NEW n \in Nat, Poll,
         \A i \in Index : slots[i].present => slots[i].seq <= n
  PROVE  /\ \A i \in Index : slots'[i].present => slots'[i].seq <= n
         /\ request' # NoRequest => request' \in Askable(n)
<1>1. /\ slots \in [Index -> Slot] /\ pending \in Nat
      /\ StateMatchesWindow
  BY Facts DEF IInv
<1>2. state \in {"Gap", "Recovering"} => pending # 0
  BY <1>1 DEF StateMatchesWindow
<1>3. CASE PollAsk
  <2>1. IssueRequest /\ slots' = slots /\ state = "Gap"
    BY <1>3 DEF PollAsk
  <2> QED BY <1>2, <2>1, AskedIsHeld
<1>4. CASE PollRetry
  <2>1. IssueRequest /\ slots' = slots /\ state = "Recovering"
    BY <1>4 DEF PollRetry
  <2> QED BY <1>2, <2>1, AskedIsHeld
<1>5. CASE SkipHole
  <2> DEFINE end == DrainEnd(expected + MissingRun)
  <2>1. slots' = Vacate(expected, end) /\ request' = NoRequest
    BY <1>5 DEF SkipHole
  <2> HIDE DEF end
  <2>2. ASSUME NEW i \in Index, Vacate(expected, end)[i].present
        PROVE  Vacate(expected, end)[i].seq <= n
    <3>1. slots[i] \in Slot
      BY <1>1
    <3>2. Vacate(expected, end)[i]
            = [slots[i] EXCEPT !.present = @ /\ slots[i].seq \notin expected .. end - 1]
      BY DEF Vacate
    <3>3. slots[i].present /\ Vacate(expected, end)[i].seq = slots[i].seq
      BY <2>2, <3>1, <3>2 DEF Slot
    <3> QED BY <3>3
  <2> QED BY <2>1, <2>2
<1> QED BY <1>3, <1>4, <1>5 DEF Poll, PollGiveUp, PollStepOver

\* The end of a turn.
LEMMA EndTurnStep ==
  ASSUME PInv, EndTurn
  PROVE  PInv' /\ [Next]_vars
<1> DEFINE n == pub.stored
           A == Askable(n)
           next == IF ~ rx.got /\ delivered' # << >> /\ rx.idle > IdleExit
                     THEN "exited" ELSE "A"
           since == IF rx.got THEN 0 ELSE rx.idle
<1>1. /\ IF PollDue THEN Poll ELSE UNCHANGED vars
      /\ \/ PollDue /\ request' # NoRequest /\ asks' = Append(asks, request')
         \/ asks' = asks
      /\ UNCHANGED <<pub, delayed, line, answers, hand>>
  BY DEF EndTurn
<1>2. rx' = [at |-> next, got |-> FALSE, idle |-> since, left |-> Wait]
  BY DEF EndTurn
<1>3. /\ n \in Nat
      /\ rx \in ReceiverType /\ line \in [Line -> Seq(Sendable(n) \cup Ends)]
      /\ asks \in Seq(A) /\ answers \in Seq(Returned(n)) /\ hand \in Seq(Given(n))
      /\ \A i \in Index : slots[i].present => slots[i].seq <= n
      /\ IInv
  BY PipelineFacts
<1>4. rx' \in ReceiverType
  <2>1. next \in {"A", "exited"}
    OBVIOUS
  <2>2. since \in Nat
    BY <1>3 DEF ReceiverType
  <2> HIDE DEF next, since
  <2> QED BY <1>2, <2>1, <2>2, RoomFacts DEF ReceiverType
<1>5. n <= n
  BY <1>3
<1> HIDE DEF A, next, since
<1>6. [Next]_vars
  BY <1>1 DEF Next
<1>7. \A i \in Index : slots'[i].present => slots'[i].seq <= n
  <2>1. CASE UNCHANGED vars
    BY <1>3, <1>5, <2>1, RingRests
  <2>2. CASE Poll
    BY <1>3, <2>2, PollFacts
  <2> QED BY <1>1, <2>1, <2>2
<1>8. asks' \in Seq(A)
  <2>1. CASE PollDue /\ request' # NoRequest /\ asks' = Append(asks, request')
    <3>1. request' \in A
      BY <1>1, <1>3, <2>1, PollFacts DEF A
    <3> QED BY <1>3, <2>1, <3>1, AppendProperties
  <2> QED BY <1>1, <1>3, <2>1
<1>9. EndIsEnd'
  BY <1>1, EndRests
<1> QED BY <1>1, <1>3, <1>4, <1>6, <1>7, <1>8, <1>9, OthersKeep DEF A

\* Time passes.
LEMMA ClockStep ==
  ASSUME PInv, Clock
  PROVE  PInv' /\ [Next]_vars
<1> DEFINE n == pub.stored
           since == IF rx.got \/ rx.idle > IdleExit THEN rx.idle ELSE rx.idle + 1
<1>1. /\ rx.left > 0
      /\ IF gap_age < Grace \/ time_left > 0 THEN Tick ELSE UNCHANGED vars
      /\ UNCHANGED <<pub, hand>> /\ UNCHANGED network
  BY DEF Clock
<1>2. rx' = [rx EXCEPT !.left = @ - 1, !.idle = since]
  BY DEF Clock
<1>3. /\ n \in Nat
      /\ rx \in ReceiverType /\ line \in [Line -> Seq(Sendable(n) \cup Ends)]
      /\ asks \in Seq(Askable(n)) /\ answers \in Seq(Returned(n)) /\ hand \in Seq(Given(n))
      /\ \A i \in Index : slots[i].present => slots[i].seq <= n
  BY PipelineFacts
<1>4. rx' \in ReceiverType
  <2>1. since \in Nat
    BY <1>3 DEF ReceiverType
  <2> HIDE DEF since
  <2>2. rx.left - 1 \in 0 .. Wait
    BY <1>1, <1>3, RoomFacts DEF ReceiverType
  <2> QED BY <1>2, <1>3, <2>1, <2>2 DEF ReceiverType
<1>5. [Next]_vars
  BY <1>1 DEF Next
<1>6. slots' = slots
  BY <1>1 DEF Tick, vars
<1>7. UNCHANGED <<delayed, line, asks, answers>>
  BY <1>1 DEF network
<1>8. EndIsEnd'
  BY <1>1, <1>7, EndRests
<1> HIDE DEF since
<1> QED BY <1>1, <1>3, <1>4, <1>5, <1>6, <1>7, <1>8, OthersKeep

-----------------------------------------------------------------------------
\* The pipeline starts in the invariant.
LEMMA PipelineInitHolds == PipelineInit => PInv
<1> SUFFICES ASSUME PipelineInit PROVE PInv
  OBVIOUS
<1>1. IInv
  BY InitHolds DEF PipelineInit
<1>2. /\ pub = [at |-> "store", sequence |-> 1, count |-> 0, stored |-> 0, late |-> 0]
      /\ rx = [at |-> "start", got |-> FALSE, idle |-> 0, left |-> 0]
      /\ delayed = << >> /\ line = [l \in Line |-> << >>]
      /\ asks = << >> /\ answers = << >> /\ hand = << >>
  BY DEF PipelineInit
<1>3. pub \in PublisherType /\ rx \in ReceiverType
  BY <1>2, RoomFacts DEF PublisherType, ReceiverType
<1>4. StoreIsAhead
  BY <1>2, RoomFacts DEF StoreIsAhead
<1>5. \A i \in Index : ~ slots[i].present
  BY DEF PipelineInit, Init
<1>6. AllStored
  BY <1>2, <1>5 DEF AllStored
<1>7. EndIsEnd
  BY <1>2 DEF EndIsEnd, Over
<1> QED BY <1>1, <1>3, <1>4, <1>6, <1>7 DEF PInv

\* Every step of the pipeline keeps the invariant, and is a step or a stutter of
\* the arbitrator.
LEMMA PipelineStepHolds ==
  PInv /\ [PipelineNext]_<<vars, pipeline>> => PInv' /\ [Next]_vars
<1> SUFFICES ASSUME PInv, [PipelineNext]_<<vars, pipeline>>
             PROVE  PInv' /\ [Next]_vars
  OBVIOUS
<1>1. CASE Publisher
  BY <1>1, PublisherStep
<1>2. CASE Serve
  BY <1>2, ServeStep
<1>3. CASE Receiver
  <2>1. CASE \E l \in Line : ReadLine(l)
    BY <2>1, ReadLineStep
  <2> QED BY <1>3, <2>1, StartSessionStep, ReadAnswerStep, NothingToReadStep,
             GiveToArbitratorStep, EndTurnStep DEF Receiver
<1>4. CASE Clock
  BY <1>4, ClockStep
<1>5. CASE UNCHANGED <<vars, pipeline>>
  <2>1. UNCHANGED vars /\ UNCHANGED <<pub, delayed, line, asks, answers, rx, hand>>
    BY <1>5 DEF pipeline, network
  <2>2. /\ pub.stored \in Nat
        /\ rx \in ReceiverType /\ line \in [Line -> Seq(Sendable(pub.stored) \cup Ends)]
        /\ asks \in Seq(Askable(pub.stored)) /\ answers \in Seq(Returned(pub.stored))
        /\ hand \in Seq(Given(pub.stored))
    BY PipelineFacts
  <2>3. pub.stored <= pub.stored
    BY <2>2
  <2>4. \A i \in Index : slots'[i].present => slots'[i].seq <= pub.stored
    BY <2>1, <2>2, <2>3, RingRests
  <2>5. EndIsEnd'
    BY <2>1, EndRests
  <2> QED BY <2>1, <2>2, <2>4, <2>5, OthersKeep
<1> QED BY <1>1, <1>2, <1>3, <1>4, <1>5 DEF PipelineNext

\* PInv holds of every behaviour of the pipeline.
THEOREM PipelineInvariant == PipelineSpec => []PInv
BY PipelineInitHolds, PipelineStepHolds, PTL DEF PipelineSpec

\* The loop of tickerplant_pub.cpp puts a message into the store before it goes
\* out: whatever is on its way, held back or asked for, the store has had.
THEOREM SentIsStoredAlways == PipelineSpec => []SentIsStored
<1>1. PInv => SentIsStored
  <2> SUFFICES ASSUME PInv PROVE SentIsStored
    OBVIOUS
  <2> DEFINE n == pub.stored
  <2>1. /\ line \in [Line -> Seq(Sendable(n) \cup Ends)]
        /\ delayed \in Seq(Sendable(n)) /\ asks \in Seq(Askable(n))
    BY PipelineFacts
  <2>2. ASSUME NEW l \in Line, NEW i \in DOMAIN line[l], line[l][i].count # EndOfSession
        PROVE  LastOf(line[l][i]) <= n
    <3>1. line[l][i] \in Sendable(n) \cup Ends
      BY <2>1, ElementOfSeq
    <3> QED BY <2>2, <3>1 DEF Sendable, Ends
  <2>3. ASSUME NEW i \in DOMAIN delayed
        PROVE  LastOf(delayed[i]) <= n
    <3>1. delayed[i] \in Sendable(n)
      BY <2>1, ElementOfSeq
    <3> QED BY <3>1 DEF Sendable
  <2>4. ASSUME NEW i \in DOMAIN asks
        PROVE  LastOf(asks[i]) <= n
    <3>1. asks[i] \in Askable(n)
      BY <2>1, ElementOfSeq
    <3> QED BY <3>1 DEF Askable
  <2> QED BY <2>2, <2>3, <2>4 DEF SentIsStored
<1> QED BY <1>1, PipelineInvariant, PTL

\* The publisher drains what it holds back before it ends the session: nothing
\* follows the end on a line, and nothing is left to follow it.
THEOREM EndComesLastAlways == PipelineSpec => []EndComesLast
<1>1. PInv => EndComesLast
  <2> SUFFICES ASSUME PInv, NEW l \in Line, NEW i \in DOMAIN line[l],
                      line[l][i].count = EndOfSession
               PROVE  /\ delayed = << >>
                      /\ \A j \in i + 1 .. Len(line[l]) : line[l][j].count = EndOfSession
    BY DEF EndComesLast
  <2>1. line \in [Line -> Seq(Sendable(pub.stored) \cup Ends)]
    BY PipelineFacts
  <2>2. DOMAIN line[l] = 1 .. Len(line[l]) /\ Len(line[l]) \in Nat
    BY <2>1, LenProperties
  <2>3. Over
    <3> SUFFICES ASSUME ~ Over PROVE FALSE
      OBVIOUS
    <3>1. line[l] \in Seq(Sendable(pub.stored))
      BY BeforeTheEnd
    <3>2. line[l][i] \in Sendable(pub.stored)
      BY <2>2, <3>1, ElementOfSeq
    <3> QED BY <3>2 DEF Sendable
  <2>4. delayed = << >> /\ EndsLast(line[l])
    BY <2>3 DEF PInv, EndIsEnd
  <2>5. ASSUME NEW j \in i + 1 .. Len(line[l])
        PROVE  line[l][j].count = EndOfSession
    <3>1. j \in DOMAIN line[l] /\ i < j
      BY <2>2
    <3> QED BY <2>4, <3>1 DEF EndsLast
  <2> QED BY <2>4, <2>5
<1> QED BY <1>1, PipelineInvariant, PTL

\* The receive loop drives the arbitrator as its interface allows: whatever is
\* proved of the arbitrator holds of the one in the pipeline.
THEOREM ArbitratorInPipeline == PipelineSpec => Spec
<1>1. PipelineInit => Init
  BY DEF PipelineInit
<1> QED BY <1>1, PipelineStepHolds, PipelineInvariant, PTL DEF PipelineSpec, Spec

\* Once the loop runs the session has begun, at sequence 1, and it does not begin
\* again: what is given to the arbitrator finds it started.
FromOne == IF rx.at = "start" THEN hand = << >> ELSE started /\ first = 1

\* No message moves the beginning of a session that has begun, and no poll does.
LEMMA BeginningStays ==
  ASSUME \/ \E source, s : Ingest(source, s)
         \/ Poll \/ Tick \/ UNCHANGED vars,
         started
  PROVE  started' /\ first' = first
<1>1. ASSUME NEW source, NEW s, Ingest(source, s)
      PROVE  started' /\ first' = first
  BY <1>1 DEF Ingest, InOrder, Hold, TooWide, CatchUp, Jump
<1>2. CASE Poll
  BY <1>2 DEF Poll, PollAsk, PollRetry, PollGiveUp, PollStepOver, SkipHole, history
<1>3. CASE Tick
  BY <1>3 DEF Tick, history
<1>4. CASE UNCHANGED vars
  BY <1>4 DEF vars, history
<1> QED BY <1>1, <1>2, <1>3, <1>4

\* The receive loop starts the session once, before anything else it does.
LEMMA FromOneAlways == PipelineSpec => []FromOne
<1>1. PipelineInit => FromOne
  BY DEF PipelineInit, FromOne
<1>2. ASSUME PInv, FromOne, [PipelineNext]_<<vars, pipeline>>
      PROVE  FromOne'
  <2>0. rx \in ReceiverType
    BY <1>2 DEF PInv
  <2>1. CASE Publisher \/ Serve \/ UNCHANGED <<vars, pipeline>>
    <3>1. UNCHANGED vars /\ rx' = rx /\ hand' = hand
      BY <2>1 DEF Publisher, Serve, pipeline
    <3> QED BY <1>2, <3>1 DEF FromOne, vars, history
  <2>2. CASE StartSession
    BY <2>0, <2>2 DEF StartSession, Reset, FromOne, ReceiverType
  <2>3. CASE (\E l \in Line : ReadLine(l)) \/ ReadAnswer
    <3>1. /\ rx' = [rx EXCEPT !.got = TRUE, !.idle = 0, !.left = Wait]
             \/ rx' = [rx EXCEPT !.got = TRUE, !.idle = 0]
          /\ rx.at # "start" /\ UNCHANGED vars
      BY <2>3 DEF ReadLine, ReadAnswer, Line
    <3>2. rx'.at # "start"
      BY <2>0, <3>1 DEF ReceiverType
    <3> QED BY <1>2, <3>1, <3>2 DEF FromOne, vars, history
  <2>4. CASE NothingToRead
    <3>1. rx.at # "start" /\ rx'.at # "start" /\ UNCHANGED vars
      BY <2>0, <2>4 DEF NothingToRead, Then, ReceiverType
    <3> QED BY <1>2, <3>1 DEF FromOne, vars, history
  <2>5. CASE GiveToArbitrator
    <3>1. hand # << >> /\ rx' = rx
      BY <2>5 DEF GiveToArbitrator
    <3>2. rx.at # "start" /\ started /\ first = 1
      BY <1>2, <3>1 DEF FromOne
    <3>3. UNCHANGED vars \/ \E source, s : Ingest(source, s)
      BY <2>5 DEF GiveToArbitrator
    <3> QED BY <3>1, <3>2, <3>3, BeginningStays DEF FromOne
  <2>6. CASE EndTurn
    <3>1. rx.at = "poll" /\ rx'.at # "start" /\ (Poll \/ UNCHANGED vars)
      BY <2>6 DEF EndTurn
    <3>2. started /\ first = 1
      BY <1>2, <3>1 DEF FromOne
    <3> QED BY <3>1, <3>2, BeginningStays DEF FromOne
  <2>7. CASE Clock
    <3>1. rx.at # "start" /\ rx'.at = rx.at /\ (Tick \/ UNCHANGED vars)
      BY <2>0, <2>7 DEF Clock, Line, ReceiverType
    <3>2. started /\ first = 1
      BY <1>2, <3>1 DEF FromOne
    <3> QED BY <3>1, <3>2, BeginningStays DEF FromOne
  <2> QED BY <1>2, <2>1, <2>2, <2>3, <2>4, <2>5, <2>6, <2>7 DEF PipelineNext, Receiver
<1> QED BY <1>1, <1>2, PipelineInvariant, PTL DEF PipelineSpec

\* What reaches the order book at the end of the pipeline is strictly
\* increasing and intact, and until the feed says Stale it is every message from
\* the first of the file on: one lost or late at the head of the session is a gap
\* like any other, because the receiver starts the arbitrator at 1.
THEOREM StreamInPipeline ==
  PipelineSpec =>
    []/\ StrictlyIncreasing /\ Intact
      /\ rx.at # "start" /\ state # "Stale" =>
           delivered = [i \in 1 .. expected - 1 |-> Message(i, i)]
<1>1. ASSUME FromOne, CompleteUnlessStale, rx.at # "start", state # "Stale"
      PROVE  delivered = [i \in 1 .. expected - 1 |-> Message(i, i)]
  <2>1. first = 1
    BY <1>1 DEF FromOne
  <2>2. delivered = [i \in 1 .. expected - 1 |-> Message(1 + i - 1, 1 + i - 1)]
    BY <1>1, <2>1 DEF CompleteUnlessStale
  <2>3. \A i \in 1 .. expected - 1 : 1 + i - 1 = i
    OBVIOUS
  <2> QED BY <2>2, <2>3
<1> QED BY <1>1, ArbitratorInPipeline, StreamIsOrdered, NothingIsLostSilently,
           FromOneAlways, PTL

-----------------------------------------------------------------------------
(***************************************************************************)
(* The exit of the receive loop.  Once the feed is quiet the ring empties  *)
(* by the clock alone.  Soon bounds the ticks until the next poll that     *)
(* changes something, Later those its further attempts take, and Behind    *)
(* those of the holes behind the one at the front: what the idle time has  *)
(* reached and what is still to go are never more than there was at first. *)
(***************************************************************************)

\* The loop waits for a hole to be given up before it leaves.
IdleIsLong == Grace >= 1 /\ Timeout >= 1 /\ IdleExit + Turn >= GivesUpAfter

\* The ticks the receive calls can still take before the next poll.
ToPoll ==
  CASE rx.at = "A" -> rx.left + Wait
    [] rx.at = "B" -> rx.left
    [] OTHER -> 0

\* The ticks until the running timer is over, and until a poll finds it so.
Until == IF state = "Recovering" THEN time_left ELSE Grace - gap_age
Soon == IF PollDue THEN ToPoll ELSE Noticed(Until)

\* The same at the beginning of a turn, and the most that can be.
SoonAtFirst == IF PollDue THEN Turn ELSE Noticed(Until)
SoonAtMost == IF state = "Recovering" THEN Noticed(Timeout) ELSE Noticed(Grace)

Tries ==
  CASE state = "Gap" -> MaxAttempts
    [] state = "Recovering" -> MaxAttempts - attempts
    [] OTHER -> 0
Later == Tries * Noticed(Timeout)
Behind == (pending - 1) * Noticed(Grace)
Holes == (Cap - 2) * Noticed(Grace)

\* How far the idle time can have come with so much to go.
InTime(soon) ==
  /\ state # "Stale" => rx.idle + soon + Later <= GivesUpAfter
  /\ rx.idle + soon + Later + Behind <= GivesUpAfter + Holes

ExitInv ==
  /\ rx.at \in {"poll", "exited"} => hand = << >>
  /\ hand # << >> => rx.got
  /\ HeldAtExitIsLoud
  /\ rx.at # "exited" /\ ~ rx.got /\ pending # 0 => InTime(Soon)

\* A longer row of the same periods is no shorter.
LEMMA ProductsAscend ==
  ASSUME NEW c \in Nat, NEW p \in Nat, NEW q \in Nat, p <= q
  PROVE  p * c \in Nat /\ q * c \in Nat /\ p * c <= q * c
<1>1. p * c \in Nat /\ q * c \in Nat /\ (q - p) * c \in Nat
  <2>1. \A a, b \in Nat : a * b \in Nat
    OBVIOUS
  <2> QED BY <2>1
<1>2. (q - p) * c = q * c - p * c
  OBVIOUS
<1> QED BY <1>1, <1>2

\* The slot of the front is free, so the ring holds less than it has slots.
LEMMA PendingFits == ASSUME IInv PROVE pending <= Cap - 1
<1> DEFINE f == expected % Cap
<1>1. /\ Window /\ expected \in Nat /\ Cap \in Nat \ {0}
  BY Facts
<1>2. f \in Index
  BY <1>1, Division DEF Index
<1>3. ~ slots[f].present
  <2> SUFFICES ASSUME slots[f].present PROVE FALSE
    OBVIOUS
  <2> DEFINE s == slots[f].seq
  <2>1. s \in Nat /\ s % Cap = expected % Cap /\ s > expected /\ s < expected + Cap
    BY <1>1, <1>2 DEF Window, WindowAt, Slot
  <2> HIDE DEF s
  <2>2. expected % Cap # s % Cap
    BY <1>1, <2>1, SlotsDiffer
  <2> QED BY <2>1, <2>2
<1> HIDE DEF f
<1>4. InUse(slots) \in SUBSET (Index \ {f})
  BY <1>3 DEF InUse
<1>5. IsFiniteSet(Index) /\ Cardinality(Index) = Cap
  <2>1. 0 \in Int /\ Cap - 1 \in Int /\ 0 <= Cap - 1
    BY <1>1
  <2>2. IsFiniteSet(0 .. Cap - 1) /\ Cardinality(0 .. Cap - 1) = (Cap - 1) - 0 + 1
    BY <2>1, FS_Interval
  <2> QED BY <1>1, <2>2 DEF Index
<1>6. IsFiniteSet(Index \ {f}) /\ Cardinality(Index \ {f}) = Cap - 1
  BY <1>2, <1>5, FS_RemoveElement
<1>7. Cardinality(InUse(slots)) <= Cap - 1
  BY <1>4, <1>6, FS_Subset
<1> QED BY <1>1, <1>7 DEF Window

\* A hole that is stepped over lets go of what was held behind it.
LEMMA HoleLetsGo ==
  ASSUME IInv, SkipHole, pending # 0
  PROVE  pending' \in Nat /\ pending' <= pending - 1
<1> DEFINE target == expected + MissingRun
           end == DrainEnd(target)
           held == Between(target, end)
<1>1. Window /\ expected \in Nat /\ pending \in Nat /\ Cap \in Nat
  BY Facts
<1>2. MissingRun \in Nat /\ Present(target)
  BY <1>1, MissingRunFacts
<1>3. target \in Nat /\ target >= expected
  BY <1>1, <1>2
<1>4. pending' = pending - Len(Release(target, end))
  BY DEF SkipHole
<1> HIDE DEF target
<1>5. end \in Nat /\ target <= end /\ ~ Present(end)
  BY <1>1, <1>3, DrainEndFacts
<1> HIDE DEF end
<1>6. target \in held
  <2>1. target # end
    BY <1>2, <1>5
  <2>2. target \in target .. end - 1
    BY <1>3, <1>5, <2>1
  <2> QED BY <1>2, <2>2 DEF Between
<1>7. /\ IsFiniteSet(held) /\ Cardinality(held) \in Nat
      /\ Len(Release(target, end)) = Cardinality(held)
  BY <1>1, <1>3, <1>5, BetweenFacts, ReleaseFacts
<1> HIDE DEF held
<1>8. Cardinality(held) # 0
  BY <1>6, <1>7, FS_EmptySet
<1>9. pending' \in Nat
  BY SkipHoleFacts
<1> QED BY <1>1, <1>4, <1>7, <1>8, <1>9

\* The periods of the constants.
LEMMA PeriodFacts ==
  ASSUME IdleIsLong
  PROVE  /\ Turn \in Nat /\ Turn = Wait + Wait /\ Wait \in Nat /\ 1 <= Wait
         /\ Noticed(Grace) \in Nat /\ Turn <= Noticed(Grace)
         /\ Noticed(Timeout) \in Nat /\ Turn <= Noticed(Timeout)
         /\ MaxAttempts * Noticed(Timeout) \in Nat
         /\ GivesUpAfter = Noticed(Grace) + MaxAttempts * Noticed(Timeout)
         /\ GivesUpAfter \in Nat /\ IdleExit \in Nat /\ IdleExit + Turn >= GivesUpAfter
         /\ Grace \in Nat /\ Timeout \in Nat /\ MaxAttempts \in Nat \ {0} /\ Cap \in Nat \ {0}
<1>1. /\ Wait \in Nat \ {0} /\ IdleExit \in Nat
      /\ Grace \in Nat /\ Timeout \in Nat /\ MaxAttempts \in Nat \ {0} /\ Cap \in Nat \ {0}
      /\ Grace >= 1 /\ Timeout >= 1 /\ IdleExit + Turn >= GivesUpAfter
  BY RoomFacts, SequencerAssumption DEF IdleIsLong
<1>2. Turn \in Nat /\ Turn = Wait + Wait
  BY <1>1 DEF Turn
<1>3. /\ Noticed(Grace) \in Nat /\ Turn <= Noticed(Grace)
      /\ Noticed(Timeout) \in Nat /\ Turn <= Noticed(Timeout)
  BY <1>1, <1>2 DEF Noticed
<1>4. MaxAttempts * Noticed(Timeout) \in Nat
  BY <1>1, <1>3, ProductsAscend
<1>5. GivesUpAfter = Noticed(Grace) + MaxAttempts * Noticed(Timeout)
  BY DEF GivesUpAfter
<1>6. GivesUpAfter \in Nat
  BY <1>3, <1>4, <1>5
<1> QED BY <1>1, <1>2, <1>3, <1>4, <1>5, <1>6

\* One more of a period.
LEMMA OneMore ==
  ASSUME NEW k \in Nat, NEW p \in Nat
  PROVE  (k + 1) * p = k * p + p /\ k * p \in Nat
BY ProductsAscend

\* The arbitrator's side of the invariant, for a window that holds something.
LEMMA WaitingFacts ==
  ASSUME IInv, pending # 0
  PROVE  /\ pending \in Nat /\ pending - 1 \in Nat /\ pending <= Cap - 1 /\ Cap - 2 \in Nat
         /\ gap_age \in 0 .. Grace /\ time_left \in 0 .. Timeout
         /\ attempts \in 0 .. MaxAttempts
         /\ state \in {"Gap", "Recovering", "Stale"}
         /\ state = "Recovering" => attempts >= 1
<1>1. /\ pending \in Nat /\ gap_age \in 0 .. Grace /\ time_left \in 0 .. Timeout
      /\ attempts \in 0 .. MaxAttempts /\ state \in FeedState /\ Cap \in Nat
      /\ StateMatchesWindow
  BY Facts DEF IInv
<1>2. pending <= Cap - 1
  BY PendingFits
<1>3. state # "Synced" /\ (state = "Recovering" => attempts >= 1)
  BY <1>1 DEF StateMatchesWindow
<1> QED BY <1>1, <1>2, <1>3 DEF FeedState

\* The same of the state after a step.
LEMMA WaitingFactsNext ==
  (IInv /\ pending # 0 => pending \in Nat /\ pending <= Cap - 1)'
<1>1. IInv /\ pending # 0 => pending \in Nat /\ pending <= Cap - 1
  BY WaitingFacts
<1> QED BY <1>1, PTL

\* From wherever the window is, what is still to go fits the bounds.
LEMMA ToGoFacts ==
  ASSUME IInv, IdleIsLong, pending # 0
  PROVE  /\ Later \in Nat /\ Behind \in Nat /\ Holes \in Nat /\ Behind <= Holes
         /\ SoonAtFirst \in Nat /\ Turn <= SoonAtFirst /\ SoonAtFirst <= SoonAtMost
         /\ SoonAtMost \in Nat /\ SoonAtMost + Later <= GivesUpAfter
<1> DEFINE g == Noticed(Grace)
           t == Noticed(Timeout)
           all == MaxAttempts * t
<1>1. /\ pending \in Nat /\ pending - 1 \in Nat /\ pending <= Cap - 1 /\ Cap - 2 \in Nat
      /\ gap_age \in 0 .. Grace /\ time_left \in 0 .. Timeout
      /\ attempts \in 0 .. MaxAttempts
      /\ state \in {"Gap", "Recovering", "Stale"}
      /\ state = "Recovering" => attempts >= 1
  BY WaitingFacts
<1>2. /\ Turn \in Nat /\ g \in Nat /\ Turn <= g /\ t \in Nat /\ Turn <= t /\ all \in Nat
      /\ GivesUpAfter = g + all
      /\ Grace \in Nat /\ Timeout \in Nat /\ MaxAttempts \in Nat \ {0} /\ Cap \in Nat \ {0}
  BY PeriodFacts
<1>3. Behind \in Nat /\ Holes \in Nat /\ Behind <= Holes
  <2>1. pending - 1 <= Cap - 2
    BY <1>1, <1>2
  <2> QED BY <1>1, <1>2, <2>1, ProductsAscend DEF Behind, Holes
<1>4. SoonAtFirst \in Nat /\ Turn <= SoonAtFirst /\ SoonAtFirst <= SoonAtMost /\ SoonAtMost \in Nat
  <2>1. ~ PollDue => Until >= 1
    BY <1>1, <1>2 DEF PollDue, GraceOver, Until
  <2>2. /\ Until \in Int
        /\ IF state = "Recovering" THEN Until <= Timeout ELSE Until <= Grace
    BY <1>1, <1>2 DEF Until
  <2>3. CASE PollDue
    BY <1>2, <2>3 DEF SoonAtFirst, SoonAtMost
  <2>4. CASE ~ PollDue
    BY <1>2, <2>1, <2>2, <2>4 DEF SoonAtFirst, SoonAtMost, Noticed
  <2> QED BY <2>3, <2>4
<1>5. Later \in Nat /\ SoonAtMost + Later <= GivesUpAfter
  <2>1. CASE state = "Gap"
    <3>1. Later = all /\ SoonAtMost = g
      BY <2>1 DEF Later, Tries, SoonAtMost
    <3> QED BY <1>2, <3>1
  <2>2. CASE state = "Recovering"
    <3> DEFINE k == MaxAttempts - attempts
    <3>1. Later = k * t /\ SoonAtMost = t
      BY <2>2 DEF Later, Tries, SoonAtMost
    <3>2. k \in Nat /\ k + 1 \in Nat /\ k + 1 <= MaxAttempts /\ MaxAttempts \in Nat
      BY <1>1, <1>2, <2>2
    <3> HIDE DEF k
    <3>3. (k + 1) * t = k * t + t /\ k * t \in Nat
      BY <1>2, <3>2, OneMore
    <3>4. (k + 1) * t <= all
      BY <1>2, <3>2, ProductsAscend
    <3> HIDE DEF t, all, g
    <3>5. PICK x : x = k * t
      OBVIOUS
    <3> QED BY <1>2, <3>1, <3>3, <3>4, <3>5
  <2>3. CASE state = "Stale"
    <3>1. Later = 0 /\ SoonAtMost = g
      <4>1. 0 * t = 0
        BY <1>2
      <4> QED BY <2>3, <4>1 DEF Later, Tries, SoonAtMost
    <3> QED BY <1>2, <3>1
  <2> QED BY <1>1, <2>1, <2>2, <2>3
<1> QED BY <1>3, <1>4, <1>5

\* The same of the state after a step.
LEMMA ToGoFactsNext ==
  (IInv /\ IdleIsLong /\ pending # 0 =>
     /\ Later \in Nat /\ Behind \in Nat /\ Holes \in Nat /\ Behind <= Holes
     /\ SoonAtFirst \in Nat /\ Turn <= SoonAtFirst /\ SoonAtFirst <= SoonAtMost
     /\ SoonAtMost \in Nat /\ SoonAtMost + Later <= GivesUpAfter)'
<1>1. IInv /\ IdleIsLong /\ pending # 0 =>
        /\ Later \in Nat /\ Behind \in Nat /\ Holes \in Nat /\ Behind <= Holes
        /\ SoonAtFirst \in Nat /\ Turn <= SoonAtFirst /\ SoonAtFirst <= SoonAtMost
        /\ SoonAtMost \in Nat /\ SoonAtMost + Later <= GivesUpAfter
  BY ToGoFacts
<1> QED BY <1>1, PTL

\* Stepping over a hole takes its period off what is still to go.
LEMMA SkipShortens ==
  ASSUME IInv, IdleIsLong, SkipHole, pending # 0, pending' # 0
  PROVE  Noticed(Grace) + Behind' <= Behind
<1>0. PICK p, q, g : p = pending /\ q = pending' /\ g = Noticed(Grace)
  OBVIOUS
<1>1. p \in Nat /\ p # 0 /\ q # 0 /\ g \in Nat
  BY <1>0, Facts, PeriodFacts
<1>2. q \in Nat /\ q <= p - 1
  BY <1>0, HoleLetsGo
<1>3. q - 1 \in Nat /\ p - 1 \in Nat /\ (q - 1) + 1 = q
  BY <1>1, <1>2
<1>4. q * g <= (p - 1) * g
  BY <1>1, <1>2, <1>3, ProductsAscend
<1>5. ((q - 1) + 1) * g = (q - 1) * g + g /\ (q - 1) * g \in Nat
  BY <1>1, <1>3, OneMore
<1>6. g + (q - 1) * g <= (p - 1) * g
  BY <1>1, <1>3, <1>4, <1>5
<1> QED BY <1>0, <1>6 DEF Behind, Noticed, Turn

\* A poll that changes something: what is to go from the next turn on is no more
\* than what was to go behind the poll.
LEMMA PollShortens ==
  ASSUME IInv, IdleIsLong, Poll, pending' # 0
  PROVE  /\ pending # 0
         /\ SoonAtMost' + Later' + Behind' <= Later + Behind
         /\ state' # "Stale" => state # "Stale" /\ SoonAtMost' + Later' <= Later
<1> DEFINE g == Noticed(Grace)
           t == Noticed(Timeout)
           rest(n) == (MaxAttempts - n) * t
<1>1. pending # 0
  <2>1. state \in {"Gap", "Recovering"} => pending # 0
    BY DEF IInv, StateMatchesWindow
  <2> QED BY <2>1 DEF Poll, PollAsk, PollRetry, PollGiveUp, PollStepOver
<1>2. /\ pending \in Nat /\ attempts \in 0 .. MaxAttempts
      /\ g \in Nat /\ t \in Nat /\ MaxAttempts \in Nat \ {0}
      /\ Later \in Nat /\ Behind \in Nat
  BY <1>1, WaitingFacts, PeriodFacts, ToGoFacts
<1>3. ASSUME NEW n \in Nat, n < MaxAttempts
      PROVE  t + rest(n + 1) = rest(n) /\ rest(n + 1) \in Nat
  <2> DEFINE k == MaxAttempts - (n + 1)
  <2>1. k \in Nat /\ MaxAttempts - n = k + 1
    BY <1>2, <1>3
  <2> HIDE DEF k
  <2>2. (k + 1) * t = k * t + t /\ k * t \in Nat
    BY <1>2, <2>1, OneMore
  <2> HIDE DEF t
  <2>3. PICK x : x = k * t
    OBVIOUS
  <2>4. t + x = x + t /\ x \in Nat
    BY <1>2, <2>2, <2>3
  <2> QED BY <2>1, <2>2, <2>3, <2>4 DEF k
<1>4. /\ state' = "Recovering" => SoonAtMost' = t /\ Later' = (MaxAttempts - attempts') * t
      /\ state' = "Stale" => SoonAtMost' = g /\ Later' = 0
  <2>1. 0 * t = 0
    BY <1>2
  <2> QED BY <2>1 DEF SoonAtMost, Later, Tries, Noticed, Turn
<1>5. /\ state = "Gap" => Later = rest(0)
      /\ state = "Recovering" => Later = rest(attempts)
      /\ state = "Stale" => Later = 0
  <2>1. 0 * t = 0 /\ MaxAttempts - 0 = MaxAttempts
    BY <1>2
  <2> QED BY <2>1 DEF Later, Tries
<1> HIDE DEF g, t
<1>6. CASE PollAsk
  <2>1. state = "Gap" /\ state' = "Recovering" /\ attempts' = 1 /\ pending' = pending
    BY <1>6 DEF PollAsk
  <2>2. Behind' = Behind
    BY <2>1 DEF Behind, Noticed, Turn
  <2>3. t + rest(1) = rest(0) /\ rest(1) \in Nat
    BY <1>2, <1>3
  <2>4. SoonAtMost' = t /\ Later' = rest(1) /\ Later = rest(0)
    BY <1>4, <1>5, <2>1
  <2> HIDE DEF rest
  <2> QED BY <1>1, <1>2, <2>1, <2>2, <2>3, <2>4
<1>7. CASE PollRetry
  <2>1. /\ state = "Recovering" /\ state' = state /\ attempts' = attempts + 1
        /\ attempts < MaxAttempts /\ pending' = pending
    BY <1>7 DEF PollRetry
  <2>2. Behind' = Behind
    BY <2>1 DEF Behind, Noticed, Turn
  <2>3. t + rest(attempts + 1) = rest(attempts) /\ rest(attempts + 1) \in Nat
    BY <1>2, <1>3, <2>1
  <2>4. SoonAtMost' = t /\ Later' = rest(attempts + 1) /\ Later = rest(attempts)
    BY <1>4, <1>5, <2>1
  <2> HIDE DEF rest
  <2> QED BY <1>1, <1>2, <2>1, <2>2, <2>3, <2>4
<1>8. CASE PollGiveUp \/ PollStepOver
  <2>1. state' = "Stale" /\ SkipHole
    BY <1>8 DEF PollGiveUp, PollStepOver, EnterStale
  <2>2. g + Behind' <= Behind
    BY <1>1, <2>1, SkipShortens DEF g
  <2>3. SoonAtMost' = g /\ Later' = 0
    BY <1>4, <2>1
  <2>4. Behind' \in Nat
    <3>1. PICK q : q = pending'
      OBVIOUS
    <3>2. q \in Nat /\ q # 0
      BY <1>1, <2>1, <3>1, HoleLetsGo
    <3>3. q - 1 \in Nat
      BY <3>2
    <3>4. Behind' = (pending' - 1) * g
      BY DEF Behind, g, Noticed, Turn
    <3> QED BY <1>2, <3>1, <3>3, <3>4, ProductsAscend
  <2>5. PICK x, b, l : x = Behind' /\ b = Behind /\ l = Later
    OBVIOUS
  <2>a. x \in Nat /\ b \in Nat /\ l \in Nat /\ g + x <= b
    BY <1>2, <2>2, <2>4, <2>5
  <2>6. g + 0 + x <= l + b
    BY <1>2, <2>a
  <2> QED BY <1>1, <2>1, <2>3, <2>5, <2>6
<1> QED BY <1>6, <1>7, <1>8 DEF Poll

\* What a tick leaves alone.
LEMMA TickFacts ==
  ASSUME IF gap_age < Grace \/ time_left > 0 THEN Tick ELSE UNCHANGED vars,
         gap_age \in 0 .. Grace, time_left \in 0 .. Timeout, Grace \in Nat, Timeout \in Nat
  PROVE  /\ state' = state /\ pending' = pending /\ attempts' = attempts
         /\ gap_age' = IF gap_age < Grace THEN gap_age + 1 ELSE gap_age
         /\ time_left' = IF time_left > 0 THEN time_left - 1 ELSE 0
<1>1. CASE gap_age < Grace \/ time_left > 0
  BY <1>1 DEF Tick
<1>2. CASE ~ (gap_age < Grace \/ time_left > 0)
  BY <1>2 DEF vars, recovery
<1> QED BY <1>1, <1>2

\* A tick takes one off the ticks until the poll that is waited for.
LEMMA TickShortens ==
  ASSUME PInv, IdleIsLong, pending # 0, Clock
  PROVE  /\ Soon \in Nat /\ Soon' \in Nat /\ Soon' + 1 <= Soon
         /\ Later' = Later /\ Behind' = Behind /\ state' = state /\ pending' = pending
<1>1. /\ rx.at \in Line /\ rx.left > 0 /\ rx \in ReceiverType
      /\ rx' = [rx EXCEPT !.left = @ - 1,
                          !.idle = IF rx.got \/ @ > IdleExit THEN @ ELSE @ + 1]
      /\ IF gap_age < Grace \/ time_left > 0 THEN Tick ELSE UNCHANGED vars
  BY DEF Clock, PInv
<1>2. /\ pending \in Nat /\ gap_age \in 0 .. Grace /\ time_left \in 0 .. Timeout
      /\ attempts \in 0 .. MaxAttempts
      /\ state \in {"Gap", "Recovering", "Stale"}
  BY WaitingFacts DEF PInv
<1>3. /\ Turn \in Nat /\ Turn = Wait + Wait /\ Wait \in Nat /\ 1 <= Wait
      /\ Grace \in Nat /\ Timeout \in Nat
  BY PeriodFacts
<1>4. /\ state' = state /\ pending' = pending /\ attempts' = attempts
      /\ gap_age' = IF gap_age < Grace THEN gap_age + 1 ELSE gap_age
      /\ time_left' = IF time_left > 0 THEN time_left - 1 ELSE 0
  BY <1>1, <1>2, <1>3, TickFacts
<1>5. /\ rx'.at = rx.at /\ rx'.left = rx.left - 1
      /\ rx.left \in Nat /\ rx.left <= Wait
  BY <1>1, <1>3 DEF ReceiverType
<1>6. ToPoll \in Nat /\ ToPoll' = ToPoll - 1 /\ ToPoll <= Turn
  BY <1>1, <1>3, <1>5 DEF ToPoll, Line
<1>7. Later' = Later /\ Behind' = Behind
  BY <1>4 DEF Later, Tries, Behind, Noticed, Turn
<1>8. PollDue => PollDue'
  BY <1>2, <1>3, <1>4 DEF PollDue, UnderPressure, GraceOver
<1>9. ~ PollDue => Until \in Nat /\ Until >= 1 /\ Until' = Until - 1
  BY <1>2, <1>3, <1>4 DEF PollDue, GraceOver, Until
<1>10. ToPoll' \in Nat
  BY <1>1, <1>3, <1>5 DEF ToPoll, Line
<1>11. PICK x, y : x = ToPoll' /\ y = Until'
  OBVIOUS
<1>12. CASE PollDue
  <2>1. Soon = ToPoll /\ Soon' = ToPoll'
    BY <1>8, <1>12 DEF Soon
  <2>2. x + 1 <= ToPoll
    BY <1>6, <1>11
  <2> QED BY <1>4, <1>6, <1>7, <1>10, <1>11, <2>1, <2>2
<1>13. CASE ~ PollDue
  <2>1. Soon = Until + Turn - 1
    BY <1>13 DEF Soon, Noticed
  <2>2. /\ Until \in Nat /\ Until >= 1 /\ y = Until - 1 /\ x \in Nat /\ x = ToPoll - 1
    BY <1>6, <1>9, <1>10, <1>11, <1>13
  <2>3. Soon' = IF PollDue' THEN x ELSE y + Turn - 1
    BY <1>11 DEF Soon, Noticed, Turn
  <2>4. Soon \in Nat /\ x + 1 <= Soon /\ (y + Turn - 1) + 1 <= Soon /\ y + Turn - 1 \in Nat
    BY <1>3, <1>6, <2>1, <2>2
  <2>5. Soon' \in Nat /\ Soon' + 1 <= Soon
    <3>1. CASE PollDue'
      BY <2>2, <2>3, <2>4, <3>1
    <3>2. CASE ~ PollDue'
      BY <2>3, <2>4, <3>2
    <3> QED BY <3>1, <3>2
  <2> QED BY <1>4, <1>7, <2>4, <2>5
<1> QED BY <1>12, <1>13

\* What leaves the arbitrator and the receive loop's own state alone.
LEMMA ExitRests ==
  ASSUME ExitInv, UNCHANGED vars, UNCHANGED <<rx, hand>>
  PROVE  ExitInv'
<1>1. /\ Later' = Later /\ Behind' = Behind /\ Soon' = Soon
      /\ state' = state /\ pending' = pending
  BY DEF Later, Tries, Behind, Soon, ToPoll, Until, PollDue, UnderPressure, GraceOver,
         Noticed, Turn, vars, recovery
<1>2. InTime(Soon) => InTime(Soon)'
  BY <1>1 DEF InTime, Holes, GivesUpAfter, Noticed, Turn
<1>3. HeldAtExitIsLoud'
  BY <1>1 DEF ExitInv, HeldAtExitIsLoud, GivesUpAfter, Noticed, Turn
<1> QED BY <1>1, <1>2, <1>3 DEF ExitInv

\* The session starts with an empty window.
LEMMA ExitStarts ==
  ASSUME PInv, ExitInv, StartSession
  PROVE  ExitInv'
<1>1. /\ rx.at = "start" /\ pending' = 0 /\ hand' = hand
      /\ rx' = [rx EXCEPT !.at = "A", !.left = Wait] /\ rx \in ReceiverType
  BY DEF StartSession, Reset, PInv
<1>2. rx'.at = "A" /\ rx'.got = rx.got
  BY <1>1 DEF ReceiverType
<1> QED BY <1>1, <1>2 DEF ExitInv, HeldAtExitIsLoud

\* Something is read: the turn has traffic, and what was read is in hand.
LEMMA ExitReads ==
  ASSUME PInv, ExitInv, (\E l \in Line : ReadLine(l)) \/ ReadAnswer
  PROVE  ExitInv'
<1>1. /\ \/ rx' = [rx EXCEPT !.got = TRUE, !.idle = 0, !.left = Wait]
         \/ rx' = [rx EXCEPT !.got = TRUE, !.idle = 0]
      /\ rx.at \in {"A", "B", "answers"}
  BY DEF ReadLine, ReadAnswer, Line
<1>2. rx \in ReceiverType
  BY DEF PInv
<1>3. rx'.got /\ rx'.at = rx.at
  BY <1>1, <1>2 DEF ReceiverType
<1> QED BY <1>1, <1>3 DEF ExitInv, HeldAtExitIsLoud

\* A message in hand means the turn has traffic.
LEMMA ExitGives ==
  ASSUME PInv, ExitInv, GiveToArbitrator
  PROVE  ExitInv'
<1>1. hand # << >> /\ rx' = rx
  BY DEF GiveToArbitrator
<1>2. rx.got /\ rx.at \notin {"poll", "exited"}
  BY <1>1 DEF ExitInv
<1> QED BY <1>1, <1>2 DEF ExitInv, HeldAtExitIsLoud

\* A socket has nothing: the poll is no further away, and nothing is in hand.
LEMMA ExitLooks ==
  ASSUME PInv, ExitInv, IdleIsLong, NothingToRead
  PROVE  ExitInv'
<1>1. /\ hand = << >> /\ hand' = hand /\ UNCHANGED vars
      /\ \/ rx.at = "A" /\ Then("B", Wait)
         \/ rx.at = "B" /\ Then("answers", 0)
         \/ rx.at = "answers" /\ Then("poll", 0)
  BY DEF NothingToRead
<1>2. rx \in ReceiverType /\ IInv /\ Wait \in Nat
  BY RoomFacts DEF PInv
<1>3. /\ rx.at # "exited" /\ rx'.at # "exited" /\ rx'.got = rx.got /\ rx'.idle = rx.idle
      /\ rx.idle \in Nat
  BY <1>1, <1>2 DEF ReceiverType, Then
<1>4. ToPoll' \in Nat /\ ToPoll \in Nat /\ ToPoll' <= ToPoll
  <2>1. rx.left \in Nat /\ rx.left <= Wait
    BY <1>2 DEF ReceiverType
  <2>2. /\ rx.at = "A" => rx'.at = "B" /\ rx'.left = Wait
        /\ rx.at = "B" => rx'.at = "answers"
        /\ rx.at = "answers" => rx'.at = "poll"
    BY <1>1, <1>2 DEF ReceiverType, Then
  <2> QED BY <1>1, <1>2, <2>1, <2>2 DEF ToPoll
<1>5. /\ Later' = Later /\ Behind' = Behind /\ PollDue' = PollDue
      /\ Noticed(Until)' = Noticed(Until) /\ state' = state /\ pending' = pending
  BY <1>1 DEF Later, Tries, Behind, Until, PollDue, UnderPressure, GraceOver,
              Noticed, Turn, vars, recovery
<1>6. ASSUME pending # 0, InTime(Soon)
      PROVE  InTime(Soon)'
  <2>1. Later \in Nat /\ Behind \in Nat /\ Holes \in Nat /\ GivesUpAfter \in Nat
    BY <1>2, <1>6, ToGoFacts, PeriodFacts
  <2>2. Soon' = Soon \/ (Soon = ToPoll /\ Soon' = ToPoll')
    BY <1>5 DEF Soon
  <2>3. PICK a, b, i, l, h : /\ a = Soon /\ b = Soon' /\ i = rx.idle /\ l = Later /\ h = Behind
    OBVIOUS
  <2>4. a = b \/ (a \in Nat /\ b \in Nat /\ b <= a)
    BY <1>4, <2>2, <2>3
  <2>5. ASSUME NEW m \in Nat, i + a + l <= m
        PROVE  i + b + l <= m
    BY <1>3, <2>1, <2>3, <2>4, <2>5
  <2>6. ASSUME NEW m \in Nat, i + a + l + h <= m
        PROVE  i + b + l + h <= m
    BY <1>3, <2>1, <2>3, <2>4, <2>6
  <2>7. GivesUpAfter + Holes \in Nat
    BY <2>1
  <2>8. /\ state # "Stale" => i + b + l <= GivesUpAfter
        /\ i + b + l + h <= GivesUpAfter + Holes
    BY <1>6, <2>1, <2>3, <2>5, <2>6, <2>7 DEF InTime
  <2>9. Holes' = Holes /\ GivesUpAfter' = GivesUpAfter
    BY DEF Holes, GivesUpAfter, Noticed, Turn
  <2> QED BY <1>3, <1>5, <2>3, <2>8, <2>9 DEF InTime
<1> QED BY <1>1, <1>3, <1>5, <1>6 DEF ExitInv, HeldAtExitIsLoud

\* The end of a turn polls, so that what is still to go starts to shrink again;
\* the loop leaves only once that has taken it past every bound.
LEMMA ExitTurns ==
  ASSUME PInv, ExitInv, IdleIsLong, EndTurn
  PROVE  ExitInv'
<1> DEFINE n == Noticed(Grace)
<1>1. /\ rx.at = "poll" /\ hand' = hand
      /\ IF PollDue THEN Poll ELSE UNCHANGED vars
      /\ rx' = [at |-> IF ~ rx.got /\ delivered' # << >> /\ rx.idle > IdleExit
                         THEN "exited" ELSE "A",
                got |-> FALSE,
                idle |-> IF rx.got THEN 0 ELSE rx.idle,
                left |-> Wait]
  BY DEF EndTurn
<1>2. /\ IInv /\ IInv' /\ rx.idle \in Nat /\ rx.got \in BOOLEAN
  <2>1. IInv'
    BY EndTurnStep DEF PInv
  <2> QED BY <2>1 DEF PInv, ReceiverType
<1>3. hand' = << >>
  BY <1>1 DEF ExitInv
<1>4. /\ Turn \in Nat /\ Turn = Wait + Wait /\ Wait \in Nat /\ 1 <= Wait /\ n \in Nat
      /\ GivesUpAfter \in Nat /\ IdleExit \in Nat /\ IdleExit + Turn >= GivesUpAfter
      /\ Cap \in Nat
  BY PeriodFacts
<1>5. rx'.at = "A" => Soon' = SoonAtFirst'
  BY <1>1, <1>4 DEF Soon, SoonAtFirst, ToPoll, Noticed, Turn
<1>6. pending' = 0 => ExitInv'
  BY <1>3 DEF ExitInv, HeldAtExitIsLoud
<1>7. SUFFICES ASSUME pending' # 0 PROVE ExitInv'
  BY <1>6
<1>8. PICK f, l, h, m, q, i :
        /\ f = SoonAtFirst' /\ l = Later' /\ h = Behind' /\ m = SoonAtMost'
        /\ q = pending' /\ i = rx'.idle
  OBVIOUS
<1>9. /\ l \in Nat /\ h \in Nat /\ Holes \in Nat /\ h <= Holes
      /\ f \in Nat /\ Turn <= f /\ f <= m /\ m \in Nat /\ m + l <= GivesUpAfter
      /\ i \in Nat
  <2>1. Holes' = Holes /\ GivesUpAfter' = GivesUpAfter /\ Turn' = Turn
    BY DEF Holes, GivesUpAfter, Noticed, Turn
  <2>2. i \in Nat
    BY <1>1, <1>2, <1>8
  <2> QED BY <1>2, <1>7, <1>8, <2>1, <2>2, ToGoFactsNext DEF IdleIsLong, GivesUpAfter,
             Noticed, Turn
<1>10. /\ state' # "Stale" => i + f + l <= GivesUpAfter
       /\ i + f + l + h <= GivesUpAfter + Holes
  <2>1. CASE rx.got
    <3>1. i = 0
      BY <1>1, <1>8, <2>1
    <3> QED BY <1>4, <1>9, <3>1
  <2>2. CASE ~ rx.got
    <3>1. i = rx.idle
      BY <1>1, <1>8, <2>2
    <3>2. CASE PollDue
      <4>1. Poll /\ Soon = 0
        BY <1>1, <3>2 DEF Soon, ToPoll
      <4>2. /\ pending # 0
            /\ m + l + h <= Later + Behind
            /\ state' # "Stale" => state # "Stale" /\ m + l <= Later
        BY <1>2, <1>7, <1>8, <4>1, PollShortens
      <4>3. InTime(Soon) /\ Later \in Nat /\ Behind \in Nat
        BY <1>1, <1>2, <2>2, <4>2, ToGoFacts DEF ExitInv
      <4>4. PICK a, b : a = Later /\ b = Behind
        OBVIOUS
      <4>5. /\ a \in Nat /\ b \in Nat /\ m + l + h <= a + b
            /\ state # "Stale" => i + 0 + a <= GivesUpAfter
            /\ i + 0 + a + b <= GivesUpAfter + Holes
            /\ state' # "Stale" => state # "Stale" /\ m + l <= a
        BY <3>1, <4>1, <4>2, <4>3, <4>4 DEF InTime
      <4> QED BY <1>4, <1>9, <4>5
    <3>3. CASE ~ PollDue
      <4>1. UNCHANGED vars
        BY <1>1, <3>3
      <4>2. /\ Later' = Later /\ Behind' = Behind /\ pending' = pending /\ state' = state
            /\ SoonAtFirst' = SoonAtFirst
        BY <4>1 DEF Later, Tries, Behind, SoonAtFirst, Until, PollDue, UnderPressure,
                    GraceOver, Noticed, Turn, vars, recovery
      <4>3. Soon = SoonAtFirst
        BY <3>3 DEF Soon, SoonAtFirst
      <4>4. InTime(Soon)
        BY <1>1, <1>7, <2>2, <4>2 DEF ExitInv
      <4> QED BY <1>8, <3>1, <4>2, <4>3, <4>4 DEF InTime
    <3> QED BY <3>2, <3>3
  <2> QED BY <1>2, <2>1, <2>2
<1>11. HeldAtExitIsLoud'
  <2> SUFFICES ASSUME rx'.at = "exited"
               PROVE  /\ state' = "Stale"
                      /\ IdleExit + Turn < GivesUpAfter + (Cap - 1 - q) * n
    BY <1>8 DEF HeldAtExitIsLoud, GivesUpAfter, Noticed, Turn
  <2>1. i > IdleExit
    BY <1>1, <1>8
  <2>2. state' = "Stale"
    BY <1>4, <1>9, <1>10, <2>1
  <2>3. IdleExit + Turn < GivesUpAfter + Holes - h
    BY <1>4, <1>9, <1>10, <2>1
  <2>4. q \in Nat /\ q # 0 /\ q <= Cap - 1
    BY <1>2, <1>7, <1>8, WaitingFactsNext
  <2>5. h = (q - 1) * n /\ Holes = (Cap - 2) * n
    BY <1>8 DEF Behind, Holes, Noticed, Turn
  <2>6. (Cap - 2) * n - (q - 1) * n = (Cap - 1 - q) * n
    <3> DEFINE u == q - 1
               v == Cap - 1 - q
    <3>1. u \in Nat /\ v \in Nat /\ Cap - 2 = v + u
      BY <1>4, <2>4
    <3> HIDE DEF u, v, n
    <3>2. (v + u) * n = v * n + u * n /\ v * n \in Nat /\ u * n \in Nat
      <4>1. \A a, b, c \in Nat : (a + b) * c = a * c + b * c /\ a * c \in Nat /\ b * c \in Nat
        OBVIOUS
      <4> QED BY <1>4, <3>1, <4>1
    <3>3. PICK a, b : a = v * n /\ b = u * n
      OBVIOUS
    <3>4. (a + b) - b = a
      BY <3>2, <3>3
    <3> QED BY <3>1, <3>2, <3>3, <3>4 DEF u, v
  <2>7. PICK a, b, c : a = (Cap - 2) * n /\ b = (q - 1) * n /\ c = (Cap - 1 - q) * n
    OBVIOUS
  <2>8. a \in Nat /\ b \in Nat /\ IdleExit + Turn < GivesUpAfter + a - b /\ a - b = c
    BY <1>9, <2>3, <2>5, <2>6, <2>7
  <2> QED BY <1>4, <2>2, <2>7, <2>8
<1>12. rx'.at # "exited" => InTime(Soon)'
  <2> SUFFICES ASSUME rx'.at # "exited" PROVE InTime(Soon)'
    OBVIOUS
  <2>1. rx'.at = "A" /\ Soon' = f
    BY <1>1, <1>5, <1>8
  <2>2. Holes' = Holes /\ GivesUpAfter' = GivesUpAfter
    BY DEF Holes, GivesUpAfter, Noticed, Turn
  <2> QED BY <1>8, <1>10, <2>1, <2>2 DEF InTime
<1> QED BY <1>3, <1>11, <1>12 DEF ExitInv

\* A tick of the clock takes off what is still to go what it adds to the idle time.
LEMMA ExitTicks ==
  ASSUME PInv, ExitInv, IdleIsLong, Clock
  PROVE  ExitInv'
<1>1. /\ rx.at \in Line /\ hand' = hand
      /\ rx' = [rx EXCEPT !.left = @ - 1,
                          !.idle = IF rx.got \/ @ > IdleExit THEN @ ELSE @ + 1]
      /\ IF gap_age < Grace \/ time_left > 0 THEN Tick ELSE UNCHANGED vars
  BY DEF Clock
<1>2. rx \in ReceiverType /\ IInv /\ IdleExit \in Nat
  BY RoomFacts DEF PInv
<1>3. /\ rx'.at = rx.at /\ rx.at # "exited" /\ rx.at # "poll" /\ rx'.got = rx.got
      /\ rx'.idle \in Nat /\ rx'.idle <= rx.idle + 1 /\ rx.idle \in Nat
  BY <1>1, <1>2 DEF ReceiverType, Line
<1>4. pending' = pending
  <2>1. CASE gap_age < Grace \/ time_left > 0
    BY <1>1, <2>1 DEF Tick
  <2>2. CASE ~ (gap_age < Grace \/ time_left > 0)
    BY <1>1, <2>2 DEF vars
  <2> QED BY <2>1, <2>2
<1>5. ASSUME ~ rx'.got, pending' # 0
      PROVE  InTime(Soon)'
  <2>1. InTime(Soon) /\ pending # 0
    BY <1>3, <1>4, <1>5 DEF ExitInv
  <2>2. /\ Soon \in Nat /\ Soon' \in Nat /\ Soon' + 1 <= Soon
        /\ Later' = Later /\ Behind' = Behind /\ state' = state
    BY <2>1, TickShortens
  <2>3. Later \in Nat /\ Behind \in Nat /\ Holes \in Nat /\ GivesUpAfter \in Nat
    BY <1>2, <2>1, ToGoFacts, PeriodFacts
  <2>4. PICK a, b, i, j, l, h :
          /\ a = Soon /\ b = Soon' /\ i = rx.idle /\ j = rx'.idle
          /\ l = Later /\ h = Behind
    OBVIOUS
  <2>5. /\ a \in Nat /\ b \in Nat /\ b + 1 <= a /\ i \in Nat /\ j \in Nat /\ j <= i + 1
        /\ l \in Nat /\ h \in Nat
    BY <1>3, <2>2, <2>3, <2>4
  <2>6. /\ state # "Stale" => i + a + l <= GivesUpAfter
        /\ i + a + l + h <= GivesUpAfter + Holes
    BY <2>1, <2>4 DEF InTime
  <2>7. /\ state # "Stale" => j + b + l <= GivesUpAfter
        /\ j + b + l + h <= GivesUpAfter + Holes
    BY <2>3, <2>5, <2>6
  <2>8. Holes' = Holes /\ GivesUpAfter' = GivesUpAfter
    BY DEF Holes, GivesUpAfter, Noticed, Turn
  <2> QED BY <2>2, <2>4, <2>7, <2>8 DEF InTime
<1> QED BY <1>1, <1>3, <1>5 DEF ExitInv, HeldAtExitIsLoud

\* Every step of the pipeline keeps the exit's invariant.
LEMMA ExitStep ==
  ASSUME PInv, ExitInv, IdleIsLong, [PipelineNext]_<<vars, pipeline>>
  PROVE  ExitInv'
<1>1. CASE Publisher \/ Serve \/ UNCHANGED <<vars, pipeline>>
  <2>1. UNCHANGED vars /\ UNCHANGED <<rx, hand>>
    BY <1>1 DEF Publisher, Serve, pipeline
  <2> QED BY <2>1, ExitRests
<1>2. CASE Receiver
  BY <1>2, ExitStarts, ExitReads, ExitLooks, ExitGives, ExitTurns DEF Receiver
<1>3. CASE Clock
  BY <1>3, ExitTicks
<1> QED BY <1>1, <1>2, <1>3 DEF PipelineNext

\* "The whole point of the gap state machine is that unrecovered loss is loud":
\* however long the receive calls wait, an idle time that lasts until a hole is
\* given up never lets the loop leave with a message held by a feed that is not
\* Stale, and bounds how many a Stale one can still hold.  The 3 s of the receiver
\* are enough for every strategy: 0.5 ms of grace and 3 attempts of 50 ms take
\* 1.8 s when a turn takes the 400 ms of two blocking reads.
THEOREM ExitIsLoud == ASSUME IdleIsLong PROVE PipelineSpec => []HeldAtExitIsLoud
<1>1. PipelineInit => ExitInv
  BY DEF PipelineInit, Init, ExitInv, HeldAtExitIsLoud
<1>2. ASSUME PInv, ExitInv, [PipelineNext]_<<vars, pipeline>>
      PROVE  ExitInv'
  BY <1>2, ExitStep
<1>3. ExitInv => HeldAtExitIsLoud
  BY DEF ExitInv
<1> QED BY <1>1, <1>2, <1>3, PipelineInvariant, PTL DEF PipelineSpec

\* "Exit" with "nothing left to wait for": an idle time as long as the grace
\* periods of a full window and the attempts of one hole, as the 3 s are for the
\* 4096 slots of the receiver when a turn takes no more than 0.19 ms, lets the loop
\* leave only when every message it has received is delivered.  They are too short
\* for the strategies that wait 10 ms and more.
THEOREM ExitIsEmpty ==
  ASSUME IdleIsLong, IdleExit + Turn >= GivesUpAfter + Holes
  PROVE  PipelineSpec => [](rx.at = "exited" => pending = 0)
<1>1. ASSUME PInv, HeldAtExitIsLoud
      PROVE  rx.at = "exited" => pending = 0
  <2> SUFFICES ASSUME rx.at = "exited", pending # 0 PROVE FALSE
    OBVIOUS
  <2> DEFINE n == Noticed(Grace)
  <2>1. IdleExit + Turn < GivesUpAfter + (Cap - 1 - pending) * n
    BY <1>1 DEF HeldAtExitIsLoud
  <2>2. pending \in Nat /\ pending - 1 \in Nat /\ pending <= Cap - 1 /\ Cap - 2 \in Nat
    BY <1>1, WaitingFacts DEF PInv
  <2>3. n \in Nat /\ GivesUpAfter \in Nat /\ IdleExit \in Nat /\ Turn \in Nat /\ Cap \in Nat
    BY PeriodFacts
  <2> DEFINE k == Cap - 1 - pending
  <2>4. k \in Nat /\ Cap - 2 \in Nat /\ k <= Cap - 2
    BY <2>2, <2>3
  <2> HIDE DEF k
  <2>5. k * n <= Holes /\ k * n \in Nat /\ Holes \in Nat
    BY <2>3, <2>4, ProductsAscend DEF Holes
  <2>6. PICK x : x = k * n
    OBVIOUS
  <2>7. IdleExit + Turn < GivesUpAfter + x
    BY <2>1, <2>6 DEF k
  <2> HIDE DEF n
  <2> QED BY <2>3, <2>5, <2>6, <2>7
<1> QED BY <1>1, ExitIsLoud, PipelineInvariant, PTL
=============================================================================
