---------------------------- MODULE ComponentProofs ---------------------------
(***************************************************************************)
(* The invariants of components that share no state, one section each: who *)
(* owns a receive buffer, what the recovery client asks for, what a client *)
(* knows of its order, which bytes of the pool are whose, where in its     *)
(* file a reader stands, that tokens ascend, and that the two layouts of a *)
(* book side are one book.  Each section has its own inductive invariant,  *)
(* and its own specification.                                              *)
(***************************************************************************)
EXTENDS ReceiveRing, RecoveryClient, OuchOrder, PoolResource, ItchFile, TokenGenerator, BookSide,
        RingLemmas, SequenceTheorems

-----------------------------------------------------------------------------
(***************************************************************************)
(* The receive ring.  Armed slots, slots that wait to be reaped and slots  *)
(* in the caller's hands have nothing in common, and inflight_ marks them  *)
(* all.                                                                    *)
(***************************************************************************)
Cqe == [slot : Slots, res : {"datagram", "error"}]

ReapedFrom(c) == {c[i].slot : i \in DOMAIN c}

RingTypeOK ==
  /\ inflight \in SUBSET Slots /\ handed \in SUBSET Slots /\ armed \in SUBSET Slots
  /\ completed \in Seq(Cqe)

\* A slot completes once, and each of the three has slots of its own.
OneOwner ==
  /\ \A i, j \in DOMAIN completed : completed[i].slot = completed[j].slot => i = j
  /\ handed \cap armed = {}
  /\ handed \cap ReapedFrom(completed) = {}
  /\ armed \cap ReapedFrom(completed) = {}
  /\ inflight = armed \cup ReapedFrom(completed) \cup handed

RingInv == RingTypeOK /\ OneOwner

\* Reaping the oldest completion leaves the others.
LEMMA ReapedHead ==
  ASSUME NEW c \in Seq(Cqe), c # <<>>,
         \A i, j \in DOMAIN c : c[i].slot = c[j].slot => i = j
  PROVE  /\ Head(c) \in Cqe
         /\ Tail(c) \in Seq(Cqe)
         /\ ReapedFrom(Tail(c)) = ReapedFrom(c) \ {Head(c).slot}
         /\ Head(c).slot \in ReapedFrom(c)
         /\ \A i, j \in DOMAIN Tail(c) : Tail(c)[i].slot = Tail(c)[j].slot => i = j
<1>1. /\ Len(c) \in Nat /\ Len(c) > 0 /\ DOMAIN c = 1 .. Len(c) /\ Head(c) = c[1] /\ c[1] \in Cqe
  BY EmptySeq, HeadTailProperties, ElementOfSeq
<1>2. /\ Tail(c) \in Seq(Cqe) /\ DOMAIN Tail(c) = 1 .. Len(c) - 1
      /\ \A i \in 1 .. Len(c) - 1 : Tail(c)[i] = c[i + 1]
  BY <1>1, HeadTailProperties
<1>3. ReapedFrom(Tail(c)) = ReapedFrom(c) \ {Head(c).slot}
  <2>1. ASSUME NEW x \in ReapedFrom(Tail(c)) PROVE x \in ReapedFrom(c) \ {c[1].slot}
    BY <1>1, <1>2 DEF ReapedFrom
  <2>2. ASSUME NEW x \in ReapedFrom(c), x # c[1].slot PROVE x \in ReapedFrom(Tail(c))
    <3>1. PICK i \in 1 .. Len(c) : x = c[i].slot
      BY <1>1 DEF ReapedFrom
    <3>2. i - 1 \in 1 .. Len(c) - 1 /\ c[i] = Tail(c)[i - 1]
      BY <1>1, <1>2, <2>2, <3>1
    <3> QED BY <1>2, <3>1, <3>2 DEF ReapedFrom
  <2> QED BY <1>1, <2>1, <2>2
<1>4. Head(c).slot \in ReapedFrom(c)
  BY <1>1 DEF ReapedFrom
<1>5. \A i, j \in DOMAIN Tail(c) : Tail(c)[i].slot = Tail(c)[j].slot => i = j
  BY <1>1, <1>2
<1> QED BY <1>1, <1>2, <1>3, <1>4, <1>5

\* A completion is added for a slot that has none.
LEMMA ReapedMore ==
  ASSUME NEW c \in Seq(Cqe), NEW q \in Cqe, q.slot \notin ReapedFrom(c),
         \A i, j \in DOMAIN c : c[i].slot = c[j].slot => i = j
  PROVE  /\ Append(c, q) \in Seq(Cqe)
         /\ ReapedFrom(Append(c, q)) = ReapedFrom(c) \cup {q.slot}
         /\ \A i, j \in DOMAIN Append(c, q) : Append(c, q)[i].slot = Append(c, q)[j].slot => i = j
<1> DEFINE a == Append(c, q)
<1>1. /\ a \in Seq(Cqe) /\ DOMAIN a = 1 .. Len(c) + 1 /\ Len(c) \in Nat /\ DOMAIN c = 1 .. Len(c)
      /\ \A i \in 1 .. Len(c) : a[i] = c[i]
      /\ a[Len(c) + 1] = q
  BY AppendProperties, LenProperties
<1> HIDE DEF a
<1>2. ReapedFrom(a) = ReapedFrom(c) \cup {q.slot}
  BY <1>1 DEF ReapedFrom
<1>3. \A i, j \in DOMAIN a : a[i].slot = a[j].slot => i = j
  BY <1>1 DEF ReapedFrom
<1> QED BY <1>1, <1>2, <1>3 DEF a

(* A slot is armed, waits to be reaped or is in the caller's hands, and    *)
(* only one of the three, and inflight_ marks exactly these                *)
(* (receive_strategy.hpp, receive and arm_free_slots).                     *)
THEOREM RingInvHolds == RingSpec => []RingInv
<1>1. ASSUME RingInit PROVE RingInv
  <2>1. completed = <<>> /\ DOMAIN completed = {}
    BY <1>1, EmptySeq DEF RingInit
  <2> QED BY <1>1, <2>1, EmptySeq DEF RingInit, RingInv, RingTypeOK, OneOwner, ReapedFrom
<1>2. ASSUME RingInv, [RingNext]_ringVars PROVE RingInv'
  <2> USE <1>2 DEF RingInv, RingTypeOK, OneOwner
  <2>1. ASSUME NEW max \in 1 .. MaxBatch, BeginReceive(max) PROVE RingInv'
    BY <2>1 DEF BeginReceive, ReapedFrom
  <2>2. ASSUME Reap PROVE RingInv'
    <3>1. /\ Tail(completed) \in Seq(Cqe) /\ Head(completed) \in Cqe
          /\ ReapedFrom(Tail(completed)) = ReapedFrom(completed) \ {Head(completed).slot}
          /\ Head(completed).slot \in ReapedFrom(completed)
          /\ \A i, j \in DOMAIN Tail(completed) :
               Tail(completed)[i].slot = Tail(completed)[j].slot => i = j
      BY <2>2, ReapedHead DEF Reap
    <3>2. Head(completed).slot \in Slots
      BY <3>1 DEF Cqe
    <3>3. completed' = Tail(completed)
      BY <2>2 DEF Reap
    <3>4. ReapedFrom(completed') = ReapedFrom(completed) \ {Head(completed).slot}
      BY <3>1, <3>3
    <3>5. /\ armed' = armed
          /\ \/ inflight' = inflight \ {Head(completed).slot} /\ handed' = handed
             \/ handed' = handed \cup {Head(completed).slot} /\ inflight' = inflight
      BY <2>2 DEF Reap
    <3>6. RingTypeOK'
      BY <3>1, <3>2, <3>3, <3>5
    <3>7. \A i, j \in DOMAIN completed' : completed'[i].slot = completed'[j].slot => i = j
      BY <3>1, <3>3
    <3>8. /\ handed' \cap armed' = {}
          /\ handed' \cap ReapedFrom(completed') = {}
          /\ armed' \cap ReapedFrom(completed') = {}
          /\ inflight' = armed' \cup ReapedFrom(completed') \cup handed'
      BY <3>1, <3>4, <3>5
    <3> QED BY <3>6, <3>7, <3>8, <3>4 DEF ReapedFrom
  <2>3. ASSUME EndReceive PROVE RingInv'
    BY <2>3 DEF EndReceive, ArmFreeSlots, ReapedFrom
  <2>4. ASSUME Complete PROVE RingInv'
    <3>1. PICK s \in armed, res \in {"datagram", "error"} :
            /\ armed' = armed \ {s}
            /\ completed' = Append(completed, [slot |-> s, res |-> res])
      BY <2>4 DEF Complete
    <3>2. [slot |-> s, res |-> res] \in Cqe
      BY DEF Cqe
    <3>3. /\ completed' \in Seq(Cqe)
          /\ ReapedFrom(completed') = ReapedFrom(completed) \cup {s}
          /\ \A i, j \in DOMAIN completed' : completed'[i].slot = completed'[j].slot => i = j
      BY <3>1, <3>2, ReapedMore
    <3> QED BY <2>4, <3>1, <3>3 DEF Complete
  <2>5. ASSUME WaitTimesOut \/ WaitEnds \/ UNCHANGED ringVars PROVE RingInv'
    BY <2>5 DEF WaitTimesOut, WaitEnds, ringVars, ReapedFrom
  <2> QED BY <2>1, <2>2, <2>3, <2>4, <2>5 DEF RingNext, Receive
<1> QED BY <1>1, <1>2, PTL DEF RingSpec

(* While the caller may read a datagram no receive is armed on its buffer  *)
(* and no completion names it: receive takes the slots it handed out back  *)
(* before it arms any (receive_strategy.hpp, release_handed_out).          *)
THEOREM BuffersHaveOneOwnerAlways == RingSpec => []BuffersHaveOneOwner
<1>1. ASSUME RingInv PROVE BuffersHaveOneOwner
  <2> USE <1>1 DEF RingInv, RingTypeOK, OneOwner
  <2> DEFINE f == [i \in 1 .. Len(completed) |-> completed[i].slot]
  <2>1. Len(completed) \in Nat /\ DOMAIN completed = 1 .. Len(completed)
    BY LenProperties
  <2>2. ExistsBijection(1 .. Len(completed), ReapedFrom(completed))
    <3>1. f \in [1 .. Len(completed) -> ReapedFrom(completed)]
      BY <2>1 DEF ReapedFrom
    <3>2. \A i, j \in 1 .. Len(completed) : f[i] = f[j] => i = j
      BY <2>1
    <3>3. \A x \in ReapedFrom(completed) : \E i \in 1 .. Len(completed) : f[i] = x
      BY <2>1 DEF ReapedFrom
    <3> HIDE DEF f
    <3> QED BY <3>1, <3>2, <3>3, OneToOne
  <2>3. Cardinality(ReapedFrom(completed)) = Len(completed)
    BY <2>1, <2>2, FS_CountingElements
  <2> QED BY <2>3 DEF BuffersHaveOneOwner, ReapedFrom
<1> QED BY <1>1, RingInvHolds, PTL

-----------------------------------------------------------------------------
(***************************************************************************)
(* The recovery client.  The ranges of the queue ascend, each knows how    *)
(* often its numbers were asked for, nothing of it is settled, and no      *)
(* request ever sent starts in its middle: so an answer, however late,     *)
(* takes a range away whole or from its front.                             *)
(***************************************************************************)
\* w is what q has at the indices T, in the same order.
KeepsOnly(w, q, T) ==
  /\ \A m \in DOMAIN w : \E i \in T : w[m] = q[i]
  /\ \A i \in T : \E m \in DOMAIN w : w[m] = q[i]
  /\ \A l, m \in DOMAIN w : l < m => \E i, j \in T : i < j /\ w[l] = q[i] /\ w[m] = q[j]

\* Removing indices from a sequence: what is left is what was there, in order.
LEMMA KeptFacts ==
  ASSUME NEW S, NEW n \in Nat, NEW q, DOMAIN q = 1 .. n, NEW gone,
         \A i \in 1 .. n : i \notin gone => q[i] \in S
  PROVE  /\ Kept(q, gone) \in Seq(S)
         /\ KeepsOnly(Kept(q, gone), q, (1 .. n) \ gone)
<1> DEFINE T == (1 .. n) \ gone
           o == InOrderOf(T)
           w == Kept(q, gone)
<1>1. T \in SUBSET Nat /\ IsFiniteSet(T) /\ \A m \in T : m <= n
  BY FS_Interval, FS_Subset
<1> HIDE DEF T
<1>2. /\ Cardinality(T) \in Nat
      /\ DOMAIN o = 1 .. Cardinality(T)
      /\ \A i \in 1 .. Cardinality(T) : o[i] \in T /\ Rank(o[i], T) = i
      /\ \A i, j \in 1 .. Cardinality(T) : i < j => o[i] < o[j]
  BY <1>1, InOrderOfFacts
<1> HIDE DEF o
<1>3. w = [m \in DOMAIN o |-> q[o[m]]]
  BY DEF Kept, T, o
<1>4. /\ DOMAIN w = 1 .. Cardinality(T)
      /\ \A m \in 1 .. Cardinality(T) : w[m] = q[o[m]] /\ w[m] \in S
  BY <1>2, <1>3 DEF T
<1>5. w \in Seq(S)
  BY <1>2, <1>3, <1>4
<1>6. ASSUME NEW i \in T PROVE \E m \in DOMAIN w : w[m] = q[i]
  <2>1. Rank(i, T) \in Nat /\ Rank(i, T) <= Cardinality(T)
    BY <1>1, RankFacts
  <2>2. Rank(i, T) >= 1
    <3> DEFINE R == {m \in T : m <= i}
    <3>1. i \in R
      BY <1>1
    <3>2. IsFiniteSet(R) /\ Cardinality(R) = Rank(i, T)
      BY <1>1, RankFacts DEF Rank
    <3> HIDE DEF R
    <3>3. Cardinality(R) # 0
      BY <3>1, <3>2, FS_EmptySet
    <3> QED BY <2>1, <3>2, <3>3
  <2>3. Rank(o[Rank(i, T)], T) = Rank(i, T) /\ o[Rank(i, T)] \in T
    BY <1>2, <2>1, <2>2
  <2>4. o[Rank(i, T)] = i
    BY <1>1, <2>3, RankTellsApart
  <2> QED BY <1>2, <1>4, <2>1, <2>2, <2>4
<1> HIDE DEF w
<1>7. \A m \in DOMAIN w : \E i \in T : w[m] = q[i]
  BY <1>2, <1>4
<1>8. \A l, m \in DOMAIN w : l < m => \E i, j \in T : i < j /\ w[l] = q[i] /\ w[m] = q[j]
  BY <1>2, <1>4
<1>9. KeepsOnly(w, q, T)
  BY <1>6, <1>7, <1>8 DEF KeepsOnly
<1> QED BY <1>5, <1>9 DEF w, T

-----------------------------------------------------------------------------
EntryType ==
  [first : Nat \ {0}, count : Nat \ {0}, in_flight : BOOLEAN,
   attempts : 0 .. MaxAttempts, timeout : Nat, left : Nat]

RunOf(e) == Run(e.first, e.count)

Done == answered \cup abandoned \cup refused

\* An entry of the queue: nothing of it is settled, it knows how often each of
\* its numbers was asked for, and no request starts in its middle.
SoundEntry(e, last, settled, times, sent) ==
  /\ e.first + e.count <= last + 1
  /\ ~ e.in_flight => e.attempts = 0
  /\ RunOf(e) \cap settled = {}
  /\ \A s \in RunOf(e) : times[s] = e.attempts
  /\ \A r \in sent : r[1] <= e.first \/ r[1] >= e.first + e.count

RecoveryTypeOK ==
  /\ entries \in Seq(EntryType)
  /\ wire \in SUBSET ((Nat \ {0}) \X (Nat \ {0}))
  /\ named \in 0 .. Sequences
  /\ answered \in SUBSET (1 .. named) /\ abandoned \in SUBSET (1 .. named)
  /\ refused \in SUBSET (1 .. named)
  /\ asked \in [1 .. Sequences -> 0 .. MaxAttempts]

EntriesSound == \A i \in DOMAIN entries : SoundEntry(entries[i], named, Done, asked, wire)

EntriesAscend ==
  \A i, j \in DOMAIN entries : i < j => entries[i].first + entries[i].count <= entries[j].first

WireIsKnown == \A r \in wire : r[1] + r[2] <= named + 1

\* What was asked for is still asked for, or was settled by an answer or by
\* the last attempt.
AskedIsSettled ==
  /\ \A s \in 1 .. Sequences : asked[s] > 0 =>
       \/ \E i \in DOMAIN entries : s \in RunOf(entries[i])
       \/ s \in answered \cup abandoned
  /\ \A s \in abandoned : asked[s] = MaxAttempts

RecoveryInv ==
  RecoveryTypeOK /\ EntriesSound /\ EntriesAscend /\ WireIsKnown /\ AskedIsSettled

\* Once entries are gone, the queue is as sound and as ordered as those that
\* stay.
LEMMA QueueKept ==
  ASSUME NEW n \in Nat, NEW q, DOMAIN q = 1 .. n, NEW gone,
         entries' = Kept(q, gone),
         \A i \in (1 .. n) \ gone : q[i] \in EntryType /\ SoundEntry(q[i], named', Done', asked', wire'),
         \A i, j \in (1 .. n) \ gone : i < j => q[i].first + q[i].count <= q[j].first
  PROVE  /\ entries' \in Seq(EntryType)
         /\ EntriesSound' /\ EntriesAscend'
         /\ \A i \in (1 .. n) \ gone : \E m \in DOMAIN entries' : entries'[m] = q[i]
<1>0. \A i \in 1 .. n : i \notin gone => q[i] \in EntryType
  OBVIOUS
<1> DEFINE W == Kept(q, gone)
<1>1. W \in Seq(EntryType) /\ KeepsOnly(W, q, (1 .. n) \ gone)
  BY <1>0, KeptFacts
<1> HIDE DEF W
<1>e. entries' = W
  BY DEF W
<1>9. /\ entries' \in Seq(EntryType)
      /\ \A m \in DOMAIN entries' : \E i \in (1 .. n) \ gone : entries'[m] = q[i]
      /\ \A i \in (1 .. n) \ gone : \E m \in DOMAIN entries' : entries'[m] = q[i]
      /\ \A l, m \in DOMAIN entries' :
              l < m => \E i, j \in (1 .. n) \ gone :
                         i < j /\ entries'[l] = q[i] /\ entries'[m] = q[j]
  BY <1>1, <1>e DEF KeepsOnly
<1>2. EntriesSound'
  BY <1>9 DEF EntriesSound
<1>3. EntriesAscend'
  <2> SUFFICES ASSUME NEW l \in DOMAIN W, NEW m \in DOMAIN W, l < m
               PROVE  W[l].first + W[l].count <= W[m].first
    BY <1>e DEF EntriesAscend
  <2>1. PICK i \in (1 .. n) \ gone, j \in (1 .. n) \ gone : i < j /\ W[l] = q[i] /\ W[m] = q[j]
    BY <1>1 DEF KeepsOnly
  <2> QED BY <2>1
<1> QED BY <1>9, <1>2, <1>3

\* The chunks of a gap lie in it, behind each other, and are asked for by none yet.
LEMMA ChunkFacts ==
  ASSUME NEW first \in Nat \ {0}, NEW count \in Nat \ {0}, entries \in Seq(EntryType)
  PROVE  \E n \in Nat :
           /\ DOMAIN Chunks(first, count) = 1 .. n
           /\ Chunks(first, count) \in Seq(EntryType)
           /\ \A i \in 1 .. n :
                LET c == Chunks(first, count)[i]
                IN  /\ c.first >= first /\ c.first + c.count <= first + count
                    /\ ~ c.in_flight /\ c.attempts = 0
           /\ \A i, j \in 1 .. n : i < j =>
                Chunks(first, count)[i].first + Chunks(first, count)[i].count
                  <= Chunks(first, count)[j].first
<1> USE RecoveryAssumption
<1> DEFINE wanted == (count + MaxCount - 1) \div MaxCount
           m == SmallerOf(wanted, MaxOutstanding - Len(entries))
           seq(i) == first + (i - 1) * MaxCount
           c(i) == Entry(seq(i), SmallerOf(MaxCount, first + count - seq(i)))
           ch == Chunks(first, count)
<1>1. ch = [i \in 1 .. m |-> c(i)]
  BY DEF Chunks
<1>2. wanted \in Nat /\ MaxCount * wanted <= count + MaxCount - 1
  <2>1. count + MaxCount - 1 \in Nat
    OBVIOUS
  <2>2. \A s \in Nat : s \div MaxCount \in Nat /\ s = MaxCount * (s \div MaxCount) + (s % MaxCount)
                      /\ s % MaxCount \in 0 .. MaxCount - 1 
    BY Division
  <2>3. (count + MaxCount - 1) = MaxCount * wanted + ((count + MaxCount - 1) % MaxCount)
        /\ (count + MaxCount - 1) % MaxCount \in 0 .. MaxCount - 1 /\ wanted \in Nat
    BY <2>1, <2>2
  <2> HIDE DEF wanted
  <2>4. MaxCount * wanted \in Nat
    BY <2>3
  <2> QED BY <2>1, <2>3, <2>4
<1>3. m \in Int /\ m <= wanted
  BY <1>2, LenProperties DEF SmallerOf
<1> HIDE DEF wanted, m
<1>4. ASSUME NEW i \in 1 .. m
      PROVE  /\ seq(i) \in Nat \ {0} /\ seq(i) >= first
             /\ seq(i) <= first + count - 1
  <2>1. MaxCount * i <= MaxCount * wanted
    <3>1. CASE i = wanted
      BY <3>1, <1>2
    <3>2. CASE i < wanted
      BY <3>2, <1>2, <1>3, ProductGrows
    <3> QED BY <3>1, <3>2, <1>2, <1>3
  <2>2. (i - 1) * MaxCount = MaxCount * i - MaxCount /\ MaxCount * i \in Nat
    OBVIOUS
  <2>3. MaxCount * i >= MaxCount
    <3>1. CASE i = 1
      BY <3>1
    <3>2. CASE i > 1
      <4>1. MaxCount * i >= MaxCount * 1 + MaxCount
        BY <3>2, ProductGrows
      <4> QED BY <4>1
    <3> QED BY <3>1, <3>2, <1>3
  <2> QED BY <1>2, <2>1, <2>2, <2>3
<1>5. ASSUME NEW i \in 1 .. m
      PROVE  /\ c(i) \in EntryType
             /\ c(i).first = seq(i)
             /\ c(i).count <= MaxCount
             /\ c(i).first + c(i).count <= first + count
             /\ ~ c(i).in_flight /\ c(i).attempts = 0
  BY <1>4 DEF Entry, SmallerOf, EntryType
<1>6. ASSUME NEW i \in 1 .. m, NEW j \in 1 .. m, i < j
      PROVE  c(i).first + c(i).count <= c(j).first
  <2>1. MaxCount * (j - 1) >= MaxCount * (i - 1) + MaxCount
    BY <1>3, <1>6, ProductGrows
  <2>2. MaxCount * (j - 1) = (j - 1) * MaxCount /\ MaxCount * (i - 1) = (i - 1) * MaxCount
        /\ (j - 1) * MaxCount \in Nat /\ (i - 1) * MaxCount \in Nat
    BY <1>3
  <2>3. c(i).count \in Nat /\ c(i).count <= MaxCount /\ c(i).first = seq(i) /\ c(j).first = seq(j)
    BY <1>5 DEF EntryType
  <2> HIDE DEF c
  <2> QED BY <2>1, <2>2, <2>3
<1> HIDE DEF c
<1>7. \E n \in Nat : 1 .. m = 1 .. n
  <2>1. CASE m >= 0
    BY <2>1, <1>3
  <2>2. CASE m < 0
    <3>1. 1 .. m = 1 .. 0
      BY <2>2, <1>3
    <3> QED BY <3>1
  <2> QED BY <1>3, <2>1, <2>2
<1>8. PICK n \in Nat : 1 .. m = 1 .. n
  BY <1>7
<1>9. DOMAIN ch = 1 .. n /\ \A i \in 1 .. n : ch[i] = c(i)
  BY <1>1, <1>8
<1>10. ch \in Seq(EntryType)
  <2>1. \A i \in 1 .. n : c(i) \in EntryType
    BY <1>5, <1>8
  <2>2. ch = [i \in 1 .. n |-> c(i)]
    BY <1>1, <1>8
  <2> QED BY <2>1, <2>2
<1> HIDE DEF ch
<1>11. \A i \in 1 .. n : /\ ch[i].first >= first /\ ch[i].first + ch[i].count <= first + count
                         /\ ~ ch[i].in_flight /\ ch[i].attempts = 0
  BY <1>4, <1>5, <1>8, <1>9
<1>12. \A i, j \in 1 .. n : i < j => ch[i].first + ch[i].count <= ch[j].first
  BY <1>6, <1>8, <1>9
<1> QED BY <1>9, <1>10, <1>11, <1>12 DEF ch

-----------------------------------------------------------------------------
\* What the invariant says of the entries, spelt out.
LEMMA EntryFacts ==
  ASSUME RecoveryInv
  PROVE  /\ Len(entries) \in Nat /\ DOMAIN entries = 1 .. Len(entries)
         /\ \A i \in DOMAIN entries :
              /\ entries[i] \in EntryType
              /\ entries[i].first \in Nat \ {0} /\ entries[i].count \in Nat \ {0}
              /\ entries[i].attempts \in 0 .. MaxAttempts
              /\ entries[i].timeout \in Nat /\ entries[i].left \in Nat
              /\ entries[i].in_flight \in BOOLEAN
              /\ RunOf(entries[i]) \in SUBSET (1 .. named)
              /\ SoundEntry(entries[i], named, Done, asked, wire)
              /\ entries[i].first \in RunOf(entries[i])
         /\ \A i, j \in DOMAIN entries : i # j => RunOf(entries[i]) \cap RunOf(entries[j]) = {}
<1> USE RecoveryAssumption
<1>1. Len(entries) \in Nat /\ DOMAIN entries = 1 .. Len(entries)
  BY LenProperties DEF RecoveryInv, RecoveryTypeOK
<1>2. ASSUME NEW i \in DOMAIN entries
      PROVE  /\ entries[i] \in EntryType
             /\ entries[i].first \in Nat \ {0} /\ entries[i].count \in Nat \ {0}
             /\ entries[i].attempts \in 0 .. MaxAttempts
             /\ entries[i].timeout \in Nat /\ entries[i].left \in Nat
             /\ entries[i].in_flight \in BOOLEAN
             /\ SoundEntry(entries[i], named, Done, asked, wire)
  <2>1. entries[i] \in EntryType
    BY <1>1, ElementOfSeq DEF RecoveryInv, RecoveryTypeOK
  <2> QED BY <2>1 DEF EntryType, RecoveryInv, EntriesSound
<1>3. ASSUME NEW i \in DOMAIN entries
      PROVE  RunOf(entries[i]) \in SUBSET (1 .. named) /\ entries[i].first \in RunOf(entries[i])
  <2>1. entries[i].first + entries[i].count <= named + 1 /\ named \in 0 .. Sequences
    BY <1>2 DEF SoundEntry, RecoveryInv, RecoveryTypeOK
  <2> QED BY <2>1, <1>2 DEF RunOf, Run
<1>4. ASSUME NEW i \in DOMAIN entries, NEW j \in DOMAIN entries, i < j
      PROVE  RunOf(entries[i]) \cap RunOf(entries[j]) = {}
  <2>1. entries[i].first + entries[i].count <= entries[j].first
    BY <1>4 DEF RecoveryInv, EntriesAscend
  <2> QED BY <2>1, <1>2 DEF RunOf, Run
<1>5. \A i, j \in DOMAIN entries : i # j => RunOf(entries[i]) \cap RunOf(entries[j]) = {}
  <2> SUFFICES ASSUME NEW i \in DOMAIN entries, NEW j \in DOMAIN entries, i # j
               PROVE  RunOf(entries[i]) \cap RunOf(entries[j]) = {}
    OBVIOUS
  <2>1. i < j \/ j < i
    BY <1>1
  <2> QED BY <2>1, <1>4
<1> QED BY <1>1, <1>2, <1>3, <1>5

\* A gap told of: what is new of it joins the queue, or is refused for want of
\* room.
LEMMA NeedKeeps ==
  ASSUME RecoveryInv, NEW first \in 1 .. Sequences, NEW count \in 1 .. Sequences, Need(first, count)
  PROVE  RecoveryInv'
<1> USE RecoveryAssumption
<1> DEFINE ch == Chunks(first, count)
           T == Run(first, count)
           taken == UNION {Run(ch[i].first, ch[i].count) : i \in DOMAIN ch}
<1>1. /\ first > named /\ first + count - 1 <= Sequences
      /\ entries' = entries \o ch /\ named' = first + count - 1
      /\ refused' = refused \cup (T \ taken)
      /\ wire' = wire /\ answered' = answered /\ abandoned' = abandoned /\ asked' = asked
  BY DEF Need
<1>2. RecoveryTypeOK
  BY DEF RecoveryInv
<1>3. PICK n \in Nat :
           /\ DOMAIN ch = 1 .. n
           /\ ch \in Seq(EntryType)
           /\ \A i \in 1 .. n : /\ ch[i].first >= first /\ ch[i].first + ch[i].count <= first + count
                                /\ ~ ch[i].in_flight /\ ch[i].attempts = 0
           /\ \A i, j \in 1 .. n : i < j => ch[i].first + ch[i].count <= ch[j].first
  <2>1. first \in Nat \ {0} /\ count \in Nat \ {0} /\ entries \in Seq(EntryType)
    BY <1>2 DEF RecoveryTypeOK
  <2> QED BY <2>1, ChunkFacts
<1>4. /\ \A i \in 1 .. n : ch[i] \in EntryType
      /\ \A i \in 1 .. n : ch[i].first \in Nat \ {0} /\ ch[i].count \in Nat \ {0}
      /\ Len(ch) = n
  <2>1. \A i \in 1 .. n : ch[i] \in EntryType
    BY <1>3, ElementOfSeq, LenProperties
  <2> QED BY <2>1, <1>3, LenProperties DEF EntryType
<1> HIDE DEF ch
<1>5. named \in 0 .. Sequences /\ named' \in 0 .. Sequences /\ named < named'
  <2>1. named \in 0 .. Sequences /\ Sequences \in Nat
    BY <1>2 DEF RecoveryTypeOK
  <2>2. named < first /\ named' = first + count - 1 /\ named' <= Sequences
    BY <1>1
  <2> QED BY <2>1, <2>2
<1>6. \A s \in T : s \in 1 .. Sequences /\ s > named /\ s <= named'
  BY <1>1, <1>5 DEF Run
<1>7. \A i \in 1 .. n : RunOf(ch[i]) \in SUBSET T /\ RunOf(ch[i]) \in SUBSET taken
  <2> SUFFICES ASSUME NEW i \in 1 .. n
               PROVE  RunOf(ch[i]) \in SUBSET T /\ RunOf(ch[i]) \in SUBSET taken
    OBVIOUS
  <2>1. ch[i].first >= first /\ ch[i].first + ch[i].count <= first + count
        /\ ch[i].first \in Nat \ {0} /\ ch[i].count \in Nat \ {0} /\ i \in DOMAIN ch
    BY <1>3, <1>4
  <2>2. RunOf(ch[i]) \in SUBSET T
    BY <2>1 DEF RunOf, Run
  <2>3. RunOf(ch[i]) \in SUBSET taken
    BY <2>1 DEF RunOf
  <2> QED BY <2>2, <2>3
<1>8. /\ entries' \in Seq(EntryType) /\ DOMAIN entries' = 1 .. Len(entries) + n
      /\ \A i \in DOMAIN entries : i \in DOMAIN entries' /\ entries'[i] = entries[i]
      /\ \A i \in DOMAIN entries' : \/ i \in DOMAIN entries /\ entries'[i] = entries[i]
                                    \/ /\ i - Len(entries) \in 1 .. n
                                       /\ entries'[i] = ch[i - Len(entries)]
                                       /\ i > Len(entries)
  <2>1. entries \in Seq(EntryType) /\ ch \in Seq(EntryType) /\ Len(ch) = n
    BY <1>2, <1>3, <1>4 DEF RecoveryTypeOK
  <2>2. /\ entries \o ch \in Seq(EntryType) /\ Len(entries \o ch) = Len(entries) + Len(ch)
        /\ \A i \in 1 .. Len(entries) + Len(ch) :
             (entries \o ch)[i] = IF i <= Len(entries) THEN entries[i] ELSE ch[i - Len(entries)]
    BY <2>1, ConcatProperties
  <2>3. Len(entries) \in Nat /\ DOMAIN entries = 1 .. Len(entries)
    BY EntryFacts
  <2>4. entries' \in Seq(EntryType) /\ DOMAIN entries' = 1 .. Len(entries) + n
    BY <2>1, <2>2, <1>1, LenProperties
  <2>5. \A i \in 1 .. Len(entries) + n :
          entries'[i] = IF i <= Len(entries) THEN entries[i] ELSE ch[i - Len(entries)]
    BY <2>1, <2>2, <1>1
  <2> QED BY <2>3, <2>4, <2>5
<1> HIDE DEF taken, T
<1>9. RecoveryTypeOK'
  <2>1. refused' \in SUBSET (1 .. named')
    <3>1. \A s \in refused : s \in 1 .. named'
      BY <1>2, <1>5 DEF RecoveryTypeOK
    <3>2. \A s \in T : s \in 1 .. named'
      BY <1>5, <1>6
    <3> QED BY <1>1, <3>1, <3>2
  <2>2. answered' \in SUBSET (1 .. named') /\ abandoned' \in SUBSET (1 .. named')
    BY <1>1, <1>2, <1>5 DEF RecoveryTypeOK
  <2> QED BY <1>1, <1>2, <1>5, <1>8, <2>1, <2>2 DEF RecoveryTypeOK
<1>10. ASSUME NEW s \in T PROVE asked[s] = 0 /\ s \notin Done
  <2>1. s \notin Done
    BY <1>2, <1>6, <1>5 DEF Done, RecoveryTypeOK
  <2>2. \A i \in DOMAIN entries : s \notin RunOf(entries[i])
    BY <1>5, <1>6, EntryFacts
  <2>3. ~ (asked[s] > 0)
    BY <1>6, <2>1, <2>2 DEF RecoveryInv, AskedIsSettled, Done
  <2>4. asked[s] \in Nat
    BY <1>2, <1>6 DEF RecoveryTypeOK
  <2> QED BY <2>1, <2>3, <2>4
<1>11. ASSUME NEW i \in DOMAIN entries PROVE SoundEntry(entries[i], named', Done', asked', wire')
  <2>1. SoundEntry(entries[i], named, Done, asked, wire) /\ RunOf(entries[i]) \in SUBSET (1 .. named)
        /\ entries[i].first \in Nat /\ entries[i].count \in Nat
    BY EntryFacts
  <2>2. RunOf(entries[i]) \cap Done' = {}
    BY <2>1, <1>1, <1>5, <1>6 DEF SoundEntry, Done
  <2> QED BY <2>1, <2>2, <1>1, <1>5 DEF SoundEntry
<1>12. ASSUME NEW i \in 1 .. n PROVE SoundEntry(ch[i], named', Done', asked', wire')
  <2>1. ch[i].first + ch[i].count <= named' + 1
    BY <1>1, <1>3
  <2>2. RunOf(ch[i]) \cap Done' = {}
    BY <1>1, <1>7, <1>10 DEF Done
  <2>3. \A s \in RunOf(ch[i]) : asked'[s] = ch[i].attempts
    BY <1>1, <1>3, <1>7, <1>10
  <2>4. ASSUME NEW r \in wire PROVE r[1] <= ch[i].first
    <3>1. r[1] \in Nat /\ r[2] \in Nat \ {0} /\ r[1] + r[2] <= named + 1
      BY <1>2 DEF RecoveryTypeOK, RecoveryInv, WireIsKnown
    <3>2. named < first /\ first \in Nat /\ ch[i].first >= first /\ ch[i].first \in Nat
      BY <1>1, <1>3, <1>4
    <3> QED BY <3>1, <3>2, <1>5
  <2> QED BY <2>1, <2>2, <2>3, <2>4, <1>1, <1>3 DEF SoundEntry
<1>13. EntriesSound'
  BY <1>8, <1>11, <1>12 DEF EntriesSound
<1>14. EntriesAscend'
  <2> SUFFICES ASSUME NEW i \in DOMAIN entries', NEW j \in DOMAIN entries', i < j
               PROVE  entries'[i].first + entries'[i].count <= entries'[j].first
    BY DEF EntriesAscend
  <2>0. Len(entries) \in Nat /\ DOMAIN entries = 1 .. Len(entries) /\ i \in Nat /\ j \in Nat
    BY EntryFacts, <1>8
  <2>1. CASE j \in DOMAIN entries
    <3>1. i \in DOMAIN entries
      BY <2>0, <2>1, <1>8
    <3> QED BY <2>1, <3>1, <1>8 DEF RecoveryInv, EntriesAscend
  <2>2. CASE i \in DOMAIN entries /\ j \notin DOMAIN entries
    <3>1. entries[i].first + entries[i].count <= named + 1 /\ entries[i].first \in Nat
          /\ entries[i].count \in Nat
      BY <2>2, EntryFacts DEF SoundEntry
    <3>2. entries'[j].first >= first /\ entries'[j].first \in Nat
      BY <2>2, <1>8, <1>3, <1>4
    <3>3. entries'[i] = entries[i]
      BY <2>2, <1>8
    <3>4. named + 1 <= first
      BY <1>1, <1>5
    <3> QED BY <3>1, <3>2, <3>3, <3>4, <1>5
  <2>3. CASE i \notin DOMAIN entries /\ j \notin DOMAIN entries
    BY <2>0, <2>3, <1>8, <1>3
  <2> QED BY <2>1, <2>2, <2>3
<1>15. WireIsKnown'
  <2>1. ASSUME NEW r \in wire PROVE r[1] + r[2] <= named' + 1
    <3>1. r[1] + r[2] <= named + 1
      BY DEF RecoveryInv, WireIsKnown
    <3>2. r[1] \in Int /\ r[2] \in Int
      BY <1>2 DEF RecoveryTypeOK
    <3> QED BY <1>5, <3>1, <3>2
  <2> QED BY <2>1, <1>1 DEF WireIsKnown
<1>16. AskedIsSettled'
  <2>1. ASSUME NEW s \in 1 .. Sequences, asked[s] > 0
        PROVE  (\E i \in DOMAIN entries' : s \in RunOf(entries'[i])) \/ s \in answered \cup abandoned
    BY <2>1, <1>8 DEF RecoveryInv, AskedIsSettled
  <2> QED BY <2>1, <1>1 DEF RecoveryInv, AskedIsSettled
<1> QED BY <1>9, <1>13, <1>14, <1>15, <1>16 DEF RecoveryInv

-----------------------------------------------------------------------------
\* A scan of the queue: spent entries go, others may count one more attempt.
LEMMA ScanKeeps ==
  ASSUME RecoveryInv, NEW q, DOMAIN q = DOMAIN entries,
         NEW gone \in SUBSET DOMAIN entries, \A g \in gone : Spent(entries[g]),
         entries' = Kept(q, gone),
         abandoned' = abandoned \cup UNION {Run(entries[i].first, entries[i].count) : i \in gone},
         named' = named, answered' = answered, refused' = refused,
         \A i \in DOMAIN entries :
           /\ q[i] \in EntryType
           /\ q[i].first = entries[i].first /\ q[i].count = entries[i].count
           /\ ~ q[i].in_flight => q[i].attempts = 0,
         asked' \in [1 .. Sequences -> 0 .. MaxAttempts],
         \A i \in DOMAIN entries : i \notin gone =>
           \A s \in RunOf(entries[i]) : asked'[s] = q[i].attempts,
         \A s \in 1 .. Sequences :
           asked'[s] # asked[s] => \E i \in DOMAIN entries : i \notin gone /\ s \in RunOf(entries[i]),
         \A r \in wire' : r \in wire \/ \E j \in DOMAIN entries :
           r = <<entries[j].first, entries[j].count>>
  PROVE  RecoveryInv'
<1> USE RecoveryAssumption
<1> DEFINE n == Len(entries)
           Gone == UNION {Run(entries[i].first, entries[i].count) : i \in gone}
<1>1. n \in Nat /\ DOMAIN entries = 1 .. n /\ DOMAIN q = 1 .. n
  BY EntryFacts
<1> HIDE DEF n
<1>2. \A s : s \in Gone <=> \E i \in gone : s \in RunOf(entries[i])
  BY DEF RunOf
<1>3. abandoned' = abandoned \cup Gone
  OBVIOUS
<1> HIDE DEF Gone
<1>4. RecoveryTypeOK
  BY DEF RecoveryInv
<1>5. \A s \in Gone : s \in 1 .. named /\ s \in 1 .. Sequences /\ asked[s] = MaxAttempts
  <2> SUFFICES ASSUME NEW s \in Gone
               PROVE  s \in 1 .. named /\ s \in 1 .. Sequences /\ asked[s] = MaxAttempts
    OBVIOUS
  <2>1. PICK i \in gone : s \in RunOf(entries[i])
    BY <1>2
  <2>2. s \in 1 .. named
    BY <2>1, EntryFacts
  <2>3. asked[s] = entries[i].attempts /\ entries[i].attempts \in 0 .. MaxAttempts
    BY <2>1, EntryFacts DEF SoundEntry
  <2>4. entries[i].attempts >= MaxAttempts
    BY <2>1 DEF Spent
  <2> QED BY <2>2, <2>3, <2>4, <1>4 DEF RecoveryTypeOK
<1>6. \A i \in DOMAIN entries : i \notin gone => RunOf(entries[i]) \cap Gone = {}
  <2> SUFFICES ASSUME NEW i \in DOMAIN entries, i \notin gone, NEW s \in RunOf(entries[i]), s \in Gone
               PROVE  FALSE
    OBVIOUS
  <2>1. PICK j \in gone : s \in RunOf(entries[j])
    BY <1>2
  <2>2. j \in DOMAIN entries /\ i # j
    BY <2>1
  <2>3. RunOf(entries[i]) \cap RunOf(entries[j]) = {}
    BY <2>2, EntryFacts
  <2> QED BY <2>1, <2>3
<1>7. \A i \in DOMAIN entries : RunOf(q[i]) = RunOf(entries[i])
  BY DEF RunOf
<1>8. ASSUME NEW i \in (1 .. n) \ gone
      PROVE  q[i] \in EntryType /\ SoundEntry(q[i], named', Done', asked', wire')
  <2>1. /\ q[i] \in EntryType /\ i \in DOMAIN entries
        /\ q[i].first = entries[i].first /\ q[i].count = entries[i].count
        /\ ~ q[i].in_flight => q[i].attempts = 0
        /\ entries[i].first \in Nat /\ entries[i].count \in Nat
    BY <1>1, EntryFacts
  <2>2. /\ entries[i].first + entries[i].count <= named + 1
        /\ RunOf(entries[i]) \cap Done = {}
        /\ \A r \in wire : r[1] <= entries[i].first \/ r[1] >= entries[i].first + entries[i].count
    BY <2>1, EntryFacts DEF SoundEntry
  <2>3. RunOf(q[i]) \cap Done' = {}
    BY <1>3, <1>6, <1>7, <2>1, <2>2 DEF Done
  <2>4. \A s \in RunOf(q[i]) : asked'[s] = q[i].attempts
    BY <1>1, <1>7, <2>1
  <2>5. ASSUME NEW r \in wire' PROVE r[1] <= q[i].first \/ r[1] >= q[i].first + q[i].count
    <3>1. CASE r \in wire
      BY <3>1, <2>1, <2>2
    <3>2. CASE r \notin wire
      <4>1. PICK j \in DOMAIN entries : r = <<entries[j].first, entries[j].count>>
        BY <3>2
      <4>2. entries[j].first \in Nat /\ entries[j].count \in Nat /\ r[1] = entries[j].first
        BY <4>1, EntryFacts
      <4>3. CASE j = i
        BY <4>2, <4>3, <2>1
      <4>4. CASE j < i
        <5>1. entries[j].first + entries[j].count <= entries[i].first
          BY <4>4, <2>1 DEF RecoveryInv, EntriesAscend
        <5> QED BY <5>1, <4>2, <2>1
      <4>5. CASE i < j
        <5>1. entries[i].first + entries[i].count <= entries[j].first
          BY <4>5, <2>1 DEF RecoveryInv, EntriesAscend
        <5> QED BY <5>1, <4>2, <2>1
      <4> QED BY <4>3, <4>4, <4>5, <1>1
    <3> QED BY <3>1, <3>2
  <2> QED BY <2>1, <2>2, <2>3, <2>4, <2>5 DEF SoundEntry
<1>9. ASSUME NEW i \in (1 .. n) \ gone, NEW j \in (1 .. n) \ gone, i < j
      PROVE  q[i].first + q[i].count <= q[j].first
  BY <1>1, <1>9 DEF RecoveryInv, EntriesAscend
<1>10. /\ entries' \in Seq(EntryType)
       /\ EntriesSound' /\ EntriesAscend'
       /\ \A i \in (1 .. n) \ gone : \E m \in DOMAIN entries' : entries'[m] = q[i]
  BY <1>1, <1>8, <1>9, QueueKept
<1>11. wire' \in SUBSET ((Nat \ {0}) \X (Nat \ {0})) /\ WireIsKnown'
  <2> SUFFICES ASSUME NEW r \in wire'
               PROVE  r \in (Nat \ {0}) \X (Nat \ {0}) /\ r[1] + r[2] <= named' + 1
    BY DEF WireIsKnown
  <2>1. CASE r \in wire
    BY <2>1, <1>4 DEF RecoveryTypeOK, RecoveryInv, WireIsKnown
  <2>2. CASE r \notin wire
    <3>1. PICK j \in DOMAIN entries : r = <<entries[j].first, entries[j].count>>
      BY <2>2
    <3>2. entries[j].first \in Nat \ {0} /\ entries[j].count \in Nat \ {0}
          /\ entries[j].first + entries[j].count <= named + 1
      BY EntryFacts DEF SoundEntry
    <3> QED BY <3>1, <3>2
  <2> QED BY <2>1, <2>2
<1>12. RecoveryTypeOK'
  <2>1. abandoned' \in SUBSET (1 .. named')
    BY <1>3, <1>4, <1>5 DEF RecoveryTypeOK
  <2> QED BY <2>1, <1>4, <1>10, <1>11 DEF RecoveryTypeOK
<1>13. AskedIsSettled'
  <2>1. ASSUME NEW s \in 1 .. Sequences, asked'[s] > 0
        PROVE  (\E i \in DOMAIN entries' : s \in RunOf(entries'[i])) \/ s \in answered' \cup abandoned'
    <3>1. CASE \E i \in DOMAIN entries : i \notin gone /\ s \in RunOf(entries[i])
      BY <3>1, <1>1, <1>7, <1>10
    <3>2. CASE \A i \in DOMAIN entries : s \in RunOf(entries[i]) => i \in gone
      <4>1. asked[s] = asked'[s]
        BY <3>2
      <4>2. (\E i \in DOMAIN entries : s \in RunOf(entries[i])) \/ s \in answered \cup abandoned
        BY <2>1, <4>1 DEF RecoveryInv, AskedIsSettled
      <4> QED BY <3>2, <4>2, <1>2, <1>3
    <3> QED BY <3>1, <3>2
  <2>2. ASSUME NEW s \in abandoned' PROVE asked'[s] = MaxAttempts
    <3>1. s \in 1 .. Sequences /\ asked[s] = MaxAttempts
      BY <1>3, <1>4, <1>5 DEF RecoveryInv, AskedIsSettled, RecoveryTypeOK
    <3>2. \A i \in DOMAIN entries : i \notin gone => s \notin RunOf(entries[i])
      <4>1. \A i \in DOMAIN entries : RunOf(entries[i]) \cap abandoned = {}
        BY EntryFacts DEF SoundEntry, Done
      <4> QED BY <4>1, <1>3, <1>6
    <3> QED BY <3>1, <3>2
  <2> QED BY <2>1, <2>2 DEF AskedIsSettled
<1> QED BY <1>10, <1>11, <1>12, <1>13 DEF RecoveryInv

\* A request is sent for one entry, and those that are spent are given up.
LEMMA AskKeeps ==
  ASSUME RecoveryInv, NEW k \in DOMAIN entries, NEW e \in EntryType,
         NEW gone \in SUBSET DOMAIN entries, \A g \in gone : Spent(entries[g]), k \notin gone,
         e.first = entries[k].first, e.count = entries[k].count, e.in_flight,
         e.attempts = entries[k].attempts + 1,
         Ask(k, e, gone),
         abandoned' = abandoned \cup UNION {Run(entries[i].first, entries[i].count) : i \in gone},
         named' = named, answered' = answered, refused' = refused
  PROVE  RecoveryInv'
<1> USE RecoveryAssumption
<1> DEFINE q == [entries EXCEPT ![k] = e]
<1>1. /\ entries' = Kept(q, gone)
      /\ wire' = wire \cup {<<entries[k].first, entries[k].count>>}
      /\ asked' = [s \in DOMAIN asked |-> IF s \in RunOf(entries[k]) THEN asked[s] + 1 ELSE asked[s]]
  BY DEF Ask, RunOf
<1>2. DOMAIN q = DOMAIN entries /\ q[k] = e /\ \A i \in DOMAIN entries : i # k => q[i] = entries[i]
  OBVIOUS
<1> HIDE DEF q
<1>3. asked \in [1 .. Sequences -> 0 .. MaxAttempts]
  BY DEF RecoveryInv, RecoveryTypeOK
<1>4. \A i \in DOMAIN entries :
           /\ q[i] \in EntryType
           /\ q[i].first = entries[i].first /\ q[i].count = entries[i].count
           /\ ~ q[i].in_flight => q[i].attempts = 0
  <2> SUFFICES ASSUME NEW i \in DOMAIN entries
               PROVE  /\ q[i] \in EntryType
                      /\ q[i].first = entries[i].first /\ q[i].count = entries[i].count
                      /\ ~ q[i].in_flight => q[i].attempts = 0
    OBVIOUS
  <2>1. CASE i = k
    BY <1>2, <2>1
  <2>2. CASE i # k
    <3>1. entries[i] \in EntryType /\ SoundEntry(entries[i], named, Done, asked, wire)
      BY EntryFacts
    <3> QED BY <1>2, <2>2, <3>1 DEF SoundEntry
  <2> QED BY <2>1, <2>2
<1>5. \A s \in RunOf(entries[k]) : asked[s] + 1 = e.attempts
  BY EntryFacts DEF SoundEntry
<1>6. e.attempts \in 0 .. MaxAttempts
  BY DEF EntryType
<1>7. asked' \in [1 .. Sequences -> 0 .. MaxAttempts]
  BY <1>1, <1>3, <1>5, <1>6
<1>8. ASSUME NEW i \in DOMAIN entries, i \notin gone, NEW s \in RunOf(entries[i])
      PROVE  asked'[s] = q[i].attempts
  <2>1. s \in 1 .. named /\ named \in 0 .. Sequences /\ asked[s] = entries[i].attempts
    BY EntryFacts DEF SoundEntry, RecoveryInv, RecoveryTypeOK
  <2>2. s \in DOMAIN asked
    BY <1>3, <2>1
  <2>3. CASE i = k
    BY <2>2, <2>3, <1>1, <1>2, <1>5
  <2>4. CASE i # k
    BY <2>1, <2>2, <2>4, <1>1, <1>2, EntryFacts
  <2> QED BY <2>3, <2>4
<1>9. \A s \in 1 .. Sequences :
           asked'[s] # asked[s] => \E i \in DOMAIN entries : i \notin gone /\ s \in RunOf(entries[i])
  BY <1>1, <1>3
<1>10. \A r \in wire' : r \in wire \/ \E j \in DOMAIN entries :
           r = <<entries[j].first, entries[j].count>>
  BY <1>1
<1> QED BY <1>1, <1>2, <1>4, <1>7, <1>8, <1>9, <1>10, ScanKeeps

\* A retry, and a first request, of an entry that has attempts left.
LEMMA SentFacts ==
  ASSUME NEW x \in EntryType, x.attempts < MaxAttempts
  PROVE  /\ Retried(x) \in EntryType
         /\ Retried(x).first = x.first /\ Retried(x).count = x.count
         /\ Retried(x).in_flight = x.in_flight /\ Retried(x).attempts = x.attempts + 1
         /\ FirstSent(x) \in EntryType
         /\ FirstSent(x).first = x.first /\ FirstSent(x).count = x.count
         /\ FirstSent(x).in_flight /\ FirstSent(x).attempts = 1
<1> USE RecoveryAssumption
<1> DEFINE t == IF x.timeout > MaxTimeout \div 2 THEN MaxTimeout ELSE 2 * x.timeout
<1>1. /\ x.first \in Nat \ {0} /\ x.count \in Nat \ {0} /\ x.in_flight \in BOOLEAN
      /\ x.attempts \in 0 .. MaxAttempts /\ x.timeout \in Nat /\ x.left \in Nat
      /\ x = [first |-> x.first, count |-> x.count, in_flight |-> x.in_flight,
              attempts |-> x.attempts, timeout |-> x.timeout, left |-> x.left]
  BY DEF EntryType
<1>2. t \in Nat /\ x.attempts + 1 \in 0 .. MaxAttempts /\ 1 \in 0 .. MaxAttempts
  BY <1>1
<1>3. Retried(x) = [x EXCEPT !.timeout = t, !.left = t, !.attempts = @ + 1]
  BY DEF Retried
<1> HIDE DEF t
<1>4. Retried(x) = [first |-> x.first, count |-> x.count, in_flight |-> x.in_flight,
                    attempts |-> x.attempts + 1, timeout |-> t, left |-> t]
  BY <1>1, <1>3
<1>5. FirstSent(x) = [first |-> x.first, count |-> x.count, in_flight |-> TRUE,
                      attempts |-> 1, timeout |-> InitialTimeout, left |-> InitialTimeout]
  <2>1. FirstSent(x) = [x EXCEPT !.in_flight = TRUE, !.timeout = InitialTimeout,
                                 !.left = InitialTimeout, !.attempts = 1]
    BY DEF FirstSent
  <2> QED BY <1>1, <2>1
<1>6. Retried(x) \in EntryType
  BY <1>1, <1>2, <1>4 DEF EntryType
<1>7. FirstSent(x) \in EntryType
  BY <1>1, <1>2, <1>5 DEF EntryType
<1> QED BY <1>4, <1>5, <1>6, <1>7

\* A look for the next request: one entry is asked for, or only the spent ones
\* go.
LEMMA NextRequestKeeps ==
  ASSUME RecoveryInv, NextRequest
  PROVE  RecoveryInv'
<1> USE RecoveryAssumption
<1> DEFINE due == {i \in DOMAIN entries : Expired(entries[i]) /\ ~Spent(entries[i])}
           fresh == {i \in DOMAIN entries : ~entries[i].in_flight}
           gone == {i \in DOMAIN entries : Spent(entries[i]) /\ (due # {} => i < Min(due))}
<1>1. /\ abandoned' = abandoned \cup UNION {Run(entries[i].first, entries[i].count) : i \in gone}
      /\ named' = named /\ answered' = answered /\ refused' = refused
      /\ \/ due # {} /\ Ask(Min(due), Retried(entries[Min(due)]), gone)
         \/ fresh # {} /\ Ask(Min(fresh), FirstSent(entries[Min(fresh)]), gone)
         \/ entries' = Kept(entries, gone) /\ wire' = wire /\ asked' = asked
  BY DEF NextRequest
<1>2. gone \in SUBSET DOMAIN entries /\ \A g \in gone : Spent(entries[g])
  OBVIOUS
<1>3. \A i \in due : i \in DOMAIN entries /\ Expired(entries[i]) /\ ~ Spent(entries[i]) /\ i \notin gone
  OBVIOUS
<1>4. \A i \in fresh : i \in DOMAIN entries /\ ~entries[i].in_flight /\ i \notin gone
  BY DEF Spent, Expired
<1>5. due \in SUBSET Nat /\ fresh \in SUBSET Nat
  BY EntryFacts
<1> HIDE DEF due, fresh, gone
<1>6. CASE due # {} /\ Ask(Min(due), Retried(entries[Min(due)]), gone)
  <2> DEFINE k == Min(due)
             e == Retried(entries[k])
  <2>1. k \in due
    BY <1>5, <1>6, MinOfNaturals
  <2> HIDE DEF k
  <2>2. /\ k \in DOMAIN entries /\ k \notin gone
        /\ entries[k].in_flight /\ ~ (entries[k].attempts >= MaxAttempts)
    BY <1>3, <2>1 DEF Expired, Spent
  <2>3. /\ entries[k] \in EntryType /\ entries[k].attempts \in 0 .. MaxAttempts
        /\ entries[k].timeout \in Nat
    BY <2>2, EntryFacts
  <2>4. /\ e \in EntryType /\ e.first = entries[k].first /\ e.count = entries[k].count
        /\ e.in_flight /\ e.attempts = entries[k].attempts + 1
    BY <2>2, <2>3, SentFacts
  <2>5. Ask(k, e, gone)
    BY <1>6 DEF k
  <2> HIDE DEF e
  <2> QED BY <1>1, <1>2, <2>2, <2>4, <2>5, AskKeeps
<1>7. CASE fresh # {} /\ Ask(Min(fresh), FirstSent(entries[Min(fresh)]), gone)
  <2> DEFINE k == Min(fresh)
             e == FirstSent(entries[k])
  <2>1. k \in fresh
    BY <1>5, <1>7, MinOfNaturals
  <2> HIDE DEF k
  <2>2. k \in DOMAIN entries /\ k \notin gone /\ ~ entries[k].in_flight
    BY <1>4, <2>1
  <2>3. entries[k] \in EntryType /\ entries[k].attempts = 0
    BY <2>2, EntryFacts DEF SoundEntry
  <2>4. /\ e \in EntryType /\ e.first = entries[k].first /\ e.count = entries[k].count
        /\ e.in_flight /\ e.attempts = entries[k].attempts + 1
    BY <2>2, <2>3, SentFacts
  <2>5. Ask(k, e, gone)
    BY <1>7 DEF k
  <2> HIDE DEF e
  <2> QED BY <1>1, <1>2, <2>2, <2>4, <2>5, AskKeeps
<1>8. CASE entries' = Kept(entries, gone) /\ wire' = wire /\ asked' = asked
  <2>1. \A i \in DOMAIN entries :
           /\ entries[i] \in EntryType
           /\ entries[i].first = entries[i].first /\ entries[i].count = entries[i].count
           /\ ~ entries[i].in_flight => entries[i].attempts = 0
    BY EntryFacts DEF SoundEntry
  <2>2. asked' \in [1 .. Sequences -> 0 .. MaxAttempts]
    BY <1>8 DEF RecoveryInv, RecoveryTypeOK
  <2>3. \A i \in DOMAIN entries : i \notin gone =>
           \A s \in RunOf(entries[i]) : asked'[s] = entries[i].attempts
    BY <1>8, EntryFacts DEF SoundEntry
  <2>4. \A s \in 1 .. Sequences :
           asked'[s] # asked[s] => \E i \in DOMAIN entries : i \notin gone /\ s \in RunOf(entries[i])
    BY <1>8
  <2>5. \A r \in wire' : r \in wire \/ \E j \in DOMAIN entries :
           r = <<entries[j].first, entries[j].count>>
    BY <1>8
  <2> QED BY <1>1, <1>2, <1>8, <2>1, <2>2, <2>3, <2>4, <2>5, ScanKeeps
<1> QED BY <1>1, <1>6, <1>7, <1>8

\* An answer, however late: whole entries go, and one may lose its front.
LEMMA OnResponseKeeps ==
  ASSUME RecoveryInv, NEW r \in wire, NEW count \in 1 .. r[2], OnResponse(r[1], count)
  PROVE  RecoveryInv'
<1> USE RecoveryAssumption
<1> DEFINE n == Len(entries)
           first == r[1]
           end == r[1] + count
           q == [i \in DOMAIN entries |-> Trimmed(entries[i], first, end)]
           gone == {i \in DOMAIN entries : Covered(entries[i], first, end)}
<1>1. /\ entries' = Kept(q, gone)
      /\ answered' = answered \cup Run(first, count)
      /\ wire' = wire /\ named' = named /\ abandoned' = abandoned /\ refused' = refused
      /\ asked' = asked
  BY DEF OnResponse
<1>2. /\ r[1] \in Nat \ {0} /\ r[2] \in Nat \ {0} /\ r[1] + r[2] <= named + 1
      /\ named \in 0 .. Sequences
  BY DEF RecoveryInv, RecoveryTypeOK, WireIsKnown
<1>3. /\ first \in Nat \ {0} /\ end \in Nat /\ first < end /\ end <= named + 1
      /\ \A s : s \in Run(first, count) <=> s \in Nat /\ s >= first /\ s < end
  BY <1>2 DEF Run
<1>4. /\ n \in Nat /\ DOMAIN entries = 1 .. n /\ DOMAIN q = 1 .. n
      /\ \A i \in 1 .. n : q[i] = Trimmed(entries[i], first, end)
      /\ \A i \in 1 .. n : i \in gone <=> Covered(entries[i], first, end)
  BY EntryFacts
<1>5. \A i \in 1 .. n : first <= entries[i].first \/ first >= entries[i].first + entries[i].count
  BY <1>4, EntryFacts DEF SoundEntry
<1> HIDE DEF first, end, n, q, gone
<1>6. ASSUME NEW i \in 1 .. n
      PROVE  /\ entries[i] \in EntryType
             /\ entries[i].first \in Nat \ {0} /\ entries[i].count \in Nat \ {0}
             /\ \A s : s \in RunOf(entries[i]) <=>
                  s \in Nat /\ s >= entries[i].first /\ s < entries[i].first + entries[i].count
  <2>1. /\ entries[i] \in EntryType
        /\ entries[i].first \in Nat \ {0} /\ entries[i].count \in Nat \ {0}
    BY <1>4, EntryFacts
  <2> QED BY <2>1 DEF RunOf, Run
<1>7. ASSUME NEW i \in 1 .. n, i \in gone
      PROVE  RunOf(entries[i]) \in SUBSET Run(first, count)
  <2>1. first < entries[i].first + entries[i].count /\ end >= entries[i].first + entries[i].count
    BY <1>4, <1>7 DEF Covered, Overlaps
  <2>2. first <= entries[i].first
    BY <1>3, <1>5, <1>6, <2>1
  <2> QED BY <1>3, <1>6, <2>1, <2>2
<1>8. ASSUME NEW i \in 1 .. n, i \notin gone
      PROVE  /\ q[i] \in EntryType
             /\ q[i].first >= entries[i].first
             /\ q[i].first + q[i].count = entries[i].first + entries[i].count
             /\ q[i].attempts = entries[i].attempts /\ q[i].in_flight = entries[i].in_flight
             /\ RunOf(q[i]) \in SUBSET RunOf(entries[i])
             /\ RunOf(q[i]) \cap Run(first, count) = {}
             /\ RunOf(entries[i]) \in SUBSET (RunOf(q[i]) \cup Run(first, count))
  <2> DEFINE e == entries[i]
  <2>0. /\ e \in EntryType /\ e.first \in Nat \ {0} /\ e.count \in Nat \ {0}
        /\ \A s : s \in RunOf(e) <=> s \in Nat /\ s >= e.first /\ s < e.first + e.count
        /\ first <= e.first \/ first >= e.first + e.count
        /\ q[i] = Trimmed(e, first, end) /\ ~ Covered(e, first, end)
    BY <1>4, <1>5, <1>6, <1>8
  <2> HIDE DEF e
  <2>1. CASE Overlaps(e, first, end)
    <3>1. first < e.first + e.count /\ end > e.first /\ ~ (end >= e.first + e.count)
      BY <2>0, <2>1 DEF Overlaps, Covered
    <3>2. first <= e.first
      BY <1>3, <2>0, <3>1
    <3>3. q[i] = [e EXCEPT !.first = end, !.count = e.first + e.count - end]
      BY <2>0, <2>1, <3>2 DEF Trimmed
    <3>4. e.first + e.count - end \in Nat \ {0} /\ end \in Nat \ {0}
      BY <1>3, <2>0, <3>1
    <3>5. /\ q[i] \in EntryType /\ q[i].first = end /\ q[i].count = e.first + e.count - end
          /\ q[i].attempts = e.attempts /\ q[i].in_flight = e.in_flight
      BY <2>0, <3>3, <3>4 DEF EntryType
    <3>6. \A s : s \in RunOf(q[i]) <=> s \in Nat /\ s >= end /\ s < e.first + e.count
      BY <1>3, <2>0, <3>4, <3>5 DEF RunOf, Run
    <3> QED BY <1>3, <2>0, <3>1, <3>2, <3>5, <3>6 DEF e
  <2>2. CASE ~ Overlaps(e, first, end)
    <3>1. q[i] = e
      BY <2>0, <2>2 DEF Trimmed
    <3>2. ~ (first < e.first + e.count) \/ ~ (end > e.first)
      BY <2>2 DEF Overlaps
    <3> QED BY <1>3, <2>0, <3>1, <3>2 DEF e
  <2> QED BY <2>1, <2>2
<1>9. ASSUME NEW i \in (1 .. n) \ gone
      PROVE  q[i] \in EntryType /\ SoundEntry(q[i], named', Done', asked', wire')
  <2>1. /\ i \in DOMAIN entries /\ SoundEntry(entries[i], named, Done, asked, wire)
        /\ entries[i].first \in Nat /\ entries[i].count \in Nat
    BY <1>4, EntryFacts
  <2>2. q[i] \in EntryType /\ q[i].first \in Nat /\ q[i].count \in Nat
    BY <1>8 DEF EntryType
  <2>3. q[i].first + q[i].count <= named' + 1 /\ (~ q[i].in_flight => q[i].attempts = 0)
    BY <1>1, <1>8, <2>1 DEF SoundEntry
  <2>4. RunOf(q[i]) \cap Done' = {}
    BY <1>1, <1>8, <2>1 DEF SoundEntry, Done
  <2>5. \A s \in RunOf(q[i]) : asked'[s] = q[i].attempts
    BY <1>1, <1>8, <2>1 DEF SoundEntry
  <2>6. ASSUME NEW x \in wire' PROVE x[1] <= q[i].first \/ x[1] >= q[i].first + q[i].count
    <3>1. x[1] \in Nat /\ (x[1] <= entries[i].first \/ x[1] >= entries[i].first + entries[i].count)
      BY <1>1, <2>1 DEF SoundEntry, RecoveryInv, RecoveryTypeOK
    <3> QED BY <3>1, <1>8, <2>1, <2>2
  <2> QED BY <2>2, <2>3, <2>4, <2>5, <2>6 DEF SoundEntry
<1>10. ASSUME NEW i \in (1 .. n) \ gone, NEW j \in (1 .. n) \ gone, i < j
      PROVE  q[i].first + q[i].count <= q[j].first
  <2>1. entries[i].first + entries[i].count <= entries[j].first
    BY <1>4, <1>10 DEF RecoveryInv, EntriesAscend
  <2>2. q[j].first \in Nat /\ q[j].first >= entries[j].first
        /\ q[i].first + q[i].count = entries[i].first + entries[i].count
    BY <1>8 DEF EntryType
  <2> QED BY <2>1, <2>2, <1>6
<1>11. /\ entries' \in Seq(EntryType)
       /\ EntriesSound' /\ EntriesAscend'
       /\ \A i \in (1 .. n) \ gone : \E m \in DOMAIN entries' : entries'[m] = q[i]
  BY <1>1, <1>4, <1>9, <1>10, QueueKept
<1>12. RecoveryTypeOK' /\ WireIsKnown'
  <2>1. Run(first, count) \in SUBSET (1 .. named)
    BY <1>2, <1>3
  <2> QED BY <2>1, <1>1, <1>11 DEF RecoveryInv, RecoveryTypeOK, WireIsKnown
<1>13. AskedIsSettled'
  <2>1. ASSUME NEW s \in 1 .. Sequences, asked[s] > 0
        PROVE  (\E i \in DOMAIN entries' : s \in RunOf(entries'[i])) \/ s \in answered' \cup abandoned'
    <3>1. CASE s \in answered \cup abandoned
      BY <3>1, <1>1
    <3>2. CASE s \notin answered \cup abandoned
      <4>1. PICK i \in 1 .. n : s \in RunOf(entries[i])
        BY <2>1, <3>2, <1>4 DEF RecoveryInv, AskedIsSettled
      <4>2. CASE i \in gone
        BY <4>1, <4>2, <1>1, <1>7
      <4>3. CASE i \notin gone
        BY <4>1, <4>3, <1>1, <1>8, <1>11
      <4> QED BY <4>2, <4>3
    <3> QED BY <3>1, <3>2
  <2> QED BY <2>1, <1>1 DEF RecoveryInv, AskedIsSettled
<1> QED BY <1>11, <1>12, <1>13 DEF RecoveryInv

\* Time passes: an entry whose answer is overdue may be asked for again.
LEMMA ElapseKeeps ==
  ASSUME RecoveryInv, Elapse
  PROVE  RecoveryInv'
<1> DEFINE older(e) == [e EXCEPT !.left = IF @ > 0 THEN @ - 1 ELSE 0]
<1>1. /\ entries' = [i \in DOMAIN entries |-> older(entries[i])]
      /\ UNCHANGED <<wire, named, answered, abandoned, refused, asked>>
  BY DEF Elapse
<1>2. ASSUME NEW i \in DOMAIN entries
      PROVE  /\ entries'[i] \in EntryType
             /\ entries'[i].first = entries[i].first /\ entries'[i].count = entries[i].count
             /\ entries'[i].in_flight = entries[i].in_flight
             /\ entries'[i].attempts = entries[i].attempts
  <2>1. entries[i] \in EntryType /\ entries[i].left \in Nat
    BY EntryFacts
  <2>2. entries'[i] = older(entries[i])
    BY <1>1
  <2> QED BY <2>1, <2>2 DEF EntryType
<1>3. Len(entries) \in Nat /\ DOMAIN entries = 1 .. Len(entries) /\ DOMAIN entries' = DOMAIN entries
  BY <1>1, EntryFacts
<1>4. entries' \in Seq(EntryType)
  <2>1. entries' \in [1 .. Len(entries) -> EntryType]
    BY <1>1, <1>2, <1>3
  <2> QED BY <2>1, <1>3, SeqDef
<1>5. RecoveryTypeOK'
  BY <1>1, <1>4 DEF RecoveryInv, RecoveryTypeOK
<1>6. EntriesSound'
  <2> SUFFICES ASSUME NEW i \in DOMAIN entries
               PROVE  SoundEntry(entries'[i], named, Done, asked, wire)
    BY <1>1, <1>3 DEF EntriesSound, Done
  <2>1. RunOf(entries'[i]) = RunOf(entries[i])
    BY <1>2 DEF RunOf
  <2>2. SoundEntry(entries[i], named, Done, asked, wire)
    BY EntryFacts
  <2> QED BY <1>2, <2>1, <2>2 DEF SoundEntry
<1>7. EntriesAscend'
  BY <1>2, <1>3 DEF RecoveryInv, EntriesAscend
<1>8. WireIsKnown'
  BY <1>1 DEF RecoveryInv, WireIsKnown
<1>9. AskedIsSettled'
  <2>1. \A i \in DOMAIN entries : RunOf(entries'[i]) = RunOf(entries[i])
    BY <1>2 DEF RunOf
  <2> QED BY <1>1, <1>3, <2>1 DEF RecoveryInv, AskedIsSettled
<1> QED BY <1>5, <1>6, <1>7, <1>8, <1>9 DEF RecoveryInv

\* Nothing is asked for and nothing settled: the start, and after a reset.
LEMMA EmptyQueue ==
  /\ RecoveryInit => RecoveryInv
  /\ Clear => RecoveryInv'
<1> USE RecoveryAssumption
<1>1. <<>> \in Seq(EntryType) /\ DOMAIN <<>> = {}
  BY EmptySeq
<1>2. ASSUME RecoveryInit PROVE RecoveryInv
  BY <1>1, <1>2 DEF RecoveryInit, RecoveryInv, RecoveryTypeOK, EntriesSound, EntriesAscend,
                    WireIsKnown, AskedIsSettled
<1>3. ASSUME Clear PROVE RecoveryInv'
  BY <1>1, <1>3 DEF Clear, RecoveryInv, RecoveryTypeOK, EntriesSound, EntriesAscend,
                    WireIsKnown, AskedIsSettled
<1> QED BY <1>2, <1>3

(* The ranges to ask for stay in order and disjoint, each knows how often  *)
(* its numbers were asked for, none holds a number that is settled, and no *)
(* request ever sent starts in the middle of one (recovery.hpp, need,      *)
(* next_request and on_response).                                          *)
THEOREM QueueIsSound == RecoverySpec => []RecoveryInv
<1>1. RecoveryInit => RecoveryInv
  BY EmptyQueue
<1>2. ASSUME RecoveryInv, [RecoveryNext]_recoveryVars PROVE RecoveryInv'
  <2>1. CASE \E first, count \in 1 .. Sequences : Need(first, count)
    BY <1>2, <2>1, NeedKeeps
  <2>2. CASE NextRequest
    BY <1>2, <2>2, NextRequestKeeps
  <2>3. CASE \E r \in wire : \E count \in 1 .. r[2] : OnResponse(r[1], count)
    BY <1>2, <2>3, OnResponseKeeps
  <2>4. CASE Clear
    BY <2>4, EmptyQueue
  <2>5. CASE Elapse
    BY <1>2, <2>5, ElapseKeeps
  <2>6. CASE UNCHANGED recoveryVars
    BY <1>2, <2>6 DEF recoveryVars, RecoveryInv, RecoveryTypeOK, EntriesSound, EntriesAscend,
                      WireIsKnown, AskedIsSettled, Done
  <2> QED BY <1>2, <2>1, <2>2, <2>3, <2>4, <2>5, <2>6 DEF RecoveryNext
<1> QED BY <1>1, <1>2, PTL DEF RecoverySpec

(* Whatever is lost, late or answered in part, a number no longer asked    *)
(* for was answered, refused for want of room, or given up after exactly   *)
(* max_attempts requests that named it, and none is asked for more often   *)
(* (recovery.hpp, next_request and on_response).                           *)
THEOREM EveryGapIsSettledAlways == RecoverySpec => []EveryGapIsSettled
<1>1. ASSUME RecoveryInv PROVE EveryGapIsSettled
  <2> USE <1>1
  <2>1. \A s : s \in Outstanding <=> \E i \in DOMAIN entries : s \in RunOf(entries[i])
    BY DEF Outstanding, ToSet, RunOf
  <2>2. Outstanding \cap answered = {}
    BY <2>1, EntryFacts DEF SoundEntry, Done
  <2>3. \A e \in ToSet(entries) : Run(e.first, e.count) \cap refused = {}
    <3>1. \A i \in DOMAIN entries : RunOf(entries[i]) \cap refused = {}
      BY EntryFacts DEF SoundEntry, Done
    <3> QED BY <3>1 DEF ToSet, RunOf
  <2>4. ASSUME NEW s \in 1 .. Sequences
        PROVE  /\ asked[s] <= MaxAttempts
               /\ s \in abandoned => asked[s] = MaxAttempts
               /\ asked[s] > 0 => s \in Outstanding \cup answered \cup abandoned
    BY <2>1, RecoveryAssumption DEF RecoveryInv, RecoveryTypeOK, AskedIsSettled
  <2>5. \A i, j \in DOMAIN entries :
          \A s \in RunOf(entries[i]) \cap RunOf(entries[j]) : i = j
    BY EntryFacts
  <2> QED BY <2>2, <2>3, <2>4, <2>5 DEF EveryGapIsSettled, RunOf
<1> QED BY <1>1, QueueIsSound, PTL

-----------------------------------------------------------------------------
(***************************************************************************)
(* The client's view of an order.  The client's record, once it has read   *)
(* every answer under way, is compared with the exchange's order: each     *)
(* step of the exchange appends the answer that keeps the two together,    *)
(* and a call of the client changes only what the answers under way will   *)
(* say again.                                                              *)
(***************************************************************************)
OrderStates == {"Unknown", "Sent", "Accepted", "PartiallyFilled", "CancelSent", "ReplaceSent",
                "Filled", "Canceled", "Rejected"}

OrderRecord ==
  [state : OrderStates, original : Nat, leaves : Nat, filled : Nat,
   illegal_transitions : BOOLEAN, orphan_fills : BOOLEAN, overfills : BOOLEAN]

AnswerType == [type : {"Accepted", "Replaced", "Executed", "Canceled", "Rejected"},
               shares : Nat, dead : BOOLEAN]

RequestType == [type : {"Enter", "Cancel", "Replace"}, shares : Nat]

VenueType == [state : {"none", "live", "dead"}, leaves : Nat, executed : Nat, accepted : Nat,
              canceled : Nat, late : Nat]

OrderTypeOK ==
  /\ client \in OrderRecord /\ venue \in VenueType /\ resent \in BOOLEAN
  /\ inbound \in Seq(RequestType) /\ outbound \in Seq(AnswerType)

\* Nothing has happened to an order that was not sent, and nothing but requests
\* to one that the exchange has not read.
Beginnings ==
  /\ client.state = "Unknown" => client = Unknown /\ inbound = <<>> /\ venue.state = "none"
  /\ venue.state = "none" =>
       /\ venue.leaves = 0 /\ venue.executed = 0 /\ venue.accepted = 0 /\ venue.late = 0
       /\ outbound = <<>> /\ ~ resent
       /\ client.state \in {"Unknown", "Sent", "CancelSent"}
       /\ client.filled = 0 /\ ~ client.orphan_fills /\ ~ client.overfills
       /\ client.state # "Unknown" => inbound # <<>> /\ inbound[1].type = "Enter"

\* The entry is the first request, and a replacement is of a working size.
RequestsInOrder ==
  \A i \in DOMAIN inbound :
    /\ inbound[i].type = "Enter" => i = 1 /\ venue.state = "none"
    /\ inbound[i].type = "Replace" => inbound[i].shares > 0

VenueWorks == venue.state = "live" <=> venue.leaves > 0

\* An order the client knows as sent has its first answer ahead.
FirstAnswerAhead ==
  client.state = "Sent" /\ venue.state # "none" =>
    outbound # <<>> /\ outbound[1].type \in {"Accepted", "Rejected"}

\* A resent Accepted has been counted as illegal, or it will be.
ResentIsSeen ==
  resent => \/ client.illegal_transitions
            \/ \E i \in DOMAIN outbound :
                 /\ outbound[i].type = "Accepted"
                 /\ client.state = "Sent" => i >= 2

\* Caught up, the client has the position, and in quiet times the working size.
CaughtUp ==
  venue.state # "none" =>
    /\ Caught.filled = venue.executed /\ Caught.state # "Unknown"
    /\ ~ resent => /\ Agrees(Caught)
                   /\ Caught.orphan_fills <=> venue.late > 0
                   /\ Caught.overfills <=> venue.late > 0

OrderInv ==
  /\ OrderTypeOK /\ Beginnings /\ RequestsInOrder /\ VenueWorks /\ FirstAnswerAhead
  /\ ResentIsSeen /\ CaughtUp

-----------------------------------------------------------------------------
(* What one answer does to a record.                                       *)

\* An order's record, field by field.
Order(state, original, leaves, filled, illegal, orphan, over) ==
  [state |-> state, original |-> original, leaves |-> leaves, filled |-> filled,
   illegal_transitions |-> illegal, orphan_fills |-> orphan, overfills |-> over]

\* What the fields of an order's record are.
LEMMA OrderFields ==
  ASSUME NEW o \in OrderRecord
  PROVE  /\ o.state \in OrderStates /\ o.original \in Nat /\ o.leaves \in Nat /\ o.filled \in Nat
         /\ o.illegal_transitions \in BOOLEAN /\ o.orphan_fills \in BOOLEAN
         /\ o.overfills \in BOOLEAN
         /\ o = Order(o.state, o.original, o.leaves, o.filled, o.illegal_transitions,
                      o.orphan_fills, o.overfills)
BY DEF OrderRecord, Order

\* A record of such fields is one.
LEMMA OrderTyped ==
  ASSUME NEW st \in OrderStates, NEW or \in Nat, NEW le \in Nat, NEW fi \in Nat,
         NEW il \in BOOLEAN, NEW orp \in BOOLEAN, NEW ov \in BOOLEAN
  PROVE  Order(st, or, le, fi, il, orp, ov) \in OrderRecord
BY DEF OrderRecord, Order

\* An answer leaves a record of the order.
LEMMA AnsweredType ==
  ASSUME NEW o \in OrderRecord, NEW m \in AnswerType
  PROVE  Answered(o, m) \in OrderRecord
<1>0. /\ o.state \in OrderStates /\ o.original \in Nat /\ o.leaves \in Nat /\ o.filled \in Nat
      /\ o.illegal_transitions \in BOOLEAN /\ o.orphan_fills \in BOOLEAN /\ o.overfills \in BOOLEAN
      /\ m.shares \in Nat /\ m.dead \in BOOLEAN
      /\ m.type \in {"Accepted", "Replaced", "Executed", "Canceled", "Rejected"}
  BY OrderFields DEF AnswerType
<1>a. o = Order(o.state, o.original, o.leaves, o.filled, o.illegal_transitions,
                o.orphan_fills, o.overfills)
  BY OrderFields
<1>1. CASE m.type = "Accepted"
  <2>1. Answered(o, m) = OnAccepted(o, m)
    BY <1>1 DEF Answered
  <2> DEFINE il == Counted(o, o.state = "Sent")
             le == IF ~m.dead /\ m.shares > o.filled THEN m.shares - o.filled ELSE 0
             st == IF m.dead THEN "Canceled" ELSE "Accepted"
  <2>2. il \in BOOLEAN
    BY <1>0 DEF Counted
  <2>3. le \in Nat /\ st \in OrderStates
    BY <1>0 DEF OrderStates
  <2>4. Answered(o, m) = [o EXCEPT !.illegal_transitions = il, !.original = m.shares,
                                   !.leaves = le, !.state = st]
    BY <2>1 DEF OnAccepted
  <2> HIDE DEF il, le, st
  <2>5. Answered(o, m) = Order(st, m.shares, le, o.filled, il, o.orphan_fills, o.overfills)
    BY <1>a, <2>4 DEF Order
  <2> QED BY <1>0, <2>2, <2>3, <2>5, OrderTyped
<1>2. CASE m.type = "Replaced"
  <2>1. Answered(o, m) = OnReplaced(o, m)
    BY <1>2 DEF Answered
  <2> DEFINE il == Counted(o, o.state = "ReplaceSent")
             le == IF m.dead THEN 0 ELSE m.shares
             st == IF m.dead THEN "Canceled" ELSE "Accepted"
  <2>2. il \in BOOLEAN
    BY <1>0 DEF Counted
  <2>3. le \in Nat /\ st \in OrderStates /\ m.shares + o.filled \in Nat
    BY <1>0 DEF OrderStates
  <2>4. Answered(o, m) = [o EXCEPT !.illegal_transitions = il, !.original = m.shares + o.filled,
                                   !.leaves = le, !.state = st]
    BY <2>1 DEF OnReplaced
  <2> HIDE DEF il, le, st
  <2>5. Answered(o, m) = Order(st, m.shares + o.filled, le, o.filled, il, o.orphan_fills,
                               o.overfills)
    BY <1>a, <2>4 DEF Order
  <2> QED BY <1>0, <2>2, <2>3, <2>5, OrderTyped
<1>3. CASE m.type = "Executed"
  <2>1. Answered(o, m) = OnFill(o, m)
    BY <1>3 DEF Answered
  <2> DEFINE orp == o.orphan_fills \/ Terminal(o) \/ o.state = "Unknown"
             ov == o.overfills \/ m.shares > o.leaves
             le == IF m.shares > o.leaves THEN 0 ELSE o.leaves - m.shares
             st == IF le = 0 THEN "Filled" ELSE "PartiallyFilled"
  <2>2. orp \in BOOLEAN /\ ov \in BOOLEAN
    OBVIOUS
  <2>3. le \in Nat /\ st \in OrderStates /\ o.filled + m.shares \in Nat
    BY <1>0 DEF OrderStates
  <2>4. Answered(o, m) = [o EXCEPT !.orphan_fills = orp, !.overfills = ov, !.leaves = le,
                                   !.filled = o.filled + m.shares, !.state = st]
    BY <1>a, <2>1 DEF OnFill, Order
  <2> HIDE DEF orp, ov, le, st
  <2>5. Answered(o, m) = Order(st, o.original, le, o.filled + m.shares, o.illegal_transitions,
                               orp, ov)
    BY <1>a, <2>4 DEF Order
  <2> QED BY <1>0, <2>2, <2>3, <2>5, OrderTyped
<1>4. CASE m.type = "Canceled"
  <2>1. Answered(o, m) = OnCanceled(o, m)
    BY <1>4 DEF Answered
  <2> DEFINE il == Counted(o, ~Terminal(o) /\ o.state # "Unknown")
             ov == o.overfills \/ m.shares > o.leaves
             le == IF m.shares > o.leaves THEN 0 ELSE o.leaves - m.shares
             st == IF le > 0 THEN o.state
                   ELSE IF o.filled > 0 /\ o.filled = o.original THEN "Filled" ELSE "Canceled"
  <2>2. il \in BOOLEAN /\ ov \in BOOLEAN
    BY <1>0 DEF Counted
  <2>3. le \in Nat /\ st \in OrderStates
    BY <1>0 DEF OrderStates
  <2>4. Answered(o, m) = [o EXCEPT !.illegal_transitions = il, !.overfills = ov, !.leaves = le,
                                   !.state = st]
    BY <1>a, <2>1 DEF OnCanceled, Order
  <2> HIDE DEF il, ov, le, st
  <2>5. Answered(o, m) = Order(st, o.original, le, o.filled, il, o.orphan_fills, ov)
    BY <1>a, <2>4 DEF Order
  <2> QED BY <1>0, <2>2, <2>3, <2>5, OrderTyped
<1>5. CASE m.type = "Rejected"
  <2>1. Answered(o, m) = OnRejected(o)
    BY <1>5 DEF Answered
  <2> DEFINE il == Counted(o, o.state \in {"Sent", "ReplaceSent"})
  <2>2. il \in BOOLEAN
    BY <1>0 DEF Counted
  <2>4. Answered(o, m) = [o EXCEPT !.illegal_transitions = il, !.leaves = 0, !.state = "Rejected"]
    BY <2>1 DEF OnRejected
  <2> HIDE DEF il
  <2>5. Answered(o, m) = Order("Rejected", o.original, 0, o.filled, il, o.orphan_fills, o.overfills)
    BY <1>a, <2>4 DEF Order
  <2>6. "Rejected" \in OrderStates
    BY DEF OrderStates
  <2> QED BY <1>0, <2>2, <2>5, <2>6, OrderTyped
<1> QED BY <1>0, <1>1, <1>2, <1>3, <1>4, <1>5

\* The illegal count never goes back; a fill adds to the position and nothing
\* else does; and a record is not Sent again.
LEMMA AnsweredFacts ==
  ASSUME NEW o \in OrderRecord, NEW m \in AnswerType
  PROVE  /\ o.illegal_transitions => Answered(o, m).illegal_transitions
         /\ Answered(o, m).filled = o.filled + (IF m.type = "Executed" THEN m.shares ELSE 0)
         /\ o.state # "Sent" => Answered(o, m).state # "Sent"
         /\ m.type \in {"Accepted", "Rejected"} => Answered(o, m).state # "Sent"
         /\ m.type = "Accepted" /\ o.state # "Sent" => Answered(o, m).illegal_transitions
         /\ o.state # "Unknown" => Answered(o, m).state # "Unknown"
<1>0. /\ o.state \in OrderStates /\ o.original \in Nat /\ o.leaves \in Nat /\ o.filled \in Nat
      /\ o.illegal_transitions \in BOOLEAN /\ o.orphan_fills \in BOOLEAN /\ o.overfills \in BOOLEAN
      /\ m.shares \in Nat /\ m.dead \in BOOLEAN
      /\ m.type \in {"Accepted", "Replaced", "Executed", "Canceled", "Rejected"}
      /\ DOMAIN o = {"state", "original", "leaves", "filled", "illegal_transitions",
                     "orphan_fills", "overfills"}
  BY DEF OrderRecord, AnswerType
<1>1. CASE m.type = "Accepted"
  <2>1. Answered(o, m) = OnAccepted(o, m)
    BY <1>1 DEF Answered
  <2>2. /\ Answered(o, m).illegal_transitions = Counted(o, o.state = "Sent")
        /\ Answered(o, m).filled = o.filled
        /\ Answered(o, m).state \in {"Canceled", "Accepted"}
    BY <1>0, <2>1 DEF OnAccepted
  <2>3. o.illegal_transitions \/ o.state # "Sent" => Answered(o, m).illegal_transitions
    BY <2>2 DEF Counted
  <2> QED BY <1>0, <1>1, <2>2, <2>3
<1>2. CASE m.type = "Replaced"
  <2>1. Answered(o, m) = OnReplaced(o, m)
    BY <1>2 DEF Answered
  <2> QED BY <1>0, <1>2, <2>1 DEF OnReplaced, Counted
<1>3. CASE m.type = "Executed"
  <2>1. Answered(o, m) = OnFill(o, m)
    BY <1>3 DEF Answered
  <2> QED BY <1>0, <1>3, <2>1 DEF OnFill, Counted
<1>4. CASE m.type = "Canceled"
  <2>1. Answered(o, m) = OnCanceled(o, m)
    BY <1>4 DEF Answered
  <2> QED BY <1>0, <1>4, <2>1 DEF OnCanceled, Counted
<1>5. CASE m.type = "Rejected"
  <2>1. Answered(o, m) = OnRejected(o)
    BY <1>5 DEF Answered
  <2> QED BY <1>0, <1>5, <2>1 DEF OnRejected, Counted
<1> QED BY <1>0, <1>1, <1>2, <1>3, <1>4, <1>5

\* Records that the exchange's answers cannot tell apart: what is working, what
\* is filled, whether it is dead and what was out of bounds.
Alike(o, p) ==
  /\ o.leaves = p.leaves /\ o.filled = p.filled
  /\ Terminal(o) <=> Terminal(p)
  /\ o.state = "Unknown" <=> p.state = "Unknown"
  /\ o.orphan_fills = p.orphan_fills /\ o.overfills = p.overfills

\* Records alike but for the client's state stay so, whatever the answer.
LEMMA AnsweredAlike ==
  ASSUME NEW o \in OrderRecord, NEW p \in OrderRecord, Alike(o, p), NEW m \in AnswerType
  PROVE  Alike(Answered(o, m), Answered(p, m))
<1>0. /\ \A x \in {o, p} :
         /\ x.state \in OrderStates /\ x.original \in Nat /\ x.leaves \in Nat /\ x.filled \in Nat
         /\ x.illegal_transitions \in BOOLEAN /\ x.orphan_fills \in BOOLEAN /\ x.overfills \in BOOLEAN
         /\ DOMAIN x = {"state", "original", "leaves", "filled", "illegal_transitions",
                        "orphan_fills", "overfills"}
      /\ m.shares \in Nat /\ m.dead \in BOOLEAN
      /\ m.type \in {"Accepted", "Replaced", "Executed", "Canceled", "Rejected"}
  BY DEF OrderRecord, AnswerType
<1> USE DEF Alike
<1>1. CASE m.type = "Accepted"
  <2>1. Answered(o, m) = OnAccepted(o, m) /\ Answered(p, m) = OnAccepted(p, m)
    BY <1>1 DEF Answered
  <2> QED BY <1>0, <2>1 DEF OnAccepted, Terminal
<1>2. CASE m.type = "Replaced"
  <2>1. Answered(o, m) = OnReplaced(o, m) /\ Answered(p, m) = OnReplaced(p, m)
    BY <1>2 DEF Answered
  <2> QED BY <1>0, <2>1 DEF OnReplaced, Terminal
<1>3. CASE m.type = "Executed"
  <2>1. Answered(o, m) = OnFill(o, m) /\ Answered(p, m) = OnFill(p, m)
    BY <1>3 DEF Answered
  <2> QED BY <1>0, <2>1 DEF OnFill, Terminal
<1>4. CASE m.type = "Canceled"
  <2>1. Answered(o, m) = OnCanceled(o, m) /\ Answered(p, m) = OnCanceled(p, m)
    BY <1>4 DEF Answered
  <2> QED BY <1>0, <2>1 DEF OnCanceled, Terminal
<1>5. CASE m.type = "Rejected"
  <2>1. Answered(o, m) = OnRejected(o) /\ Answered(p, m) = OnRejected(p)
    BY <1>5 DEF Answered
  <2> QED BY <1>0, <2>1 DEF OnRejected, Terminal
<1> QED BY <1>0, <1>1, <1>2, <1>3, <1>4, <1>5

-----------------------------------------------------------------------------
(* Reading answers one after the other.                                    *)

\* w lists what becomes of o as the answers of s are read.
Reads(w, o, s) ==
  /\ w \in [0 .. Len(s) -> OrderRecord]
  /\ w[0] = o
  /\ \A d \in 1 .. Len(s) : w[d] = Answered(w[d - 1], s[d])

\* Reading answers one by one passes through a record after each.
LEMMA ReplayFacts ==
  ASSUME NEW o \in OrderRecord, NEW s \in Seq(AnswerType)
  PROVE  \E w : Reads(w, o, s) /\ Replay(o, s) = w[Len(s)]
<1> DEFINE n == Len(s)
           F == [d \in 1 .. n |-> [x \in OrderRecord |-> Answered(x, s[d])]]
           P(w) == w = [i \in 0 .. n |-> IF i = 0 THEN o ELSE Answered(w[i - 1], s[i])]
<1>1. n \in Nat /\ \A d \in 1 .. n : s[d] \in AnswerType
  BY LenProperties, ElementOfSeq
<1> HIDE DEF n
<1>2. F \in [1 .. n -> [OrderRecord -> OrderRecord]]
  BY <1>1, AnsweredType
<1>a. \A d \in 1 .. n : \A x \in OrderRecord : F[d][x] = Answered(x, s[d])
  OBVIOUS
<1> HIDE DEF F
<1>b. n \in Nat
  BY <1>1
<1>r. PICK w : Follows(w, OrderRecord, o, n, F)
  BY <1>b, <1>2, Recursion
<1>3. w \in [0 .. n -> OrderRecord] /\ w[0] = o /\ \A d \in 1 .. n : w[d] = F[d][w[d - 1]]
  BY <1>r DEF Follows
<1>4. \A d \in 1 .. n : w[d] = Answered(w[d - 1], s[d])
  <2> SUFFICES ASSUME NEW d \in 1 .. n PROVE w[d] = Answered(w[d - 1], s[d])
    OBVIOUS
  <2>1. w[d - 1] \in OrderRecord
    BY <1>1, <1>3
  <2> QED BY <2>1, <1>3, <1>a
<1>5. P(w)
  BY <1>1, <1>3, <1>4
<1> DEFINE r == CHOOSE x : P(x)
<1>6. P(r)
  BY <1>5
<1>7. Replay(o, s) = r[n]
  BY DEF Replay, n
<1> HIDE DEF r
<1>8. DOMAIN r = 0 .. n /\ r[0] = o /\ \A d \in 1 .. n : r[d] = Answered(r[d - 1], s[d])
  BY <1>1, <1>6
<1>9. \A i \in Nat : i <= n => r[i] \in OrderRecord
  <2> DEFINE G == {i \in Nat : i <= n => r[i] \in OrderRecord}
  <2>1. 0 \in G
    BY <1>8
  <2>2. ASSUME NEW i \in Nat, i \in G PROVE i + 1 \in G
    <3> SUFFICES ASSUME i + 1 <= n PROVE r[i + 1] \in OrderRecord
      OBVIOUS
    <3>1. r[i] \in OrderRecord
      BY <2>2, <1>1
    <3>2. r[i + 1] = Answered(r[i], s[i + 1]) /\ s[i + 1] \in AnswerType
      BY <1>1, <1>8
    <3> QED BY <3>1, <3>2, AnsweredType
  <2> HIDE DEF G
  <2>3. Nat \subseteq G
    BY <2>1, <2>2, CountingUp
  <2> QED BY <2>3 DEF G
<1>10. r \in [0 .. n -> OrderRecord]
  <2>1. r = [i \in 0 .. n |-> r[i]]
    BY <1>6
  <2> QED BY <1>1, <1>8, <1>9, <2>1
<1>11. Reads(r, o, s)
  BY <1>8, <1>10 DEF Reads, n
<1> QED BY <1>7, <1>11 DEF n

\* v and w start alike and read the first n answers of s.
ReadAlong(v, w, n, s) ==
  /\ v[0] = w[0]
  /\ \A d \in 1 .. n : v[d] = Answered(v[d - 1], s[d]) /\ w[d] = Answered(w[d - 1], s[d])

\* Two readings of the same answers agree, as far as they are the same.
LEMMA ReadsAgree ==
  ASSUME NEW v, NEW w, NEW n \in Nat, NEW s, ReadAlong(v, w, n, s)
  PROVE  v[n] = w[n]
<1>a. /\ v[0] = w[0]
      /\ \A d \in 1 .. n : v[d] = Answered(v[d - 1], s[d]) /\ w[d] = Answered(w[d - 1], s[d])
  BY DEF ReadAlong
<1> DEFINE G == {i \in Nat : i <= n => v[i] = w[i]}
<1>1. 0 \in G
  BY <1>a
<1>2. ASSUME NEW i \in Nat, i \in G PROVE i + 1 \in G
  <2> SUFFICES ASSUME i + 1 <= n PROVE v[i + 1] = w[i + 1]
    OBVIOUS
  <2>1. v[i] = w[i]
    BY <1>2
  <2>2. i + 1 \in 1 .. n /\ (i + 1) - 1 = i
    OBVIOUS
  <2> QED BY <1>a, <2>1, <2>2
<1> HIDE DEF G
<1>3. Nat \subseteq G
  BY <1>1, <1>2, CountingUp
<1> QED BY <1>3 DEF G

\* No answer changes nothing.
LEMMA ReplayEmpty ==
  ASSUME NEW o \in OrderRecord
  PROVE  Replay(o, <<>>) = o
<1>1. <<>> \in Seq(AnswerType) /\ Len(<<>>) = 0
  BY EmptySeq
<1>2. PICK w : Reads(w, o, <<>>) /\ Replay(o, <<>>) = w[Len(<<>>)]
  BY <1>1, ReplayFacts
<1>3. w[0] = o
  BY <1>2 DEF Reads
<1> QED BY <1>1, <1>2, <1>3

\* Answers leave a record of the order.
LEMMA ReplayType ==
  ASSUME NEW o \in OrderRecord, NEW s \in Seq(AnswerType)
  PROVE  Replay(o, s) \in OrderRecord
<1>1. PICK w : Reads(w, o, s) /\ Replay(o, s) = w[Len(s)]
  BY ReplayFacts
<1> QED BY <1>1, LenProperties DEF Reads

\* One answer more is read after the others.
LEMMA ReplayAppend ==
  ASSUME NEW o \in OrderRecord, NEW s \in Seq(AnswerType), NEW m \in AnswerType
  PROVE  Replay(o, Append(s, m)) = Answered(Replay(o, s), m)
<1> DEFINE t == Append(s, m)
           n == Len(s)
<1>1. /\ t \in Seq(AnswerType) /\ Len(t) = n + 1 /\ n \in Nat
      /\ \A i \in 1 .. n : t[i] = s[i]
      /\ t[n + 1] = m
  BY AppendProperties, LenProperties
<1> HIDE DEF t
<1>2. PICK v : Reads(v, o, t) /\ Replay(o, t) = v[Len(t)]
  BY <1>1, ReplayFacts
<1>3. PICK w : Reads(w, o, s) /\ Replay(o, s) = w[n]
  BY ReplayFacts
<1> HIDE DEF n
<1>4. /\ v[0] = o /\ w[0] = o
      /\ \A d \in 1 .. n : v[d] = Answered(v[d - 1], s[d]) /\ w[d] = Answered(w[d - 1], s[d])
      /\ v[n + 1] = Answered(v[n], m)
  <2>1. \A d \in 1 .. n + 1 : v[d] = Answered(v[d - 1], t[d])
    BY <1>1, <1>2 DEF Reads
  <2>2. \A d \in 1 .. n : w[d] = Answered(w[d - 1], s[d])
    BY <1>3 DEF Reads, n
  <2>3. v[n + 1] = Answered(v[(n + 1) - 1], t[n + 1]) /\ (n + 1) - 1 = n
    BY <1>1, <2>1
  <2> QED BY <1>1, <1>2, <1>3, <2>1, <2>2, <2>3 DEF Reads
<1>a. v[0] = w[0] /\ n \in Nat
  BY <1>1, <1>4
<1>b. \A d \in 1 .. n : v[d] = Answered(v[d - 1], s[d]) /\ w[d] = Answered(w[d - 1], s[d])
  BY <1>4
<1>c. ReadAlong(v, w, n, s)
  BY <1>a, <1>b DEF ReadAlong
<1>5. v[n] = w[n]
  BY <1>a, <1>c, ReadsAgree
<1> QED BY <1>1, <1>2, <1>3, <1>4, <1>5 DEF t

\* The first answer may be read first.
LEMMA ReplayTail ==
  ASSUME NEW o \in OrderRecord, NEW s \in Seq(AnswerType), s # <<>>
  PROVE  Replay(o, s) = Replay(Answered(o, Head(s)), Tail(s))
<1> DEFINE t == Tail(s)
           n == Len(t)
           p == Answered(o, Head(s))
<1>1. /\ t \in Seq(AnswerType) /\ Len(s) = n + 1 /\ n \in Nat
      /\ \A i \in 1 .. n : t[i] = s[i + 1]
      /\ Head(s) = s[1] /\ s[1] \in AnswerType
  <2>1. Len(s) \in Nat /\ Len(s) > 0 /\ Head(s) = s[1] /\ s[1] \in AnswerType
    BY LenProperties, EmptySeq, ElementOfSeq
  <2> QED BY <2>1, HeadTailProperties, LenProperties
<1>2. p \in OrderRecord
  BY <1>1, AnsweredType
<1> HIDE DEF t, p
<1>3. PICK v : Reads(v, o, s) /\ Replay(o, s) = v[Len(s)]
  BY ReplayFacts
<1>4. PICK w : Reads(w, p, t) /\ Replay(p, t) = w[n]
  BY <1>1, <1>2, ReplayFacts
<1> HIDE DEF n
<1> DEFINE u == [i \in 0 .. n |-> v[i + 1]]
<1>5. u[0] = w[0]
  <2>1. v[1] = Answered(v[1 - 1], s[1]) /\ v[0] = o
    BY <1>1, <1>3 DEF Reads
  <2> QED BY <1>1, <1>4, <2>1 DEF Reads, p
<1>6. \A d \in 1 .. n : u[d] = Answered(u[d - 1], t[d]) /\ w[d] = Answered(w[d - 1], t[d])
  <2> SUFFICES ASSUME NEW d \in 1 .. n
               PROVE  u[d] = Answered(u[d - 1], t[d]) /\ w[d] = Answered(w[d - 1], t[d])
    OBVIOUS
  <2>1. v[d + 1] = Answered(v[(d + 1) - 1], s[d + 1]) /\ (d + 1) - 1 = d
    BY <1>1, <1>3 DEF Reads
  <2>2. u[d] = v[d + 1] /\ u[d - 1] = v[d]
    BY <1>1
  <2>3. w[d] = Answered(w[d - 1], t[d])
    BY <1>4 DEF Reads, n
  <2> QED BY <1>1, <2>1, <2>2, <2>3
<1>7. u[n] = v[n + 1]
  BY <1>1
<1> HIDE DEF u
<1>a. n \in Nat
  BY <1>1
<1>b. ReadAlong(u, w, n, t)
  BY <1>5, <1>6 DEF ReadAlong
<1>8. u[n] = w[n]
  BY <1>a, <1>b, ReadsAgree
<1> QED BY <1>1, <1>3, <1>4, <1>7, <1>8 DEF t, p

\* Records alike stay so, whatever the answers.
LEMMA ReplayAlike ==
  ASSUME NEW o \in OrderRecord, NEW p \in OrderRecord, Alike(o, p), NEW s \in Seq(AnswerType)
  PROVE  Alike(Replay(o, s), Replay(p, s))
<1> DEFINE n == Len(s)
<1>1. n \in Nat /\ \A d \in 1 .. n : s[d] \in AnswerType
  BY LenProperties, ElementOfSeq
<1>2. PICK v : Reads(v, o, s) /\ Replay(o, s) = v[n]
  BY ReplayFacts
<1>3. PICK w : Reads(w, p, s) /\ Replay(p, s) = w[n]
  BY ReplayFacts
<1> DEFINE G == {i \in Nat : i <= n => Alike(v[i], w[i])}
<1>4. 0 \in G
  BY <1>2, <1>3 DEF Reads
<1>5. ASSUME NEW i \in Nat, i \in G PROVE i + 1 \in G
  <2> SUFFICES ASSUME i + 1 <= n PROVE Alike(v[i + 1], w[i + 1])
    OBVIOUS
  <2>1. v[i] \in OrderRecord /\ w[i] \in OrderRecord /\ Alike(v[i], w[i])
    BY <1>1, <1>2, <1>3, <1>5 DEF Reads
  <2>2. i + 1 \in 1 .. n /\ (i + 1) - 1 = i
    BY <1>1
  <2>3. v[i + 1] = Answered(v[i], s[i + 1]) /\ w[i + 1] = Answered(w[i], s[i + 1])
    BY <1>2, <1>3, <2>2 DEF Reads
  <2> QED BY <1>1, <2>1, <2>2, <2>3, AnsweredAlike
<1> HIDE DEF G
<1>6. Nat \subseteq G
  BY <1>4, <1>5, CountingUp
<1> QED BY <1>1, <1>2, <1>3, <1>6 DEF G

\* An Accepted that finds the record not Sent leaves its mark on what follows.
LEMMA ReplayIllegal ==
  ASSUME NEW o \in OrderRecord, NEW s \in Seq(AnswerType),
         \/ o.illegal_transitions
         \/ \E k \in DOMAIN s :
              /\ s[k].type = "Accepted"
              /\ o.state = "Sent" => k >= 2 /\ s[1].type \in {"Accepted", "Rejected"}
  PROVE  Replay(o, s).illegal_transitions
<1> DEFINE n == Len(s)
<1>1. n \in Nat /\ DOMAIN s = 1 .. n /\ \A d \in 1 .. n : s[d] \in AnswerType
  BY LenProperties, ElementOfSeq
<1>2. PICK w : Reads(w, o, s) /\ Replay(o, s) = w[n]
  BY ReplayFacts
<1>3. /\ \A i \in 0 .. n : w[i] \in OrderRecord
      /\ w[0] = o
      /\ \A d \in 1 .. n : w[d] = Answered(w[d - 1], s[d])
  BY <1>2 DEF Reads
<1> HIDE DEF n
<1>4. ASSUME NEW k \in 0 .. n, w[k].illegal_transitions PROVE w[n].illegal_transitions
  <2> DEFINE G == {i \in Nat : k <= i /\ i <= n => w[i].illegal_transitions}
  <2>1. 0 \in G
    BY <1>1, <1>4
  <2>2. ASSUME NEW i \in Nat, i \in G PROVE i + 1 \in G
    <3> SUFFICES ASSUME k <= i + 1, i + 1 <= n PROVE w[i + 1].illegal_transitions
      OBVIOUS
    <3>1. CASE k = i + 1
      BY <3>1, <1>4
    <3>2. CASE k <= i
      <4>1. w[i].illegal_transitions /\ w[i] \in OrderRecord
        BY <3>2, <2>2, <1>1, <1>3
      <4>2. i + 1 \in 1 .. n /\ (i + 1) - 1 = i
        BY <1>1
      <4>3. w[i + 1] = Answered(w[i], s[i + 1]) /\ s[i + 1] \in AnswerType
        BY <1>1, <1>3, <4>2
      <4> QED BY <4>1, <4>3, AnsweredFacts
    <3> QED BY <3>1, <3>2
  <2> HIDE DEF G
  <2>3. Nat \subseteq G
    BY <2>1, <2>2, CountingUp
  <2> QED BY <2>3, <1>1 DEF G
<1>5. CASE o.illegal_transitions
  BY <1>1, <1>2, <1>3, <1>4, <1>5
<1>6. CASE \E k \in DOMAIN s :
              /\ s[k].type = "Accepted"
              /\ o.state = "Sent" => k >= 2 /\ s[1].type \in {"Accepted", "Rejected"}
  <2>1. PICK k \in 1 .. n :
              /\ s[k].type = "Accepted"
              /\ o.state = "Sent" => k >= 2 /\ s[1].type \in {"Accepted", "Rejected"}
    BY <1>1, <1>6
  <2> DEFINE Past(i) == \/ w[i].state # "Sent"
                        \/ i = 0 /\ o.state = "Sent"
             G == {i \in Nat : i <= n => Past(i)}
  <2>2. 0 \in G
    <3>1. w[0] = o
      BY <1>3
    <3>2. Past(0)
      BY <3>1
    <3> QED BY <3>2
  <2>3. ASSUME NEW i \in Nat, i \in G PROVE i + 1 \in G
    <3> SUFFICES ASSUME i + 1 <= n PROVE Past(i + 1)
      BY <2>3
    <3> SUFFICES w[i + 1].state # "Sent"
      OBVIOUS
    <3>1. w[i] \in OrderRecord /\ (w[i].state # "Sent" \/ (i = 0 /\ o.state = "Sent"))
      BY <2>3, <1>1, <1>3
    <3>2. i + 1 \in 1 .. n /\ (i + 1) - 1 = i
      BY <1>1
    <3>3. w[i + 1] = Answered(w[i], s[i + 1]) /\ s[i + 1] \in AnswerType
      BY <1>1, <1>3, <3>2
    <3>4. i = 0 /\ o.state = "Sent" => s[i + 1].type \in {"Accepted", "Rejected"}
      BY <2>1
    <3> QED BY <3>1, <3>3, <3>4, AnsweredFacts
  <2> HIDE DEF G
  <2>4. Nat \subseteq G
    BY <2>2, <2>3, CountingUp
  <2>5. k - 1 \in Nat /\ k - 1 <= n /\ w[k - 1] \in OrderRecord /\ s[k] \in AnswerType
    BY <1>1, <1>3
  <2>6. w[k - 1].state # "Sent"
    BY <2>1, <2>4, <2>5 DEF G
  <2>7. w[k] = Answered(w[k - 1], s[k])
    BY <1>3
  <2>8. w[k].illegal_transitions
    BY <2>1, <2>5, <2>6, <2>7, AnsweredFacts
  <2> QED BY <1>1, <1>2, <1>4, <2>8
<1> QED BY <1>5, <1>6

-----------------------------------------------------------------------------
(* The steps.                                                              *)

\* An exchange's order, field by field.
OrderAt(state, leaves, executed, accepted, canceled, late) ==
  [state |-> state, leaves |-> leaves, executed |-> executed, accepted |-> accepted,
   canceled |-> canceled, late |-> late]

\* What the fields of the exchange's order are.
LEMMA VenueFields ==
  ASSUME NEW v \in VenueType
  PROVE  /\ v.state \in {"none", "live", "dead"}
         /\ v.leaves \in Nat /\ v.executed \in Nat /\ v.accepted \in Nat
         /\ v.canceled \in Nat /\ v.late \in Nat
         /\ v = OrderAt(v.state, v.leaves, v.executed, v.accepted, v.canceled, v.late)
BY DEF VenueType, OrderAt

\* The types of all there is, one fact each.
LEMMA TypedOrder ==
  ASSUME OrderInv
  PROVE  /\ client \in OrderRecord /\ venue \in VenueType /\ resent \in BOOLEAN
         /\ inbound \in Seq(RequestType) /\ outbound \in Seq(AnswerType)
         /\ Len(inbound) \in Nat /\ DOMAIN inbound = 1 .. Len(inbound)
         /\ Len(outbound) \in Nat /\ DOMAIN outbound = 1 .. Len(outbound)
         /\ \A i \in DOMAIN inbound : inbound[i] \in RequestType
         /\ \A i \in DOMAIN outbound : outbound[i] \in AnswerType
         /\ Caught \in OrderRecord
<1>1. client \in OrderRecord /\ venue \in VenueType /\ resent \in BOOLEAN
      /\ inbound \in Seq(RequestType) /\ outbound \in Seq(AnswerType)
  BY DEF OrderInv, OrderTypeOK
<1>2. Caught \in OrderRecord
  BY <1>1, ReplayType DEF Caught
<1> QED BY <1>1, <1>2, LenProperties, ElementOfSeq

\* The requests left once the first is read.
LEMMA ReadOne ==
  ASSUME OrderInv, inbound # <<>>, inbound' = Tail(inbound)
  PROVE  /\ Head(inbound) = inbound[1] /\ inbound[1] \in RequestType /\ 1 \in DOMAIN inbound
         /\ inbound' \in Seq(RequestType)
         /\ \A i \in DOMAIN inbound' : /\ i \in Nat /\ i >= 1 /\ i + 1 \in DOMAIN inbound
                                       /\ inbound'[i] = inbound[i + 1]
         /\ client.state # "Unknown"
<1>1. /\ inbound \in Seq(RequestType) /\ Len(inbound) \in Nat /\ DOMAIN inbound = 1 .. Len(inbound)
      /\ \A i \in DOMAIN inbound : inbound[i] \in RequestType
  BY TypedOrder
<1>2. Len(inbound) > 0 /\ Head(inbound) = inbound[1]
  BY <1>1, EmptySeq
<1>3. /\ Tail(inbound) \in Seq(RequestType) /\ Len(Tail(inbound)) = Len(inbound) - 1
      /\ \A i \in 1 .. Len(Tail(inbound)) : Tail(inbound)[i] = inbound[i + 1]
  BY <1>1, HeadTailProperties
<1>4. DOMAIN inbound' = 1 .. Len(inbound) - 1
  BY <1>3, LenProperties
<1>5. client.state # "Unknown"
  BY DEF OrderInv, Beginnings
<1> QED BY <1>1, <1>2, <1>3, <1>4, <1>5

\* Answers that say what the exchange did to the order keep the two in step.
LEMMA ExtendKeeps ==
  ASSUME OrderInv, NEW v \in VenueType, venue.state # "none", venue' = v, client' = client,
         outbound' \in Seq(AnswerType), Len(outbound') > Len(outbound),
         \A i \in DOMAIN outbound : outbound'[i] = outbound[i],
         inbound' = inbound \/ (inbound # <<>> /\ inbound' = Tail(inbound)),
         resent' \in BOOLEAN, resent => resent',
         resent' => resent \/ outbound'[Len(outbound')].type = "Accepted",
         v.state # "none", v.state = "live" <=> v.leaves > 0,
         Caught'.filled = v.executed, Caught'.state # "Unknown",
         ~ resent' => /\ Caught'.leaves = v.leaves /\ (Terminal(Caught') <=> v.state = "dead")
                      /\ Caught'.orphan_fills <=> v.late > 0
                      /\ Caught'.overfills <=> v.late > 0
  PROVE  OrderInv'
<1>1. /\ client \in OrderRecord /\ venue \in VenueType /\ resent \in BOOLEAN
      /\ inbound \in Seq(RequestType) /\ outbound \in Seq(AnswerType)
      /\ Len(outbound) \in Nat /\ DOMAIN outbound = 1 .. Len(outbound)
      /\ DOMAIN inbound = 1 .. Len(inbound)
  BY TypedOrder
<1>2. Len(outbound') \in Nat /\ DOMAIN outbound' = 1 .. Len(outbound')
  BY LenProperties
<1>3. \A i \in DOMAIN outbound : i \in DOMAIN outbound'
  BY <1>1, <1>2
<1>5. inbound' \in Seq(RequestType) /\ client.state # "Unknown"
  BY <1>1, ReadOne DEF OrderInv, Beginnings
<1>6. OrderTypeOK'
  BY <1>1, <1>5 DEF OrderTypeOK
<1>7. Beginnings'
  BY <1>5 DEF Beginnings
<1>8. RequestsInOrder'
  <2>1. \A i \in DOMAIN inbound :
           /\ inbound[i].type = "Enter" => i = 1 /\ venue.state = "none"
           /\ inbound[i].type = "Replace" => inbound[i].shares > 0
    BY DEF OrderInv, RequestsInOrder
  <2>2. CASE inbound' = inbound
    BY <2>1, <2>2 DEF RequestsInOrder
  <2>3. CASE inbound # <<>> /\ inbound' = Tail(inbound)
    <3>1. \A i \in DOMAIN inbound' : /\ i \in Nat /\ i >= 1 /\ i + 1 \in DOMAIN inbound
                                     /\ inbound'[i] = inbound[i + 1]
      BY <2>3, ReadOne
    <3> QED BY <2>1, <3>1 DEF RequestsInOrder
  <2> QED BY <2>2, <2>3
<1>9. VenueWorks'
  BY DEF VenueWorks
<1>10. FirstAnswerAhead'
  <2>1. client.state = "Sent" => /\ 1 \in DOMAIN outbound
                                 /\ outbound[1].type \in {"Accepted", "Rejected"}
    <3>1. client.state = "Sent" =>
            outbound # <<>> /\ outbound[1].type \in {"Accepted", "Rejected"}
      BY DEF OrderInv, FirstAnswerAhead
    <3> QED BY <1>1, <3>1, EmptySeq
  <2>2. client.state = "Sent" => outbound'[1].type \in {"Accepted", "Rejected"}
    BY <2>1
  <2>3. outbound' # <<>>
    BY <1>1, <1>2
  <2> QED BY <2>2, <2>3 DEF FirstAnswerAhead
<1>11. ResentIsSeen'
  <2>1. CASE resent
    <3>1. \/ client.illegal_transitions
          \/ \E i \in DOMAIN outbound :
               /\ outbound[i].type = "Accepted"
               /\ client.state = "Sent" => i >= 2
      BY <2>1 DEF OrderInv, ResentIsSeen
    <3> QED BY <3>1, <1>3 DEF ResentIsSeen
  <2>2. CASE outbound'[Len(outbound')].type = "Accepted"
    <3>1. client.state = "Sent" => Len(outbound) >= 1
      BY <1>1, EmptySeq DEF OrderInv, FirstAnswerAhead
    <3>2. Len(outbound') \in DOMAIN outbound' /\ (Len(outbound) >= 1 => Len(outbound') >= 2)
      BY <1>1, <1>2
    <3> QED BY <2>2, <3>1, <3>2 DEF ResentIsSeen
  <2> QED BY <2>1, <2>2 DEF ResentIsSeen
<1>12. CaughtUp'
  <2> HIDE DEF Caught
  <2> QED BY DEF CaughtUp, Agrees, Terminal
<1> QED BY <1>6, <1>7, <1>8, <1>9, <1>10, <1>11, <1>12 DEF OrderInv

\* So does one.
LEMMA SendKeeps ==
  ASSUME OrderInv, NEW v \in VenueType, NEW m \in AnswerType,
         venue.state # "none", Send(v, m), client' = client,
         inbound' = inbound \/ (inbound # <<>> /\ inbound' = Tail(inbound)),
         resent' \in BOOLEAN, resent => resent', resent' => resent \/ m.type = "Accepted",
         v.state # "none", v.state = "live" <=> v.leaves > 0,
         v.executed = venue.executed + (IF m.type = "Executed" THEN m.shares ELSE 0),
         ~ resent' => LET o == Answered(Caught, m)
                      IN /\ o.leaves = v.leaves /\ (Terminal(o) <=> v.state = "dead")
                         /\ o.orphan_fills <=> v.late > 0
                         /\ o.overfills <=> v.late > 0
  PROVE  OrderInv'
<1>1. /\ client \in OrderRecord /\ outbound \in Seq(AnswerType) /\ Caught \in OrderRecord
      /\ Len(outbound) \in Nat /\ DOMAIN outbound = 1 .. Len(outbound)
  BY TypedOrder
<1>2. venue' = v /\ outbound' = Append(outbound, m)
  BY DEF Send
<1>3. /\ outbound' \in Seq(AnswerType) /\ Len(outbound') = Len(outbound) + 1
      /\ \A i \in DOMAIN outbound : outbound'[i] = outbound[i]
      /\ outbound'[Len(outbound')] = m
  BY <1>1, <1>2, AppendProperties
<1>4. Caught' = Answered(Caught, m)
  BY <1>1, <1>2, ReplayAppend DEF Caught
<1>5. Caught.filled = venue.executed /\ Caught.state # "Unknown"
  BY DEF OrderInv, CaughtUp
<1>6. /\ Answered(Caught, m).filled =
           Caught.filled + (IF m.type = "Executed" THEN m.shares ELSE 0)
      /\ Answered(Caught, m).state # "Unknown"
  BY <1>1, <1>5, AnsweredFacts
<1> HIDE DEF Caught
<1>7. Len(outbound') > Len(outbound)
  BY <1>1, <1>3
<1>8. ~ resent' => /\ Caught'.leaves = v.leaves /\ (Terminal(Caught') <=> v.state = "dead")
                   /\ Caught'.orphan_fills <=> v.late > 0
                   /\ Caught'.overfills <=> v.late > 0
  BY <1>4 DEF Terminal
<1> QED BY <1>2, <1>3, <1>4, <1>5, <1>6, <1>7, <1>8, ExtendKeeps

\* A request whose record the answers cannot tell from the one before it.
LEMMA RequestKeeps ==
  ASSUME OrderInv, NEW o \in OrderRecord, NEW m \in RequestType,
         Request(o, m), Alike(o, client), client.state # "Unknown", o.state # "Sent",
         client.illegal_transitions => o.illegal_transitions,
         m.type # "Enter", m.type = "Replace" => m.shares > 0,
         venue.state = "none" => o.state \in {"Unknown", "Sent", "CancelSent"}
  PROVE  OrderInv'
<1>1. /\ client \in OrderRecord /\ venue \in VenueType /\ resent \in BOOLEAN
      /\ inbound \in Seq(RequestType) /\ outbound \in Seq(AnswerType)
      /\ Len(inbound) \in Nat /\ DOMAIN inbound = 1 .. Len(inbound)
      /\ Len(outbound) \in Nat /\ DOMAIN outbound = 1 .. Len(outbound)
      /\ Caught \in OrderRecord
  BY TypedOrder
<1>2. /\ client' = o /\ inbound' = Append(inbound, m)
      /\ venue' = venue /\ outbound' = outbound /\ resent' = resent
  BY DEF Request
<1>3. /\ inbound' \in Seq(RequestType) /\ DOMAIN inbound' = 1 .. Len(inbound) + 1
      /\ \A i \in DOMAIN inbound : i \in DOMAIN inbound' /\ inbound'[i] = inbound[i]
      /\ inbound'[Len(inbound) + 1] = m
  <2>1. /\ Append(inbound, m) \in Seq(RequestType)
        /\ Len(Append(inbound, m)) = Len(inbound) + 1
        /\ \A i \in 1 .. Len(inbound) : Append(inbound, m)[i] = inbound[i]
        /\ Append(inbound, m)[Len(inbound) + 1] = m
    BY <1>1, AppendProperties
  <2> QED BY <1>1, <1>2, <2>1, LenProperties
<1>4. Alike(Caught', Caught)
  BY <1>1, <1>2, ReplayAlike DEF Caught
<1>5. o.state # "Unknown" /\ o.filled = client.filled
      /\ o.orphan_fills = client.orphan_fills /\ o.overfills = client.overfills
  BY DEF Alike
<1>6. OrderTypeOK'
  BY <1>1, <1>2, <1>3 DEF OrderTypeOK
<1>7. Beginnings'
  <2>1. venue.state = "none" =>
          /\ venue.leaves = 0 /\ venue.executed = 0 /\ venue.accepted = 0 /\ venue.late = 0
          /\ outbound = <<>> /\ ~ resent
          /\ client.filled = 0 /\ ~ client.orphan_fills /\ ~ client.overfills
          /\ inbound # <<>> /\ inbound[1].type = "Enter"
    BY DEF OrderInv, Beginnings
  <2>2. inbound # <<>> => 1 \in DOMAIN inbound
    BY <1>1, EmptySeq
  <2>3. inbound' # <<>>
    BY <1>1, <1>3
  <2> QED BY <1>2, <1>3, <1>5, <2>1, <2>2, <2>3 DEF Beginnings
<1>8. RequestsInOrder'
  <2>1. \A i \in DOMAIN inbound :
           /\ inbound[i].type = "Enter" => i = 1 /\ venue.state = "none"
           /\ inbound[i].type = "Replace" => inbound[i].shares > 0
    BY DEF OrderInv, RequestsInOrder
  <2> QED BY <1>1, <1>2, <1>3, <2>1 DEF RequestsInOrder
<1>9. VenueWorks'
  BY <1>2 DEF OrderInv, VenueWorks
<1>10. FirstAnswerAhead'
  BY <1>2 DEF FirstAnswerAhead
<1>11. ResentIsSeen'
  BY <1>2 DEF OrderInv, ResentIsSeen
<1>12. CaughtUp'
  <2> HIDE DEF Caught
  <2> QED BY <1>2, <1>4 DEF OrderInv, CaughtUp, Agrees, Alike
<1> QED BY <1>6, <1>7, <1>8, <1>9, <1>10, <1>11, <1>12 DEF OrderInv

\* The client enters its order.
LEMMA EnterKeeps ==
  ASSUME OrderInv, Enter
  PROVE  OrderInv'
<1>1. /\ client \in OrderRecord /\ venue \in VenueType /\ resent \in BOOLEAN
      /\ outbound \in Seq(AnswerType)
  BY TypedOrder
<1>2. /\ client = Unknown /\ inbound = <<>> /\ venue.state = "none"
      /\ venue.leaves = 0 /\ venue.executed = 0 /\ venue.accepted = 0 /\ venue.late = 0
      /\ outbound = <<>> /\ ~ resent
  BY DEF OrderInv, Beginnings, Enter
<1>3. PICK shares \in 1 .. MaxShares :
         Request(OnSent(client, shares), [type |-> "Enter", shares |-> shares])
  BY DEF Enter
<1> DEFINE m == [type |-> "Enter", shares |-> shares]
<1>4. shares \in Nat /\ m \in RequestType
  BY OrderAssumption DEF RequestType
<1>5. OnSent(client, shares) = Order("Sent", shares, shares, 0, FALSE, FALSE, FALSE)
  <2>1. client = Order("Unknown", 0, 0, 0, FALSE, FALSE, FALSE)
    BY <1>2 DEF Unknown, Order
  <2>2. Counted(client, client.state = "Unknown") = FALSE
    BY <2>1 DEF Counted, Order
  <2>3. OnSent(client, shares) =
          [client EXCEPT !.illegal_transitions = FALSE, !.original = shares, !.leaves = shares,
                         !.filled = 0, !.state = "Sent"]
    BY <2>2 DEF OnSent
  <2> QED BY <2>1, <2>3 DEF Order
<1>6. /\ client' = Order("Sent", shares, shares, 0, FALSE, FALSE, FALSE) /\ inbound' = <<m>>
      /\ venue' = venue /\ outbound' = outbound /\ resent' = resent
  BY <1>2, <1>3, <1>5 DEF Request
<1>7. /\ inbound' \in Seq(RequestType) /\ inbound' # <<>> /\ DOMAIN inbound' = {1}
      /\ inbound'[1] = m
  BY <1>4, <1>6
<1>8. /\ client'.state = "Sent" /\ client'.filled = 0 /\ ~ client'.orphan_fills
      /\ ~ client'.overfills
  BY <1>6 DEF Order
<1>9. client' \in OrderRecord
  <2>1. "Sent" \in OrderStates
    BY DEF OrderStates
  <2> QED BY <1>4, <1>6, <2>1, OrderTyped
<1>10. OrderTypeOK'
  BY <1>1, <1>6, <1>7, <1>9 DEF OrderTypeOK
<1>11. Beginnings' /\ RequestsInOrder'
  <2>1. m.type = "Enter"
    OBVIOUS
  <2>2. Beginnings'
    BY <1>2, <1>6, <1>7, <1>8, <2>1 DEF Beginnings
  <2>3. \A i \in DOMAIN inbound' : i = 1 /\ inbound'[i].type = "Enter"
    BY <1>7, <2>1
  <2>4. RequestsInOrder'
    BY <1>2, <1>6, <2>3 DEF RequestsInOrder
  <2> QED BY <2>2, <2>4
<1>12. VenueWorks' /\ FirstAnswerAhead' /\ ResentIsSeen' /\ CaughtUp'
  BY <1>2, <1>6 DEF OrderInv, VenueWorks, FirstAnswerAhead, ResentIsSeen, CaughtUp
<1> QED BY <1>10, <1>11, <1>12 DEF OrderInv

\* The client asks for a cancel.
LEMMA CancelKeeps ==
  ASSUME OrderInv, Cancel
  PROVE  OrderInv'
<1>1. client \in OrderRecord
  BY TypedOrder
<1>2. client.state \in {"Accepted", "PartiallyFilled", "Sent"}
  BY DEF Cancel
<1>3. PICK shares \in 0 .. MaxShares :
         Request(OnCancelSent(client), [type |-> "Cancel", shares |-> shares])
  BY DEF Cancel
<1> DEFINE m == [type |-> "Cancel", shares |-> shares]
           o == OnCancelSent(client)
           il == Counted(client, client.state \in {"Accepted", "PartiallyFilled", "Sent"})
<1>4. m \in RequestType /\ m.type = "Cancel"
  BY OrderAssumption DEF RequestType
<1>5. il \in BOOLEAN /\ (client.illegal_transitions => il)
  BY <1>1 DEF Counted
<1>6. o = [client EXCEPT !.illegal_transitions = il, !.state = "CancelSent"]
  BY DEF OnCancelSent
<1> HIDE DEF il, o, m
<1>a. client = Order(client.state, client.original, client.leaves, client.filled,
                     client.illegal_transitions, client.orphan_fills, client.overfills)
  BY <1>1, OrderFields
<1>7. o = Order("CancelSent", client.original, client.leaves, client.filled, il,
                client.orphan_fills, client.overfills)
  BY <1>6, <1>a DEF Order
<1>8. o \in OrderRecord
  <2>1. "CancelSent" \in OrderStates
    BY DEF OrderStates
  <2> QED BY <1>1, <1>5, <1>7, <2>1, OrderFields, OrderTyped
<1>9. Alike(o, client) /\ o.state = "CancelSent" /\ o.illegal_transitions = il
  BY <1>2, <1>7 DEF Alike, Terminal, Order
<1>10. Request(o, m)
  BY <1>3 DEF o, m
<1> QED BY <1>2, <1>4, <1>5, <1>8, <1>9, <1>10, RequestKeeps

\* The client asks for a replacement.
LEMMA ReplaceKeeps ==
  ASSUME OrderInv, ReplaceOrder
  PROVE  OrderInv'
<1>1. client \in OrderRecord
  BY TypedOrder
<1>2. client.state \in {"Accepted", "PartiallyFilled"} /\ venue.state # "none"
  BY DEF ReplaceOrder, OrderInv, Beginnings
<1>3. PICK shares \in 1 .. MaxShares :
         Request(OnReplaceSent(client), [type |-> "Replace", shares |-> shares])
  BY DEF ReplaceOrder
<1> DEFINE m == [type |-> "Replace", shares |-> shares]
           o == OnReplaceSent(client)
           il == Counted(client, client.state \in {"Accepted", "PartiallyFilled"})
<1>4. m \in RequestType /\ m.type = "Replace" /\ m.shares > 0
  BY OrderAssumption DEF RequestType
<1>5. il \in BOOLEAN /\ (client.illegal_transitions => il)
  BY <1>1 DEF Counted
<1>6. o = [client EXCEPT !.illegal_transitions = il, !.state = "ReplaceSent"]
  BY DEF OnReplaceSent
<1> HIDE DEF il, o, m
<1>a. client = Order(client.state, client.original, client.leaves, client.filled,
                     client.illegal_transitions, client.orphan_fills, client.overfills)
  BY <1>1, OrderFields
<1>7. o = Order("ReplaceSent", client.original, client.leaves, client.filled, il,
                client.orphan_fills, client.overfills)
  BY <1>6, <1>a DEF Order
<1>8. o \in OrderRecord
  <2>1. "ReplaceSent" \in OrderStates
    BY DEF OrderStates
  <2> QED BY <1>1, <1>5, <1>7, <2>1, OrderFields, OrderTyped
<1>9. Alike(o, client) /\ o.state = "ReplaceSent" /\ o.illegal_transitions = il
  BY <1>2, <1>7 DEF Alike, Terminal, Order
<1>10. Request(o, m)
  BY <1>3 DEF o, m
<1> QED BY <1>2, <1>4, <1>5, <1>8, <1>9, <1>10, RequestKeeps

\* The client reads an answer: what is left to read says the same.
LEMMA DeliverKeeps ==
  ASSUME OrderInv, Deliver
  PROVE  OrderInv'
<1>1. /\ client \in OrderRecord /\ venue \in VenueType /\ resent \in BOOLEAN
      /\ inbound \in Seq(RequestType) /\ outbound \in Seq(AnswerType)
      /\ Len(outbound) \in Nat /\ DOMAIN outbound = 1 .. Len(outbound)
      /\ \A i \in DOMAIN outbound : outbound[i] \in AnswerType
  BY TypedOrder
<1> DEFINE m == Head(outbound)
<1>2. /\ outbound # <<>> /\ client' = Answered(client, m) /\ outbound' = Tail(outbound)
      /\ venue' = venue /\ inbound' = inbound /\ resent' = resent
  BY DEF Deliver
<1>3. /\ m = outbound[1] /\ m \in AnswerType /\ outbound' \in Seq(AnswerType)
      /\ DOMAIN outbound' = 1 .. Len(outbound) - 1
      /\ \A i \in DOMAIN outbound' : outbound'[i] = outbound[i + 1]
  <2>1. Len(outbound) > 0 /\ m = outbound[1]
    BY <1>1, <1>2, EmptySeq
  <2>2. /\ Tail(outbound) \in Seq(AnswerType) /\ Len(Tail(outbound)) = Len(outbound) - 1
        /\ \A i \in 1 .. Len(Tail(outbound)) : Tail(outbound)[i] = outbound[i + 1]
    BY <1>1, <1>2, HeadTailProperties
  <2> QED BY <1>1, <1>2, <2>1, <2>2, LenProperties
<1>4. Caught' = Caught
  BY <1>1, <1>2, ReplayTail DEF Caught
<1> HIDE DEF m
<1>5. venue.state # "none" /\ client.state # "Unknown"
  BY <1>2 DEF OrderInv, Beginnings
<1>6. /\ client' \in OrderRecord /\ client'.state # "Unknown"
      /\ client.illegal_transitions => client'.illegal_transitions
      /\ client.state # "Sent" => client'.state # "Sent"
      /\ m.type \in {"Accepted", "Rejected"} => client'.state # "Sent"
      /\ m.type = "Accepted" /\ client.state # "Sent" => client'.illegal_transitions
  BY <1>1, <1>2, <1>3, <1>5, AnsweredType, AnsweredFacts
<1>7. client'.state # "Sent"
  BY <1>3, <1>5, <1>6 DEF OrderInv, FirstAnswerAhead
<1>8. OrderTypeOK'
  BY <1>1, <1>2, <1>3, <1>6 DEF OrderTypeOK
<1>9. Beginnings' /\ RequestsInOrder' /\ VenueWorks' /\ FirstAnswerAhead'
  <2>1. RequestsInOrder'
    BY <1>2 DEF OrderInv, RequestsInOrder
  <2> QED BY <1>2, <1>5, <1>6, <1>7, <2>1
          DEF OrderInv, Beginnings, VenueWorks, FirstAnswerAhead
<1>10. ResentIsSeen'
  <2> SUFFICES ASSUME resent
               PROVE  \/ client'.illegal_transitions
                      \/ \E i \in DOMAIN outbound' : outbound'[i].type = "Accepted"
    BY <1>2, <1>7 DEF ResentIsSeen
  <2>1. CASE client.illegal_transitions
    BY <1>6, <2>1
  <2>2. ASSUME NEW i \in DOMAIN outbound, outbound[i].type = "Accepted",
               client.state = "Sent" => i >= 2
        PROVE  \/ client'.illegal_transitions
               \/ \E j \in DOMAIN outbound' : outbound'[j].type = "Accepted"
    <3>1. CASE i = 1
      BY <1>3, <1>6, <2>2, <3>1
    <3>2. CASE i # 1
      <4>1. i - 1 \in DOMAIN outbound' /\ (i - 1) + 1 = i
        BY <1>1, <1>3, <3>2
      <4> QED BY <1>3, <2>2, <4>1
    <3> QED BY <3>1, <3>2
  <2> QED BY <2>1, <2>2 DEF OrderInv, ResentIsSeen
<1>11. CaughtUp'
  <2> HIDE DEF Caught
  <2> QED BY <1>2, <1>4 DEF OrderInv, CaughtUp, Agrees
<1> QED BY <1>8, <1>9, <1>10, <1>11 DEF OrderInv

\* What the record makes of the answers that keep it in step.
LEMMA InStep ==
  ASSUME NEW o \in OrderRecord, NEW m \in AnswerType
  PROVE  LET a == Answered(o, m)
         IN /\ m.type = "Accepted" /\ o.filled = 0 =>
                 /\ a.leaves = (IF m.dead THEN 0 ELSE m.shares)
                 /\ Terminal(a) <=> m.dead
                 /\ a.orphan_fills = o.orphan_fills /\ a.overfills = o.overfills
            /\ m.type = "Replaced" =>
                 /\ a.leaves = (IF m.dead THEN 0 ELSE m.shares)
                 /\ Terminal(a) <=> m.dead
                 /\ a.orphan_fills = o.orphan_fills /\ a.overfills = o.overfills
            /\ m.type = "Rejected" =>
                 /\ a.leaves = 0 /\ Terminal(a)
                 /\ a.orphan_fills = o.orphan_fills /\ a.overfills = o.overfills
            /\ m.type \in {"Executed", "Canceled"} /\ m.shares <= o.leaves
                 /\ ~ Terminal(o) /\ o.state # "Unknown" =>
                 /\ a.leaves = o.leaves - m.shares
                 /\ Terminal(a) <=> a.leaves = 0
                 /\ a.orphan_fills = o.orphan_fills /\ a.overfills = o.overfills
<1>0. /\ o.state \in OrderStates /\ o.original \in Nat /\ o.leaves \in Nat /\ o.filled \in Nat
      /\ o.orphan_fills \in BOOLEAN /\ o.overfills \in BOOLEAN
      /\ m.shares \in Nat /\ m.dead \in BOOLEAN
      /\ m.type \in {"Accepted", "Replaced", "Executed", "Canceled", "Rejected"}
      /\ DOMAIN o = {"state", "original", "leaves", "filled", "illegal_transitions",
                     "orphan_fills", "overfills"}
  BY DEF OrderRecord, AnswerType
<1>1. CASE m.type = "Accepted"
  <2>1. Answered(o, m) = OnAccepted(o, m)
    BY <1>1 DEF Answered
  <2> QED BY <1>0, <1>1, <2>1 DEF OnAccepted, Terminal
<1>2. CASE m.type = "Replaced"
  <2>1. Answered(o, m) = OnReplaced(o, m)
    BY <1>2 DEF Answered
  <2> QED BY <1>0, <1>2, <2>1 DEF OnReplaced, Terminal
<1>3. CASE m.type = "Executed"
  <2>1. Answered(o, m) = OnFill(o, m)
    BY <1>3 DEF Answered
  <2> QED BY <1>0, <1>3, <2>1 DEF OnFill, Terminal
<1>4. CASE m.type = "Canceled"
  <2>1. Answered(o, m) = OnCanceled(o, m)
    BY <1>4 DEF Answered
  <2> QED BY <1>0, <1>4, <2>1 DEF OnCanceled, Terminal
<1>5. CASE m.type = "Rejected"
  <2>1. Answered(o, m) = OnRejected(o)
    BY <1>5 DEF Answered
  <2> QED BY <1>0, <1>5, <2>1 DEF OnRejected, Terminal
<1> QED BY <1>0, <1>1, <1>2, <1>3, <1>4, <1>5

\* What is left of an order of which some is filled or canceled.
LEMMA ReducedFields ==
  ASSUME NEW v \in VenueType, NEW n \in 1 .. v.leaves, v.state = "live"
  PROVE  LET st == IF v.leaves = n THEN "dead" ELSE "live"
         IN  /\ FilledBy(v, n) =
                  OrderAt(st, v.leaves - n, v.executed + n, v.accepted, v.canceled, v.late)
             /\ CanceledBy(v, n) =
                  OrderAt(st, v.leaves - n, v.executed, v.accepted,
                          IF v.leaves = n THEN n ELSE 0, v.late)
<1> DEFINE st == IF v.leaves = n THEN "dead" ELSE "live"
           le == v.leaves - n
           ca == IF v.leaves = n THEN n ELSE 0
           ex == v.executed + n
           r == Reduced(v, n)
<1>1. v = OrderAt(v.state, v.leaves, v.executed, v.accepted, v.canceled, v.late)
  BY VenueFields
<1>2. r = [v EXCEPT !.leaves = le, !.state = st]
  BY DEF Reduced
<1>3. FilledBy(v, n) = [r EXCEPT !.executed = @ + n]
  BY DEF FilledBy
<1>4. CanceledBy(v, n) = [r EXCEPT !.canceled = ca]
  BY DEF CanceledBy
<1> HIDE DEF st, le, ca, r
<1>5. r = OrderAt(st, le, v.executed, v.accepted, v.canceled, v.late)
  BY <1>1, <1>2 DEF OrderAt
<1>6. FilledBy(v, n) = OrderAt(st, le, ex, v.accepted, v.canceled, v.late)
  BY <1>3, <1>5 DEF OrderAt
<1>7. CanceledBy(v, n) = OrderAt(st, le, v.executed, v.accepted, ca, v.late)
  BY <1>4, <1>5 DEF OrderAt
<1> QED BY <1>6, <1>7 DEF st, le, ca

\* The fields of an order after a fill, and after a cancel, of working shares.
LEMMA FilledFields ==
  ASSUME NEW v \in VenueType, NEW n \in 1 .. v.leaves, v.state = "live"
  PROVE  LET w == FilledBy(v, n)
         IN  /\ w \in VenueType /\ w.leaves = v.leaves - n /\ w.executed = v.executed + n
             /\ w.state = (IF v.leaves = n THEN "dead" ELSE "live") /\ w.late = v.late
<1> DEFINE st == IF v.leaves = n THEN "dead" ELSE "live"
           le == v.leaves - n
           ex == v.executed + n
<1>1. /\ v.accepted \in Nat /\ v.canceled \in Nat /\ v.late \in Nat
      /\ le \in Nat /\ ex \in Nat /\ st \in {"none", "live", "dead"}
  BY VenueFields
<1>2. FilledBy(v, n) = OrderAt(st, le, ex, v.accepted, v.canceled, v.late)
  BY ReducedFields
<1> HIDE DEF st, le, ex
<1>3. LET w == OrderAt(st, le, ex, v.accepted, v.canceled, v.late)
      IN  w \in VenueType /\ w.state = st /\ w.leaves = le /\ w.executed = ex /\ w.late = v.late
  BY <1>1 DEF VenueType, OrderAt
<1> QED BY <1>2, <1>3 DEF st, le, ex

LEMMA CanceledFields ==
  ASSUME NEW v \in VenueType, NEW n \in 1 .. v.leaves, v.state = "live"
  PROVE  LET w == CanceledBy(v, n)
         IN  /\ w \in VenueType /\ w.leaves = v.leaves - n /\ w.executed = v.executed
             /\ w.state = (IF v.leaves = n THEN "dead" ELSE "live") /\ w.late = v.late
<1> DEFINE st == IF v.leaves = n THEN "dead" ELSE "live"
           le == v.leaves - n
           ca == IF v.leaves = n THEN n ELSE 0
<1>1. /\ v.executed \in Nat /\ v.accepted \in Nat /\ v.late \in Nat
      /\ le \in Nat /\ ca \in Nat /\ st \in {"none", "live", "dead"}
  BY VenueFields
<1>2. CanceledBy(v, n) = OrderAt(st, le, v.executed, v.accepted, ca, v.late)
  BY ReducedFields
<1> HIDE DEF st, le, ca
<1>3. LET w == OrderAt(st, le, v.executed, v.accepted, ca, v.late)
      IN  /\ w \in VenueType /\ w.state = st /\ w.leaves = le
          /\ w.executed = v.executed /\ w.late = v.late
  BY <1>1 DEF VenueType, OrderAt
<1> QED BY <1>2, <1>3 DEF st, le

\* What the client makes of an order that works.
LEMMA WorkingOrder ==
  ASSUME OrderInv, venue.leaves > 0
  PROVE  /\ venue.state = "live" /\ Caught.filled = venue.executed /\ Caught.state # "Unknown"
         /\ ~ resent => /\ Caught.leaves = venue.leaves /\ ~ Terminal(Caught)
                        /\ Caught.orphan_fills <=> venue.late > 0
                        /\ Caught.overfills <=> venue.late > 0
BY DEF OrderInv, VenueWorks, CaughtUp, Agrees

\* The exchange takes shares off the order and says so.
LEMMA CancelsKeep ==
  ASSUME OrderInv, NEW n \in 1 .. venue.leaves,
         Send(CanceledBy(venue, n), Answer("Canceled", n, FALSE)),
         inbound' = inbound \/ (inbound # <<>> /\ inbound' = Tail(inbound)),
         client' = client, resent' = resent
  PROVE  OrderInv'
<1> DEFINE m == Answer("Canceled", n, FALSE)
           v == CanceledBy(venue, n)
<1>1. /\ venue \in VenueType /\ resent \in BOOLEAN /\ Caught \in OrderRecord
  BY TypedOrder
<1>2. n \in Nat /\ n > 0 /\ n <= venue.leaves /\ venue.leaves \in Nat /\ venue.executed \in Nat
  BY <1>1, VenueFields
<1>3. /\ venue.state = "live" /\ Caught.state # "Unknown"
      /\ ~ resent => /\ Caught.leaves = venue.leaves /\ ~ Terminal(Caught)
                     /\ Caught.orphan_fills <=> venue.late > 0
                     /\ Caught.overfills <=> venue.late > 0
  BY <1>2, WorkingOrder
<1>4. /\ v \in VenueType /\ v.leaves = venue.leaves - n /\ v.executed = venue.executed
      /\ v.state = (IF venue.leaves = n THEN "dead" ELSE "live") /\ v.late = venue.late
  BY <1>1, <1>3, CanceledFields
<1>5. m \in AnswerType /\ m.type = "Canceled" /\ m.shares = n
  BY <1>2 DEF Answer, AnswerType
<1>6. Send(v, m)
  OBVIOUS
<1> HIDE DEF m, v, Caught
<1>7. ~ resent' => LET o == Answered(Caught, m)
                   IN /\ o.leaves = v.leaves /\ (Terminal(o) <=> v.state = "dead")
                      /\ o.orphan_fills <=> v.late > 0
                      /\ o.overfills <=> v.late > 0
  BY <1>1, <1>2, <1>3, <1>4, <1>5, InStep
<1>8. v.executed = venue.executed + (IF m.type = "Executed" THEN m.shares ELSE 0)
  BY <1>2, <1>4, <1>5
<1>9. v.state # "none" /\ (v.state = "live" <=> v.leaves > 0) /\ venue.state # "none"
  BY <1>2, <1>3, <1>4
<1> QED BY <1>1, <1>4, <1>5, <1>6, <1>7, <1>8, <1>9, SendKeeps

\* The exchange executes some of the order.
LEMMA VenueFillsKeeps ==
  ASSUME OrderInv, VenueFills
  PROVE  OrderInv'
<1>1. PICK n \in 1 .. venue.leaves :
         Send(FilledBy(venue, n), Answer("Executed", n, FALSE))
  BY DEF VenueFills
<1> DEFINE m == Answer("Executed", n, FALSE)
           v == FilledBy(venue, n)
<1>2. /\ venue \in VenueType /\ resent \in BOOLEAN /\ Caught \in OrderRecord
  BY TypedOrder
<1>3. n \in Nat /\ n > 0 /\ n <= venue.leaves /\ venue.leaves \in Nat /\ venue.executed \in Nat
  BY <1>2, VenueFields
<1>4. /\ venue.state = "live" /\ Caught.state # "Unknown"
      /\ ~ resent => /\ Caught.leaves = venue.leaves /\ ~ Terminal(Caught)
                     /\ Caught.orphan_fills <=> venue.late > 0
                     /\ Caught.overfills <=> venue.late > 0
  BY <1>3, WorkingOrder
<1>5. /\ v \in VenueType /\ v.leaves = venue.leaves - n /\ v.executed = venue.executed + n
      /\ v.state = (IF venue.leaves = n THEN "dead" ELSE "live") /\ v.late = venue.late
  BY <1>2, <1>4, FilledFields
<1>6. m \in AnswerType /\ m.type = "Executed" /\ m.shares = n
  BY <1>3 DEF Answer, AnswerType
<1>7. Send(v, m) /\ inbound' = inbound /\ client' = client /\ resent' = resent
  BY <1>1 DEF VenueFills
<1> HIDE DEF m, v, Caught
<1>8. ~ resent' => LET o == Answered(Caught, m)
                   IN /\ o.leaves = v.leaves /\ (Terminal(o) <=> v.state = "dead")
                      /\ o.orphan_fills <=> v.late > 0
                      /\ o.overfills <=> v.late > 0
  BY <1>2, <1>3, <1>4, <1>5, <1>6, <1>7, InStep
<1>9. v.executed = venue.executed + (IF m.type = "Executed" THEN m.shares ELSE 0)
  BY <1>5, <1>6
<1>10. v.state # "none" /\ (v.state = "live" <=> v.leaves > 0) /\ venue.state # "none"
  BY <1>3, <1>4, <1>5
<1> QED BY <1>2, <1>5, <1>6, <1>7, <1>8, <1>9, <1>10, SendKeeps

\* A Canceled overtakes the Executed before it: neither takes what is the other's.
LEMMA VenueCrossesKeeps ==
  ASSUME OrderInv, VenueCrosses
  PROVE  OrderInv'
<1>a. PICK n \in 1 .. venue.leaves : \E c \in 1 .. FilledBy(venue, n).leaves :
        /\ venue' = CanceledBy(FilledBy(venue, n), c)
        /\ outbound' = outbound \o <<Answer("Canceled", c, FALSE), Answer("Executed", n, FALSE)>>
        /\ inbound' = inbound \/ (inbound # <<>> /\ inbound' = Tail(inbound))
  BY DEF VenueCrosses
<1>1. PICK c \in 1 .. FilledBy(venue, n).leaves :
        /\ venue' = CanceledBy(FilledBy(venue, n), c)
        /\ outbound' = outbound \o <<Answer("Canceled", c, FALSE), Answer("Executed", n, FALSE)>>
        /\ inbound' = inbound \/ (inbound # <<>> /\ inbound' = Tail(inbound))
  BY <1>a
<1> DEFINE f == FilledBy(venue, n)
           v == CanceledBy(f, c)
           m == Answer("Canceled", c, FALSE)
           e == Answer("Executed", n, FALSE)
           o == Answered(Caught, m)
<1>2. /\ client \in OrderRecord /\ venue \in VenueType /\ resent \in BOOLEAN
      /\ Caught \in OrderRecord /\ outbound \in Seq(AnswerType)
      /\ Len(outbound) \in Nat /\ DOMAIN outbound = 1 .. Len(outbound)
  BY TypedOrder
<1>3. n \in Nat /\ n > 0 /\ n <= venue.leaves /\ venue.leaves \in Nat /\ venue.executed \in Nat
  BY <1>2, VenueFields
<1>4. /\ venue.state = "live" /\ Caught.filled = venue.executed /\ Caught.state # "Unknown"
      /\ ~ resent => /\ Caught.leaves = venue.leaves /\ ~ Terminal(Caught)
                     /\ Caught.orphan_fills <=> venue.late > 0
                     /\ Caught.overfills <=> venue.late > 0
  BY <1>3, WorkingOrder
<1>5. /\ f \in VenueType /\ f.leaves = venue.leaves - n /\ f.executed = venue.executed + n
      /\ f.late = venue.late /\ f.state = (IF venue.leaves = n THEN "dead" ELSE "live")
  BY <1>2, <1>4, FilledFields
<1>6. c \in 1 .. f.leaves
  OBVIOUS
<1> HIDE DEF f
<1>7. f.state = "live" /\ c \in Nat /\ c > 0 /\ n + c <= venue.leaves
  BY <1>3, <1>5, <1>6
<1>8. /\ v \in VenueType /\ v.leaves = f.leaves - c /\ v.executed = f.executed
      /\ v.state = (IF f.leaves = c THEN "dead" ELSE "live") /\ v.late = f.late
  BY <1>5, <1>6, <1>7, CanceledFields
<1>9. /\ m \in AnswerType /\ m.type = "Canceled" /\ m.shares = c
      /\ e \in AnswerType /\ e.type = "Executed" /\ e.shares = n
  BY <1>3, <1>7 DEF Answer, AnswerType
<1>10. venue' = v /\ client' = client /\ resent' = resent
       /\ outbound' = outbound \o <<m, e>>
  BY <1>1 DEF VenueCrosses, f
<1> HIDE DEF m, e, v
<1>11. /\ outbound' = Append(Append(outbound, m), e) /\ Append(outbound, m) \in Seq(AnswerType)
       /\ outbound' \in Seq(AnswerType) /\ Len(outbound') > Len(outbound)
       /\ \A i \in DOMAIN outbound : outbound'[i] = outbound[i]
  <2>1. outbound \o <<m, e>> = Append(Append(outbound, m), e)
    BY <1>2, <1>9
  <2>2. /\ Append(outbound, m) \in Seq(AnswerType)
        /\ Len(Append(outbound, m)) = Len(outbound) + 1
        /\ \A i \in 1 .. Len(outbound) : Append(outbound, m)[i] = outbound[i]
    BY <1>2, <1>9, AppendProperties
  <2>3. /\ Append(Append(outbound, m), e) \in Seq(AnswerType)
        /\ Len(Append(Append(outbound, m), e)) = Len(outbound) + 2
        /\ \A i \in 1 .. Len(outbound) + 1 :
             Append(Append(outbound, m), e)[i] = Append(outbound, m)[i]
    BY <1>2, <1>9, <2>2, AppendProperties
  <2> QED BY <1>2, <1>10, <2>1, <2>2, <2>3
<1>12. Caught' = Answered(o, e)
  <2>1. Replay(client, Append(Append(outbound, m), e)) =
          Answered(Replay(client, Append(outbound, m)), e)
    BY <1>2, <1>9, <1>11, ReplayAppend
  <2>2. Replay(client, Append(outbound, m)) = Answered(Replay(client, outbound), m)
    BY <1>2, <1>9, ReplayAppend
  <2> QED BY <1>10, <1>11, <2>1, <2>2 DEF Caught
<1> HIDE DEF Caught
<1>13. /\ o \in OrderRecord /\ o.filled = Caught.filled /\ o.state # "Unknown"
       /\ Answered(o, e).filled = o.filled + n /\ Answered(o, e).state # "Unknown"
  <2>1. o \in OrderRecord /\ o.filled = Caught.filled + 0 /\ o.state # "Unknown"
    BY <1>2, <1>4, <1>9, AnsweredType, AnsweredFacts
  <2>2. Caught.filled \in Nat
    BY <1>3, <1>4
  <2> HIDE DEF o
  <2> QED BY <1>9, <2>1, <2>2, AnsweredFacts
<1>14. ~ resent => /\ o.leaves = Caught.leaves - c /\ ~ Terminal(o)
                   /\ o.orphan_fills = Caught.orphan_fills /\ o.overfills = Caught.overfills
  BY <1>2, <1>3, <1>4, <1>7, <1>9, InStep
<1> HIDE DEF o
<1>15. ~ resent => LET a == Answered(o, e)
                   IN /\ a.leaves = v.leaves /\ (Terminal(a) <=> v.state = "dead")
                      /\ a.orphan_fills <=> v.late > 0
                      /\ a.overfills <=> v.late > 0
  <2> SUFFICES ASSUME ~ resent
               PROVE  LET a == Answered(o, e)
                      IN /\ a.leaves = v.leaves /\ (Terminal(a) <=> v.state = "dead")
                         /\ a.orphan_fills <=> v.late > 0
                         /\ a.overfills <=> v.late > 0
    OBVIOUS
  <2>1. e.shares <= o.leaves
    BY <1>3, <1>4, <1>7, <1>9, <1>14
  <2>2. LET a == Answered(o, e)
        IN /\ a.leaves = o.leaves - n /\ (Terminal(a) <=> a.leaves = 0)
           /\ a.orphan_fills = o.orphan_fills /\ a.overfills = o.overfills
    BY <1>9, <1>13, <1>14, <2>1, InStep
  <2> HIDE DEF Terminal
  <2> QED BY <1>3, <1>4, <1>5, <1>7, <1>8, <1>14, <2>2
<1>16. Caught'.filled = v.executed /\ Caught'.state # "Unknown"
  BY <1>4, <1>5, <1>8, <1>12, <1>13
<1>17. ~ resent' => /\ Caught'.leaves = v.leaves /\ (Terminal(Caught') <=> v.state = "dead")
                    /\ Caught'.orphan_fills <=> v.late > 0
                    /\ Caught'.overfills <=> v.late > 0
  BY <1>10, <1>12, <1>15 DEF Terminal
<1>18. v.state # "none" /\ (v.state = "live" <=> v.leaves > 0) /\ venue.state # "none"
  BY <1>3, <1>4, <1>5, <1>6, <1>7, <1>8
<1>19. inbound' = inbound \/ (inbound # <<>> /\ inbound' = Tail(inbound))
  BY <1>1
<1> QED BY <1>2, <1>8, <1>10, <1>11, <1>16, <1>17, <1>18, <1>19, ExtendKeeps

\* Shares that a Canceled took execute after all: an orphan, beyond what works.
LEMMA VenueFillsLateKeeps ==
  ASSUME OrderInv, VenueFillsLate
  PROVE  OrderInv'
<1>1. PICK n \in 1 .. venue.canceled - venue.late :
         Send([venue EXCEPT !.executed = @ + n, !.late = @ + n], Answer("Executed", n, FALSE))
  BY DEF VenueFillsLate
<1> DEFINE m == Answer("Executed", n, FALSE)
           ex == venue.executed + n
           la == venue.late + n
           v == OrderAt("dead", venue.leaves, ex, venue.accepted, venue.canceled, la)
<1>2. /\ venue \in VenueType /\ resent \in BOOLEAN /\ Caught \in OrderRecord
  BY TypedOrder
<1>3. /\ venue.leaves \in Nat /\ venue.executed \in Nat /\ venue.accepted \in Nat
      /\ venue.canceled \in Nat /\ venue.late \in Nat /\ n \in Nat /\ n > 0
      /\ venue = OrderAt(venue.state, venue.leaves, venue.executed, venue.accepted,
                         venue.canceled, venue.late)
  BY <1>2, VenueFields
<1>4. venue.state = "dead" /\ venue.leaves = 0
  BY <1>3 DEF VenueFillsLate, OrderInv, VenueWorks
<1>5. [venue EXCEPT !.executed = @ + n, !.late = @ + n] = v
  <2>1. [venue EXCEPT !.executed = @ + n, !.late = @ + n] =
          [venue EXCEPT !.executed = ex, !.late = la]
    OBVIOUS
  <2> HIDE DEF ex, la
  <2>2. PICK a, b, c, d, e :
          /\ venue = OrderAt("dead", a, b, c, d, e)
          /\ a = venue.leaves /\ c = venue.accepted /\ d = venue.canceled
    BY <1>3, <1>4
  <2>3. [venue EXCEPT !.executed = ex, !.late = la] = OrderAt("dead", a, ex, c, d, la)
    <3> DEFINE u == OrderAt("dead", a, b, c, d, e)
               w == [u EXCEPT !.executed = ex]
    <3>1. w = OrderAt("dead", a, ex, c, d, e)
      BY DEF OrderAt
    <3>2. [u EXCEPT !.executed = ex, !.late = la] = [w EXCEPT !.late = la]
      OBVIOUS
    <3> HIDE DEF w
    <3>3. [w EXCEPT !.late = la] = OrderAt("dead", a, ex, c, d, la)
      BY <3>1 DEF OrderAt
    <3> QED BY <2>2, <3>2, <3>3
  <2> QED BY <2>1, <2>2, <2>3
<1>6. Send(v, m) /\ inbound' = inbound /\ client' = client /\ resent' = resent
  BY <1>1, <1>5 DEF VenueFillsLate
<1>7. /\ v \in VenueType /\ v.state = "dead" /\ v.leaves = 0 /\ v.executed = venue.executed + n
      /\ v.late = venue.late + n
  <2>1. ex \in Nat /\ la \in Nat
    BY <1>3
  <2> HIDE DEF ex, la
  <2>2. v \in VenueType /\ v.state = "dead" /\ v.leaves = venue.leaves /\ v.executed = ex
        /\ v.late = la
    BY <1>3, <2>1 DEF VenueType, OrderAt
  <2> QED BY <1>4, <2>2 DEF ex, la
<1>8. m \in AnswerType /\ m.type = "Executed" /\ m.shares = n
  BY <1>3 DEF Answer, AnswerType
<1>9. ~ resent => Caught.leaves = 0 /\ Terminal(Caught)
  BY <1>4 DEF OrderInv, CaughtUp, Agrees
<1> HIDE DEF m, v, Caught
<1>10. ~ resent' => LET o == Answered(Caught, m)
                    IN /\ o.leaves = v.leaves /\ (Terminal(o) <=> v.state = "dead")
                       /\ o.orphan_fills <=> v.late > 0
                       /\ o.overfills <=> v.late > 0
  <2> SUFFICES ASSUME ~ resent
               PROVE  LET o == Answered(Caught, m)
                      IN o.leaves = 0 /\ Terminal(o) /\ o.orphan_fills /\ o.overfills
    BY <1>3, <1>6, <1>7
  <2>1. Answered(Caught, m) = OnFill(Caught, m)
    BY <1>8 DEF Answered
  <2>2. m.shares > Caught.leaves
    BY <1>3, <1>8, <1>9
  <2>3. DOMAIN Caught = {"state", "original", "leaves", "filled", "illegal_transitions",
                         "orphan_fills", "overfills"}
    BY <1>2 DEF OrderRecord
  <2> QED BY <1>9, <2>1, <2>2, <2>3 DEF OnFill, Terminal
<1>11. v.executed = venue.executed + (IF m.type = "Executed" THEN m.shares ELSE 0)
  BY <1>7, <1>8
<1>12. v.state # "none" /\ (v.state = "live" <=> v.leaves > 0) /\ venue.state # "none"
  BY <1>4, <1>7
<1> QED BY <1>2, <1>6, <1>7, <1>8, <1>10, <1>11, <1>12, SendKeeps

\* The exchange sends its accept again.
LEMMA VenueResendsKeeps ==
  ASSUME OrderInv, VenueResends
  PROVE  OrderInv'
<1> DEFINE m == Answer("Accepted", venue.accepted, FALSE)
<1>1. /\ venue \in VenueType /\ resent \in BOOLEAN
  BY TypedOrder
<1>2. venue.accepted \in Nat /\ venue.executed \in Nat
  BY <1>1, VenueFields
<1>3. m \in AnswerType /\ m.type = "Accepted"
  BY <1>2 DEF Answer, AnswerType
<1>4. venue.state # "none"
  BY DEF VenueResends, OrderInv, Beginnings
<1>5. /\ Send(venue, m) /\ inbound' = inbound /\ client' = client /\ resent' = TRUE
  BY DEF VenueResends
<1>6. venue.state = "live" <=> venue.leaves > 0
  BY DEF OrderInv, VenueWorks
<1> HIDE DEF m
<1> QED BY <1>1, <1>2, <1>3, <1>4, <1>5, <1>6, SendKeeps

\* The exchange reads the entry: the order begins.
LEMMA EntersKeep ==
  ASSUME OrderInv, NEW v \in VenueType, NEW m \in AnswerType,
         inbound # <<>>, inbound[1].type = "Enter", Send(v, m),
         inbound' = Tail(inbound), client' = client, resent' = resent,
         v.state # "none", v.state = "live" <=> v.leaves > 0, v.executed = 0, v.late = 0,
         m.type \in {"Accepted", "Rejected"},
         m.type = "Accepted" => v.leaves = (IF m.dead THEN 0 ELSE m.shares)
                                /\ (m.dead <=> v.state = "dead"),
         m.type = "Rejected" => v.leaves = 0 /\ v.state = "dead"
  PROVE  OrderInv'
<1>1. /\ client \in OrderRecord /\ venue \in VenueType /\ resent \in BOOLEAN
      /\ inbound \in Seq(RequestType)
  BY TypedOrder
<1>2. /\ inbound[1] \in RequestType /\ 1 \in DOMAIN inbound /\ inbound' \in Seq(RequestType)
      /\ \A i \in DOMAIN inbound' : /\ i \in Nat /\ i >= 1 /\ i + 1 \in DOMAIN inbound
                                    /\ inbound'[i] = inbound[i + 1]
      /\ client.state # "Unknown"
  BY ReadOne
<1>3. venue.state = "none"
  BY <1>2 DEF OrderInv, RequestsInOrder
<1>4. /\ outbound = <<>> /\ ~ resent /\ client.filled = 0
      /\ ~ client.orphan_fills /\ ~ client.overfills
  BY <1>3 DEF OrderInv, Beginnings
<1>5. /\ venue' = v /\ outbound' = Append(<<>>, m)
  BY <1>4 DEF Send
<1>6. /\ outbound' \in Seq(AnswerType) /\ outbound' # <<>> /\ outbound'[1] = m
  BY <1>5
<1>7. Caught' = Answered(client, m)
  <2>1. <<>> \in Seq(AnswerType)
    OBVIOUS
  <2>2. Replay(client, Append(<<>>, m)) = Answered(Replay(client, <<>>), m)
    BY <1>1, <2>1, ReplayAppend
  <2> QED BY <1>1, <1>5, <2>2, ReplayEmpty DEF Caught
<1>8. OrderTypeOK'
  BY <1>1, <1>2, <1>5, <1>6 DEF OrderTypeOK
<1>9. Beginnings' /\ VenueWorks' /\ FirstAnswerAhead' /\ ResentIsSeen'
  BY <1>2, <1>4, <1>5, <1>6 DEF Beginnings, VenueWorks, FirstAnswerAhead, ResentIsSeen
<1>10. RequestsInOrder'
  BY <1>2 DEF OrderInv, RequestsInOrder
<1>11. CaughtUp'
  <2>1. /\ Answered(client, m).filled = 0 /\ Answered(client, m).state # "Unknown"
    BY <1>1, <1>2, <1>4, AnsweredFacts
  <2>2. /\ Answered(client, m).leaves = v.leaves
        /\ Terminal(Answered(client, m)) <=> v.state = "dead"
        /\ ~ Answered(client, m).orphan_fills /\ ~ Answered(client, m).overfills
    BY <1>1, <1>4, InStep
  <2> HIDE DEF Caught
  <2> QED BY <1>5, <1>7, <2>1, <2>2 DEF CaughtUp, Agrees, Terminal
<1> QED BY <1>8, <1>9, <1>10, <1>11 DEF OrderInv

\* The exchange reads a request, each kind of it.
LEMMA VenueReadsKeeps ==
  ASSUME OrderInv, VenueReads
  PROVE  OrderInv'
<1>1. /\ client \in OrderRecord /\ venue \in VenueType /\ resent \in BOOLEAN
      /\ inbound \in Seq(RequestType) /\ Caught \in OrderRecord
      /\ venue.leaves \in Nat /\ venue.executed \in Nat /\ venue.accepted \in Nat
      /\ venue.canceled \in Nat /\ venue.late \in Nat
      /\ venue.state \in {"none", "live", "dead"}
  BY TypedOrder, VenueFields
<1>2. inbound # <<>> /\ inbound' = Tail(inbound) /\ client' = client /\ resent' = resent
  BY DEF VenueReads
<1>3. /\ Head(inbound) = inbound[1] /\ inbound[1] \in RequestType /\ 1 \in DOMAIN inbound
      /\ inbound' \in Seq(RequestType) /\ client.state # "Unknown"
      /\ \A i \in DOMAIN inbound' : /\ i \in Nat /\ i >= 1 /\ i + 1 \in DOMAIN inbound
                                    /\ inbound'[i] = inbound[i + 1]
  BY <1>2, ReadOne
<1> DEFINE q == inbound[1]
<1>4. q.shares \in Nat
  BY <1>3 DEF RequestType
<1>5. venue.state = "none" => q.type = "Enter"
  BY <1>3 DEF OrderInv, Beginnings
<1>6. \/ q.type = "Enter" /\ VenueEnters(q)
      \/ q.type = "Cancel" /\ VenueCancels(q)
      \/ q.type = "Replace" /\ VenueReplaces(q)
  BY <1>3 DEF VenueReads
<1>7. q.type = "Replace" => q.shares > 0
  BY <1>3 DEF OrderInv, RequestsInOrder
<1> HIDE DEF q
<1>8. \* A request that came too late.
      ASSUME UNCHANGED <<venue, outbound>>, venue.state # "none"
      PROVE  OrderInv'
  <2>1. OrderTypeOK'
    BY <1>2, <1>3, <1>8 DEF OrderInv, OrderTypeOK
  <2>2. Beginnings'
    BY <1>2, <1>3, <1>8 DEF Beginnings
  <2>3. RequestsInOrder'
    BY <1>3, <1>8 DEF OrderInv, RequestsInOrder
  <2>4. VenueWorks' /\ FirstAnswerAhead' /\ ResentIsSeen'
    BY <1>2, <1>8 DEF OrderInv, VenueWorks, FirstAnswerAhead, ResentIsSeen
  <2>5. Caught' = Caught
    BY <1>2, <1>8 DEF Caught
  <2>6. CaughtUp'
    <3> HIDE DEF Caught
    <3> QED BY <1>2, <1>8, <2>5 DEF OrderInv, CaughtUp, Agrees
  <2> QED BY <2>1, <2>2, <2>3, <2>4, <2>6 DEF OrderInv
<1>9. CASE q.type = "Enter"
  <2>1. VenueEnters(q)
    BY <1>6, <1>9
  <2>2. ASSUME NEW shares \in 1 .. q.shares, NEW dead \in BOOLEAN,
               Send([state |-> IF dead THEN "dead" ELSE "live", leaves |-> IF dead THEN 0 ELSE shares,
                     executed |-> 0, accepted |-> shares, canceled |-> 0, late |-> 0],
                    Answer("Accepted", shares, dead))
        PROVE  OrderInv'
    <3> DEFINE v == OrderAt(IF dead THEN "dead" ELSE "live", IF dead THEN 0 ELSE shares, 0,
                            shares, 0, 0)
               m == Answer("Accepted", shares, dead)
    <3>1. shares \in Nat /\ shares > 0
      BY <1>4
    <3>2. /\ v.state = (IF dead THEN "dead" ELSE "live") /\ v.leaves = (IF dead THEN 0 ELSE shares)
          /\ v.executed = 0 /\ v.late = 0
      BY DEF OrderAt
    <3>3. v \in VenueType
      BY <3>1 DEF VenueType, OrderAt
    <3>4. m \in AnswerType /\ m.type = "Accepted" /\ m.shares = shares /\ m.dead = dead
      BY <3>1 DEF Answer, AnswerType
    <3>5. Send(v, m)
      BY <2>2 DEF OrderAt
    <3>6. inbound[1].type = "Enter"
      BY <1>9 DEF q
    <3> HIDE DEF v, m
    <3>7. v.state # "none" /\ (v.state = "live" <=> v.leaves > 0)
      BY <3>1, <3>2
    <3>8. v.leaves = (IF m.dead THEN 0 ELSE m.shares) /\ (m.dead <=> v.state = "dead")
      BY <3>2, <3>4
    <3> QED BY <1>2, <3>2, <3>3, <3>4, <3>5, <3>6, <3>7, <3>8, EntersKeep
  <2>3. ASSUME Send([venue EXCEPT !.state = "dead"], Answer("Rejected", 0, FALSE))
        PROVE  OrderInv'
    <3> DEFINE v == [venue EXCEPT !.state = "dead"]
               m == Answer("Rejected", 0, FALSE)
    <3>1. venue.leaves = 0 /\ venue.executed = 0 /\ venue.late = 0
      <4>1. venue.state = "none"
        BY <1>3, <1>9 DEF OrderInv, RequestsInOrder, q
      <4> QED BY <4>1 DEF OrderInv, Beginnings
    <3>2. v = OrderAt("dead", 0, 0, venue.accepted, venue.canceled, 0)
      <4>1. venue = OrderAt(venue.state, venue.leaves, venue.executed, venue.accepted,
                            venue.canceled, venue.late)
        BY <1>1, VenueFields
      <4> QED BY <3>1, <4>1 DEF OrderAt
    <3>3. m \in AnswerType /\ m.type = "Rejected"
      BY DEF Answer, AnswerType
    <3>4. Send(v, m)
      BY <2>3
    <3>5. inbound[1].type = "Enter"
      BY <1>9 DEF q
    <3> HIDE DEF v, m
    <3>6. /\ v \in VenueType /\ v.leaves = 0 /\ v.state = "dead" /\ v.executed = 0
          /\ v.late = 0
      BY <1>1, <3>2 DEF VenueType, OrderAt
    <3>7. v.state = "live" <=> v.leaves > 0
      BY <3>6
    <3> QED BY <1>2, <3>3, <3>4, <3>5, <3>6, <3>7, EntersKeep
  <2> QED BY <2>1, <2>2, <2>3 DEF VenueEnters
<1>10. CASE q.type = "Cancel"
  <2>1. VenueCancels(q) /\ venue.state # "none"
    BY <1>5, <1>6, <1>10
  <2> DEFINE n == Excess(venue, q)
  <2>2. CASE venue.state = "live" /\ n > 0
    <3>1. Send(CanceledBy(venue, n), Answer("Canceled", n, FALSE))
      BY <2>1, <2>2 DEF VenueCancels
    <3>2. n \in 1 .. venue.leaves
      BY <1>1, <1>4, <2>2 DEF Excess
    <3> HIDE DEF n
    <3> QED BY <1>2, <3>1, <3>2, CancelsKeep
  <2>3. CASE ~ (venue.state = "live" /\ n > 0)
    <3>1. UNCHANGED <<venue, outbound>>
      BY <2>1, <2>3 DEF VenueCancels
    <3> QED BY <1>8, <2>1, <3>1
  <2> QED BY <2>2, <2>3
<1>11. CASE q.type = "Replace"
  <2>1. VenueReplaces(q) /\ venue.state # "none"
    BY <1>5, <1>6, <1>11
  <2>2. CASE venue.state = "live"
    <3>1. PICK dead \in BOOLEAN :
            Send([venue EXCEPT !.leaves = IF dead THEN 0 ELSE q.shares,
                               !.state = IF dead THEN "dead" ELSE "live"],
                 Answer("Replaced", q.shares, dead))
      BY <2>1, <2>2 DEF VenueReplaces
    <3> DEFINE v == [venue EXCEPT !.leaves = IF dead THEN 0 ELSE q.shares,
                                  !.state = IF dead THEN "dead" ELSE "live"]
               m == Answer("Replaced", q.shares, dead)
    <3>2. v = OrderAt(IF dead THEN "dead" ELSE "live", IF dead THEN 0 ELSE q.shares,
                      venue.executed, venue.accepted, venue.canceled, venue.late)
      <4> DEFINE st == IF dead THEN "dead" ELSE "live"
                 le == IF dead THEN 0 ELSE q.shares
      <4>1. venue = OrderAt(venue.state, venue.leaves, venue.executed, venue.accepted,
                            venue.canceled, venue.late)
        BY <1>1, VenueFields
      <4>2. v = [venue EXCEPT !.leaves = le, !.state = st]
        OBVIOUS
      <4> HIDE DEF st, le, v
      <4>3. v = OrderAt(st, le, venue.executed, venue.accepted, venue.canceled, venue.late)
        BY <4>1, <4>2 DEF OrderAt
      <4> QED BY <4>3 DEF st, le
    <3>3. m \in AnswerType /\ m.type = "Replaced" /\ m.shares = q.shares /\ m.dead = dead
      BY <1>4 DEF Answer, AnswerType
    <3>4. Send(v, m)
      BY <3>1
    <3> HIDE DEF v, m
    <3>5. /\ v.leaves = (IF dead THEN 0 ELSE q.shares)
          /\ v.state = (IF dead THEN "dead" ELSE "live") /\ v.executed = venue.executed
          /\ v.late = venue.late
      BY <3>2 DEF OrderAt
    <3>6. v \in VenueType
      BY <1>1, <1>4, <3>2 DEF VenueType, OrderAt
    <3>7. ~ resent => /\ Caught.orphan_fills <=> venue.late > 0
                      /\ Caught.overfills <=> venue.late > 0
      BY <2>1 DEF OrderInv, CaughtUp
    <3> HIDE DEF Caught
    <3>8. ~ resent' => LET o == Answered(Caught, m)
                       IN /\ o.leaves = v.leaves /\ (Terminal(o) <=> v.state = "dead")
                          /\ o.orphan_fills <=> v.late > 0
                          /\ o.overfills <=> v.late > 0
      BY <1>1, <1>2, <3>3, <3>5, <3>7, InStep
    <3>9. v.executed = venue.executed + (IF m.type = "Executed" THEN m.shares ELSE 0)
      BY <1>1, <3>3, <3>5
    <3>10. v.state # "none" /\ (v.state = "live" <=> v.leaves > 0)
      BY <1>4, <1>7, <1>11, <3>5
    <3> QED BY <1>1, <1>2, <2>1, <3>3, <3>4, <3>6, <3>8, <3>9, <3>10, SendKeeps
  <2>3. CASE venue.state # "live"
    <3>1. UNCHANGED <<venue, outbound>>
      BY <2>1, <2>3 DEF VenueReplaces
    <3> QED BY <1>8, <2>1, <3>1
  <2> QED BY <2>2, <2>3
<1> QED BY <1>6, <1>9, <1>10, <1>11

(* The client's record, once it has read the answers under way, agrees     *)
(* with the exchange's order, whatever the client asks and the exchange    *)
(* answers, whether requests cross answers, a Canceled an Executed, or     *)
(* shares execute that a Canceled took (ouch.hpp, ClientOrderState).       *)
THEOREM OrderInvHolds ==
  OrderSpec => []OrderInv
<1>1. OrderInit => OrderInv
  <2> SUFFICES ASSUME OrderInit PROVE OrderInv
    OBVIOUS
  <2>1. client = Order("Unknown", 0, 0, 0, FALSE, FALSE, FALSE)
    BY DEF OrderInit, Unknown, Order
  <2>2. client \in OrderRecord
    <3>1. "Unknown" \in OrderStates
      BY DEF OrderStates
    <3> QED BY <2>1, <3>1, OrderTyped
  <2>3. venue \in VenueType
    BY DEF OrderInit, VenueType
  <2>4. OrderTypeOK
    <3>1. inbound \in Seq(RequestType) /\ outbound \in Seq(AnswerType)
      BY DEF OrderInit
    <3>2. resent \in BOOLEAN
      BY DEF OrderInit
    <3> QED BY <2>2, <2>3, <3>1, <3>2 DEF OrderTypeOK
  <2>5. client.state = "Unknown" /\ client.filled = 0 /\ ~ client.orphan_fills
        /\ ~ client.overfills
    BY <2>1 DEF Order
  <2>6. /\ venue.state = "none" /\ venue.leaves = 0 /\ venue.executed = 0
        /\ venue.accepted = 0 /\ venue.late = 0
    BY DEF OrderInit
  <2> QED BY <2>4, <2>5, <2>6 DEF OrderInit, OrderInv, Beginnings, RequestsInOrder, VenueWorks,
          FirstAnswerAhead, ResentIsSeen, CaughtUp
<1>2. OrderInv /\ [OrderNext]_orderVars => OrderInv'
  <2> SUFFICES ASSUME OrderInv, [OrderNext]_orderVars PROVE OrderInv'
    OBVIOUS
  <2>1. CASE Enter
    BY <2>1, EnterKeeps
  <2>2. CASE Cancel
    BY <2>2, CancelKeeps
  <2>3. CASE ReplaceOrder
    BY <2>3, ReplaceKeeps
  <2>4. CASE Deliver
    BY <2>4, DeliverKeeps
  <2>5. CASE VenueReads
    BY <2>5, VenueReadsKeeps
  <2>6. CASE VenueFills
    BY <2>6, VenueFillsKeeps
  <2>7. CASE VenueCancelsUnasked
    BY <2>7, CancelsKeep DEF VenueCancelsUnasked
  <2>8. CASE VenueResends
    BY <2>8, VenueResendsKeeps
  <2>9. CASE VenueCrosses
    BY <2>9, VenueCrossesKeeps
  <2>10. CASE VenueFillsLate
    BY <2>10, VenueFillsLateKeeps
  <2>11. CASE UNCHANGED orderVars
    BY <2>11 DEF orderVars, OrderInv, OrderTypeOK, Beginnings, RequestsInOrder, VenueWorks,
                FirstAnswerAhead, ResentIsSeen, CaughtUp, Caught, Agrees
  <2> QED BY <2>1, <2>2, <2>3, <2>4, <2>5, <2>6, <2>7, <2>8, <2>9, <2>10, <2>11 DEF OrderNext
<1> QED BY <1>1, <1>2, PTL DEF OrderSpec

(* Once the client has read what is under way it holds the position the    *)
(* exchange executed, late fills included; a resent Accepted has been      *)
(* counted; without one the client holds the working size and knows        *)
(* whether the order is dead, and it has counted an orphan exactly when    *)
(* shares that a Canceled took executed after all                          *)
(* (ouch.hpp:1120-1131, ClientOrderState).                                 *)
THEOREM ClientSeesTheOrderAlways ==
  OrderSpec => []ClientSeesTheOrder
<1>1. OrderInv => ClientSeesTheOrder
  <2> SUFFICES ASSUME OrderInv, venue.state # "none"
               PROVE  /\ Caught.filled = venue.executed
                      /\ resent => Caught.illegal_transitions
                      /\ ~ resent => /\ Agrees(Caught)
                                     /\ Caught.orphan_fills <=> venue.late > 0
                                     /\ Caught.overfills <=> venue.late > 0
    BY DEF ClientSeesTheOrder
  <2>1. client \in OrderRecord /\ outbound \in Seq(AnswerType)
    BY TypedOrder
  <2>2. ASSUME resent PROVE Caught.illegal_transitions
    <3>1. \/ client.illegal_transitions
          \/ \E i \in DOMAIN outbound :
               /\ outbound[i].type = "Accepted"
               /\ client.state = "Sent" =>
                    i >= 2 /\ outbound[1].type \in {"Accepted", "Rejected"}
      BY <2>2 DEF OrderInv, ResentIsSeen, FirstAnswerAhead
    <3> QED BY <2>1, <3>1, ReplayIllegal DEF Caught
  <2> QED BY <2>2 DEF OrderInv, CaughtUp
<1> QED BY <1>1, OrderInvHolds, PTL

-----------------------------------------------------------------------------
(***************************************************************************)
(* The pool. kind is the class of every block carved so far, by its        *)
(* address, and depth its place on the list of its class: the two are not  *)
(* in the program, and each step says how they change.                     *)
(***************************************************************************)
-----------------------------------------------------------------------------
\* A class has blocks of a size the pool serves.
LEMMA ClassSize ==
  ASSUME NEW c \in Classes
  PROVE  SizeOf(c) \in Nat /\ SizeOf(c) > 0 /\ SizeOf(c) <= MaxBlock
<1> DEFINE g == Granularity
           k == MaxBlock \div g
<1>1. g \in Nat \ {0} /\ MaxBlock \in Nat /\ MaxBlock % g = 0
  BY PoolAssumption
<1>2. k \in Nat /\ MaxBlock = g * k
  BY <1>1, Division
<1>3. c + 1 \in Nat /\ c + 1 > 0 /\ ~ c + 1 > k
  BY <1>2 DEF Classes
<1> HIDE DEF k, g
<1>4. g * (c + 1) >= g * 0 + g
  BY <1>1, <1>3, ProductGrows
<1>5. k > c + 1 => g * k >= g * (c + 1) + g
  BY <1>1, <1>2, <1>3, ProductGrows
<1>6. SizeOf(c) = g * (c + 1) /\ g * (c + 1) \in Nat
  <2>1. SizeOf(c) = (c + 1) * g
    BY DEF SizeOf, g
  <2> QED BY <1>1, <1>3, <2>1
<1> QED BY <1>1, <1>2, <1>3, <1>4, <1>5, <1>6

\* The class of a request is large enough for it.
LEMMA ClassFits ==
  ASSUME NEW bytes \in 1 .. MaxBlock
  PROVE  ClassOf(bytes) \in Classes /\ SizeOf(ClassOf(bytes)) >= bytes
<1> DEFINE g == Granularity
           k == MaxBlock \div g
           q == (bytes + g - 1) \div g
           r == (bytes + g - 1) % g
<1>1. g \in Nat \ {0} /\ MaxBlock \in Nat /\ MaxBlock % g = 0
      /\ bytes \in Nat /\ bytes >= 1 /\ bytes <= MaxBlock
  BY PoolAssumption
<1>2. k \in Nat /\ MaxBlock = g * k
  BY <1>1, Division
<1>3. bytes + g - 1 \in Nat
  BY <1>1
<1>4. q \in Nat /\ r \in 0 .. g - 1 /\ bytes + g - 1 = g * q + r
  BY <1>1, <1>3, Division
<1>5. ClassOf(bytes) = q - 1 /\ SizeOf(q - 1) = ((q - 1) + 1) * g /\ Classes = 0 .. k - 1
  BY DEF ClassOf, SizeOf, Classes
<1> HIDE DEF g, k, q, r
<1>6. ~ 1 > q
  <2> SUFFICES ASSUME 1 > q PROVE FALSE
    OBVIOUS
  <2>1. q = 0
    BY <1>4
  <2> QED BY <1>1, <1>4, <2>1
<1>7. ~ q > k
  <2> SUFFICES ASSUME q > k PROVE FALSE
    OBVIOUS
  <2>1. g * q >= g * k + g
    BY <1>1, <1>2, <1>4, ProductGrows
  <2>2. g * q \in Int /\ g * k \in Int
    BY <1>1, <1>2, <1>4
  <2> QED BY <1>1, <1>2, <1>4, <2>1, <2>2
<1>8. SizeOf(q - 1) = g * q /\ g * q \in Int
  BY <1>1, <1>4, <1>5
<1>9. g * q >= bytes
  BY <1>1, <1>4, <1>8
<1> QED BY <1>2, <1>4, <1>5, <1>6, <1>7, <1>8, <1>9

-----------------------------------------------------------------------------
\* The size of a block a caller holds.
Size(b) == SizeOf(ClassOf(b.bytes))

\* The cells from a on and those from b on, m and n of them, are not the same.
Apart(a, m, b, n) == a + m <= b \/ b + n <= a

\* m cells from a on lie in one of n chunks.
Inside(a, m, n) ==
  \E c \in 0 .. n - 1 : c * ChunkBytes <= a /\ a + m <= c * ChunkBytes + ChunkBytes

PoolTypeOK ==
  /\ free \in [Classes -> Nat \cup {Null}]
  /\ link = [a \in DOMAIN link |-> link[a]] /\ IsFiniteSet(DOMAIN link)
  /\ carve_left \in Nat /\ carve \in Int /\ chunks \in Nat
  /\ IsFiniteSet(live)

\* kind is the class of every block carved so far, by its address: they and the
\* part still to be carved lie apart, each in one chunk.
Laid(kind) ==
  /\ \A a \in DOMAIN kind : a \in Nat /\ kind[a] \in Classes /\ Inside(a, SizeOf(kind[a]), chunks)
  /\ \A a, b \in DOMAIN kind : a # b => Apart(a, SizeOf(kind[a]), b, SizeOf(kind[b]))
  /\ carve_left > 0 =>
       /\ carve \in Nat /\ Inside(carve, carve_left, chunks)
       /\ \A a \in DOMAIN kind : Apart(a, SizeOf(kind[a]), carve, carve_left)

\* What the callers hold are carved blocks that are not free, each of them once.
HoldsOnce(kind) ==
  /\ \A b \in live :
       /\ b.at \in DOMAIN kind \ DOMAIN link
       /\ b.bytes \in 1 .. MaxBlock /\ ClassOf(b.bytes) = kind[b.at]
  /\ \A b, d \in live : b.at = d.at => b = d

\* How many blocks are on a list, when depth counts them from its end.
Height(depth, c) == IF free[c] = Null THEN 0 ELSE depth[free[c]]

\* The free blocks of a class are on its list, one above the other.
Lists(kind, depth) ==
  /\ DOMAIN link \subseteq DOMAIN kind
  /\ \A c \in Classes : free[c] # Null => free[c] \in DOMAIN link /\ kind[free[c]] = c
  /\ \A a \in DOMAIN link :
       /\ depth[a] \in Nat /\ depth[a] >= 1 /\ depth[a] <= Height(depth, kind[a])
       /\ depth[a] = 1 => link[a] = Null
       /\ depth[a] > 1 => /\ link[a] \in DOMAIN link /\ kind[link[a]] = kind[a]
                          /\ depth[link[a]] = depth[a] - 1
  /\ \A a, b \in DOMAIN link : kind[a] = kind[b] /\ depth[a] = depth[b] => a = b

SoundPool(kind, depth) == Laid(kind) /\ HoldsOnce(kind) /\ Lists(kind, depth)

PoolInv == PoolTypeOK /\ \E kind, depth : SoundPool(kind, depth)

-----------------------------------------------------------------------------
\* A block is taken from the list of its class.
LEMMA ReuseKeeps ==
  ASSUME PoolInv, NEW bytes \in 1 .. MaxBlock, Reuse(bytes)
  PROVE  PoolInv'
<1> DEFINE cls == ClassOf(bytes)
           a == free[cls]
<1>1. PICK kind, depth : SoundPool(kind, depth)
  BY DEF PoolInv
<1>2. cls \in Classes
  BY ClassFits
<1>3. /\ a # Null /\ free' = [free EXCEPT ![cls] = link[a]]
      /\ link' = [x \in DOMAIN link \ {a} |-> link[x]]
      /\ live' = live \cup {[at |-> a, bytes |-> bytes]}
      /\ carve' = carve /\ carve_left' = carve_left /\ chunks' = chunks
  BY DEF Reuse
<1>4. /\ free \in [Classes -> Nat \cup {Null}]
      /\ IsFiniteSet(DOMAIN link) /\ IsFiniteSet(live)
      /\ carve_left \in Nat /\ carve \in Int /\ chunks \in Nat
  BY DEF PoolInv, PoolTypeOK
<1>5. a \in DOMAIN link /\ kind[a] = cls /\ a \in DOMAIN kind /\ a \in Nat
      /\ depth[a] \in Nat /\ depth[a] >= 1 /\ Height(depth, cls) = depth[a]
  BY <1>1, <1>2, <1>3 DEF SoundPool, Lists, Laid, Height
<1> HIDE DEF a, cls
<1>6. DOMAIN link' = DOMAIN link \ {a} /\ \A x \in DOMAIN link' : link'[x] = link[x]
  BY <1>3
<1>7. link[a] \in Nat \cup {Null}
  BY <1>1, <1>5 DEF SoundPool, Lists, Laid
<1>8. /\ free' \in [Classes -> Nat \cup {Null}] /\ free'[cls] = link[a]
      /\ \A c \in Classes \ {cls} : free'[c] = free[c]
  BY <1>2, <1>3, <1>4, <1>7
<1>9. PoolTypeOK'
  <2>1. IsFiniteSet(DOMAIN link') /\ IsFiniteSet(live')
    BY <1>3, <1>4, <1>6, FS_RemoveElement, FS_AddElement
  <2> QED BY <1>3, <1>4, <1>6, <1>8, <2>1 DEF PoolTypeOK
<1>10. Laid(kind)'
  BY <1>1, <1>3 DEF SoundPool, Laid
<1>11. HoldsOnce(kind)'
  <2> DEFINE e == [at |-> a, bytes |-> bytes]
  <2>1. e.at = a /\ e.bytes = bytes /\ live' = live \cup {e}
    BY <1>3
  <2> HIDE DEF e
  <2>2. \A b \in live : /\ b.at \in DOMAIN kind \ DOMAIN link
                        /\ b.bytes \in 1 .. MaxBlock /\ ClassOf(b.bytes) = kind[b.at]
    BY <1>1 DEF SoundPool, HoldsOnce
  <2>3. \A b, d \in live : b.at = d.at => b = d
    BY <1>1 DEF SoundPool, HoldsOnce
  <2>4. \A b \in live' : /\ b.at \in DOMAIN kind \ DOMAIN link'
                         /\ b.bytes \in 1 .. MaxBlock /\ ClassOf(b.bytes) = kind[b.at]
    BY <1>5, <1>6, <2>1, <2>2 DEF cls
  <2>5. \A b, d \in live' : b.at = d.at => b = d
    BY <1>5, <2>1, <2>2, <2>3
  <2> QED BY <2>4, <2>5 DEF HoldsOnce
<1>12. Lists(kind, depth)'
  <2>1. DOMAIN link' \subseteq DOMAIN kind
    BY <1>1, <1>6 DEF SoundPool, Lists
  <2>2. ASSUME NEW x \in DOMAIN link'
        PROVE  /\ x \in DOMAIN link /\ x # a /\ link'[x] = link[x]
               /\ kind[x] \in Classes /\ x \in Nat
               /\ depth[x] \in Nat /\ depth[x] >= 1 /\ depth[x] <= Height(depth, kind[x])
               /\ depth[x] = 1 => link[x] = Null
               /\ depth[x] > 1 => /\ link[x] \in DOMAIN link /\ kind[link[x]] = kind[x]
                                  /\ depth[link[x]] = depth[x] - 1
    BY <1>1, <1>6 DEF SoundPool, Lists, Laid
  <2>3. depth[a] = 1 => link[a] = Null
    BY <1>1, <1>5 DEF SoundPool, Lists
  <2>4. depth[a] > 1 => /\ link[a] \in DOMAIN link /\ kind[link[a]] = cls
                        /\ depth[link[a]] = depth[a] - 1 /\ link[a] # a /\ link[a] # Null
    BY <1>1, <1>5 DEF SoundPool, Lists, Laid, Null
  <2>5. Height(depth, cls)' = depth[a] - 1
    BY <1>5, <1>8, <2>3, <2>4 DEF Height
  <2>6. \A c \in Classes \ {cls} : Height(depth, c)' = Height(depth, c)
    BY <1>8 DEF Height
  <2>7. \A x, y \in DOMAIN link : kind[x] = kind[y] /\ depth[x] = depth[y] => x = y
    BY <1>1 DEF SoundPool, Lists
  <2>8. \A c \in Classes : free'[c] # Null => free'[c] \in DOMAIN link' /\ kind[free'[c]] = c
    <3> SUFFICES ASSUME NEW c \in Classes, free'[c] # Null
                 PROVE  free'[c] \in DOMAIN link' /\ kind[free'[c]] = c
      OBVIOUS
    <3>1. CASE c = cls
      BY <1>5, <1>6, <1>8, <2>3, <2>4, <3>1
    <3>2. CASE c # cls
      <4>1. free[c] \in DOMAIN link /\ kind[free[c]] = c
        BY <1>1, <1>8, <3>2 DEF SoundPool, Lists
      <4> QED BY <1>5, <1>6, <1>8, <3>2, <4>1
    <3> QED BY <3>1, <3>2
  <2>9. ASSUME NEW x \in DOMAIN link'
        PROVE  /\ depth[x] \in Nat /\ depth[x] >= 1 /\ depth[x] <= Height(depth, kind[x])'
               /\ depth[x] = 1 => link'[x] = Null
               /\ depth[x] > 1 => /\ link'[x] \in DOMAIN link' /\ kind[link'[x]] = kind[x]
                                  /\ depth[link'[x]] = depth[x] - 1
    <3>1. kind[x] = cls => depth[x] # depth[a]
      BY <1>5, <2>2, <2>7
    <3>2. depth[x] <= Height(depth, kind[x])'
      BY <1>5, <2>2, <2>5, <2>6, <3>1
    <3>3. depth[x] > 1 => link[x] # a
      BY <1>5, <2>2
    <3> QED BY <1>6, <2>2, <3>2, <3>3
  <2> HIDE DEF Height
  <2> QED BY <1>6, <2>1, <2>7, <2>8, <2>9 DEF Lists
<1> QED BY <1>9, <1>10, <1>11, <1>12 DEF PoolInv, SoundPool

\* A block goes back to the list of its class.
LEMMA ReturnKeeps ==
  ASSUME PoolInv, NEW b \in live,
         link' = [x \in DOMAIN link \cup {b.at} |->
                    IF x = b.at THEN free[ClassOf(b.bytes)] ELSE link[x]],
         free' = [free EXCEPT ![ClassOf(b.bytes)] = b.at], live' = live \ {b},
         UNCHANGED <<carve, carve_left, chunks, upstream>>
  PROVE  PoolInv'
<1> DEFINE cls == ClassOf(b.bytes)
           a == b.at
<1>1. PICK kind, depth : SoundPool(kind, depth)
  BY DEF PoolInv
<1>2. /\ a \in DOMAIN kind \ DOMAIN link /\ cls = kind[a] /\ cls \in Classes /\ a \in Nat
      /\ \A d \in live : d.at = a => d = b
  BY <1>1 DEF SoundPool, HoldsOnce, Laid
<1>3. /\ free' = [free EXCEPT ![cls] = a] /\ live' = live \ {b}
      /\ link' = [x \in DOMAIN link \cup {a} |-> IF x = a THEN free[cls] ELSE link[x]]
      /\ carve' = carve /\ carve_left' = carve_left /\ chunks' = chunks
  OBVIOUS
<1>4. /\ free \in [Classes -> Nat \cup {Null}]
      /\ IsFiniteSet(DOMAIN link) /\ IsFiniteSet(live)
      /\ carve_left \in Nat /\ carve \in Int /\ chunks \in Nat
  BY DEF PoolInv, PoolTypeOK
<1> HIDE DEF a, cls
<1>5. /\ DOMAIN link' = DOMAIN link \cup {a} /\ link'[a] = free[cls]
      /\ \A x \in DOMAIN link : x # a /\ link'[x] = link[x]
  BY <1>2, <1>3
<1>a. /\ free \in [Classes -> Nat \cup {Null}] /\ free' = [free EXCEPT ![cls] = a]
      /\ a \in Nat \cup {Null} /\ cls \in Classes
  BY <1>2, <1>3, <1>4
<1>6. /\ free' \in [Classes -> Nat \cup {Null}] /\ free'[cls] = a
      /\ \A c \in Classes \ {cls} : free'[c] = free[c]
  BY <1>a
<1>7. PoolTypeOK'
  <2>1. IsFiniteSet(DOMAIN link') /\ IsFiniteSet(live')
    BY <1>3, <1>4, <1>5, FS_RemoveElement, FS_AddElement
  <2>2. link' = [x \in DOMAIN link' |-> link'[x]]
    BY <1>3
  <2> QED BY <1>3, <1>4, <1>6, <2>1, <2>2 DEF PoolTypeOK
<1> DEFINE h == Height(depth, cls)
<1>b. PICK up : up = [x \in DOMAIN link \cup {a} |-> IF x = a THEN h + 1 ELSE depth[x]]
  OBVIOUS
<1>8. \A x \in DOMAIN link :
        /\ kind[x] \in Classes /\ x \in Nat
        /\ depth[x] \in Nat /\ depth[x] >= 1 /\ depth[x] <= Height(depth, kind[x])
        /\ depth[x] = 1 => link[x] = Null
        /\ depth[x] > 1 => /\ link[x] \in DOMAIN link /\ kind[link[x]] = kind[x]
                           /\ depth[link[x]] = depth[x] - 1
  BY <1>1 DEF SoundPool, Lists, Laid
<1>9. \A x, y \in DOMAIN link : kind[x] = kind[y] /\ depth[x] = depth[y] => x = y
  BY <1>1 DEF SoundPool, Lists
<1>10. \A c \in Classes : free[c] # Null => free[c] \in DOMAIN link /\ kind[free[c]] = c
  BY <1>1 DEF SoundPool, Lists
<1>11. h \in Nat /\ (h = 0 => free[cls] = Null)
       /\ (h > 0 => /\ free[cls] \in DOMAIN link /\ kind[free[cls]] = cls
                    /\ depth[free[cls]] = h)
  BY <1>2, <1>8, <1>10 DEF Height
<1>12. up[a] = h + 1 /\ \A x \in DOMAIN link : up[x] = depth[x]
  BY <1>2, <1>b
<1> HIDE DEF h
<1>13. Height(up, cls)' = h + 1
  BY <1>2, <1>6, <1>12 DEF Height, Null
<1>14. \A c \in Classes \ {cls} : Height(up, c)' = Height(depth, c)
  BY <1>6, <1>10, <1>12 DEF Height
<1>15. Laid(kind)'
  BY <1>1, <1>3 DEF SoundPool, Laid
<1>16. HoldsOnce(kind)'
  BY <1>1, <1>2, <1>3, <1>5 DEF SoundPool, HoldsOnce
<1>17. Lists(kind, up)'
  <2>1. DOMAIN link' \subseteq DOMAIN kind
    BY <1>1, <1>2, <1>5 DEF SoundPool, Lists
  <2>2. \A c \in Classes : free'[c] # Null => free'[c] \in DOMAIN link' /\ kind[free'[c]] = c
    BY <1>2, <1>5, <1>6, <1>10
  <2>3. ASSUME NEW x \in DOMAIN link'
        PROVE  /\ up[x] \in Nat /\ up[x] >= 1 /\ up[x] <= Height(up, kind[x])'
               /\ up[x] = 1 => link'[x] = Null
               /\ up[x] > 1 => /\ link'[x] \in DOMAIN link' /\ kind[link'[x]] = kind[x]
                               /\ up[link'[x]] = up[x] - 1
    <3>1. CASE x = a
      <4>1. up[x] = h + 1 /\ link'[x] = free[cls] /\ Height(up, kind[x])' = h + 1
        BY <1>2, <1>5, <1>12, <1>13, <3>1
      <4>2. up[x] > 1 => /\ link'[x] \in DOMAIN link' /\ kind[link'[x]] = kind[x]
                         /\ up[link'[x]] = up[x] - 1
        BY <1>2, <1>5, <1>11, <1>12, <3>1, <4>1
      <4> QED BY <1>11, <4>1, <4>2
    <3>2. CASE x \in DOMAIN link
      <4>1. depth[x] <= Height(up, kind[x])'
        <5>1. CASE kind[x] = cls
          BY <1>8, <1>11, <1>13, <3>2, <5>1 DEF h
        <5>2. CASE kind[x] # cls
          BY <1>8, <1>14, <3>2, <5>2
        <5> QED BY <5>1, <5>2
      <4> HIDE DEF Height
      <4> QED BY <1>5, <1>8, <1>12, <3>2, <4>1
    <3> QED BY <1>5, <3>1, <3>2
  <2>4. \A x \in DOMAIN link : kind[x] = cls => up[x] # up[a]
    BY <1>8, <1>11, <1>12 DEF h
  <2>5. \A x, y \in DOMAIN link' : kind[x] = kind[y] /\ up[x] = up[y] => x = y
    BY <1>2, <1>5, <1>9, <1>12, <2>4
  <2> HIDE DEF Height
  <2> QED BY <2>1, <2>2, <2>3, <2>5 DEF Lists
<1> QED BY <1>7, <1>15, <1>16, <1>17 DEF PoolInv, SoundPool

\* What lies in one of the chunks lies below the next.
LEMMA InsideIsBelow ==
  ASSUME NEW n \in Nat, NEW a \in Nat, NEW m \in Nat, Inside(a, m, n)
  PROVE  a + m <= n * ChunkBytes /\ Inside(a, m, n + 1)
<1>1. PICK c \in 0 .. n - 1 : c * ChunkBytes <= a /\ a + m <= c * ChunkBytes + ChunkBytes
  BY DEF Inside
<1>2. n > c /\ c \in Int /\ ChunkBytes \in Nat
  BY <1>1, PoolAssumption
<1>3. ChunkBytes * n >= ChunkBytes * c + ChunkBytes
  BY <1>2, ProductGrows
<1>4. ChunkBytes * n = n * ChunkBytes /\ ChunkBytes * c = c * ChunkBytes
      /\ n * ChunkBytes \in Int /\ c * ChunkBytes \in Int
  BY <1>2
<1>5. Inside(a, m, n + 1)
  BY <1>1 DEF Inside
<1> QED BY <1>1, <1>2, <1>3, <1>4, <1>5

\* A block is cut from the chunk, or from a new one.
LEMMA CarveKeeps ==
  ASSUME PoolInv, NEW bytes \in 1 .. MaxBlock, Carve(bytes)
  PROVE  PoolInv'
<1> DEFINE cls == ClassOf(bytes)
           size == SizeOf(cls)
           fresh == NeedsChunk(size)
           place == IF fresh THEN chunks * ChunkBytes ELSE carve
           rest == (IF fresh THEN ChunkBytes ELSE carve_left) - size
<1>1. PICK kind, depth : SoundPool(kind, depth)
  BY DEF PoolInv
<1>2. cls \in Classes /\ size \in Nat /\ size > 0 /\ size <= ChunkBytes /\ ChunkBytes \in Nat
  <2>1. cls \in Classes
    BY ClassFits
  <2> QED BY <2>1, ClassSize, PoolAssumption
<1>3. /\ chunks' = (IF fresh THEN chunks + 1 ELSE chunks)
      /\ carve' = place + size /\ carve_left' = rest
      /\ live' = live \cup {[at |-> place, bytes |-> bytes]}
      /\ free' = free /\ link' = link
  BY DEF Carve
<1>4. /\ free \in [Classes -> Nat \cup {Null}]
      /\ IsFiniteSet(DOMAIN link) /\ IsFiniteSet(live)
      /\ carve_left \in Nat /\ carve \in Int /\ chunks \in Nat
  BY DEF PoolInv, PoolTypeOK
<1>5. /\ \A a \in DOMAIN kind : a \in Nat /\ kind[a] \in Classes /\ SizeOf(kind[a]) \in Nat
                             /\ SizeOf(kind[a]) > 0 /\ Inside(a, SizeOf(kind[a]), chunks)
      /\ carve_left > 0 =>
           /\ carve \in Nat /\ Inside(carve, carve_left, chunks)
           /\ \A a \in DOMAIN kind : Apart(a, SizeOf(kind[a]), carve, carve_left)
  BY <1>1, ClassSize DEF SoundPool, Laid
<1>6. fresh <=> carve_left < size
  BY DEF NeedsChunk
<1> HIDE DEF cls, size, fresh
\* The block and what is left to carve lie apart from every block and in the chunks.
<1>7. /\ place \in Nat /\ rest \in Nat /\ chunks' \in Nat
      /\ Inside(place, size, chunks') /\ Inside(place + size, rest, chunks')
      /\ \A a \in DOMAIN kind : /\ Inside(a, SizeOf(kind[a]), chunks')
                                /\ a # place
                                /\ Apart(a, SizeOf(kind[a]), place, size)
                                /\ Apart(a, SizeOf(kind[a]), place + size, rest)
  <2>1. CASE fresh
    <3> DEFINE base == chunks * ChunkBytes
    <3>1. base \in Nat /\ place = base /\ rest = ChunkBytes - size /\ chunks' = chunks + 1
      BY <1>2, <1>3, <1>4, <2>1
    <3>2. \A a \in DOMAIN kind : a + SizeOf(kind[a]) <= base
                              /\ Inside(a, SizeOf(kind[a]), chunks + 1)
      BY <1>4, <1>5, InsideIsBelow
    <3>3. chunks \in 0 .. (chunks + 1) - 1
      BY <1>4
    <3>4. /\ base <= base /\ base + size <= base + ChunkBytes
          /\ base <= base + size /\ (base + size) + (ChunkBytes - size) <= base + ChunkBytes
      BY <1>2, <3>1
    <3>5. Inside(base, size, chunks + 1) /\ Inside(base + size, ChunkBytes - size, chunks + 1)
      BY <3>3, <3>4 DEF Inside
    <3> HIDE DEF base, place, rest
    <3>6. \A a \in DOMAIN kind : /\ a # base /\ Apart(a, SizeOf(kind[a]), base, size)
                                 /\ Apart(a, SizeOf(kind[a]), base + size, ChunkBytes - size)
      BY <1>2, <1>5, <3>1, <3>2 DEF Apart
    <3> QED BY <1>2, <1>4, <3>1, <3>2, <3>5, <3>6
  <2>2. CASE ~ fresh
    <3>1. /\ place = carve /\ rest = carve_left - size /\ chunks' = chunks
          /\ carve_left >= size /\ carve_left > 0
      BY <1>2, <1>3, <1>4, <1>6, <2>2
    <3> HIDE DEF place, rest
    <3>2. carve \in Nat
      BY <1>5, <3>1
    <3>3. PICK c \in 0 .. chunks - 1 :
            c * ChunkBytes <= carve /\ carve + carve_left <= c * ChunkBytes + ChunkBytes
      BY <1>5, <3>1 DEF Inside
    <3>4. c * ChunkBytes \in Int
      BY <1>2, <3>3
    <3>a. /\ carve + size <= c * ChunkBytes + ChunkBytes
          /\ c * ChunkBytes <= carve + size
          /\ (carve + size) + (carve_left - size) <= c * ChunkBytes + ChunkBytes
      BY <1>2, <1>4, <3>1, <3>2, <3>3, <3>4
    <3>5. Inside(carve, size, chunks) /\ Inside(carve + size, carve_left - size, chunks)
      BY <3>3, <3>a DEF Inside
    <3>6. \A a \in DOMAIN kind : /\ a # carve /\ Apart(a, SizeOf(kind[a]), carve, size)
                                 /\ Apart(a, SizeOf(kind[a]), carve + size, carve_left - size)
      BY <1>2, <1>4, <1>5, <3>1, <3>2 DEF Apart
    <3> QED BY <1>2, <1>4, <1>5, <3>1, <3>2, <3>5, <3>6
  <2> QED BY <2>1, <2>2
<1> HIDE DEF place, rest
<1>b. PICK more : more = [a \in DOMAIN kind \cup {place} |-> IF a = place THEN cls ELSE kind[a]]
  OBVIOUS
<1>8. /\ DOMAIN more = DOMAIN kind \cup {place} /\ more[place] = cls
      /\ \A a \in DOMAIN kind : more[a] = kind[a]
  BY <1>7, <1>b
<1>9. PoolTypeOK'
  <2>1. IsFiniteSet(live')
    BY <1>3, <1>4, FS_AddElement
  <2>2. link' = [x \in DOMAIN link' |-> link'[x]]
    BY <1>3 DEF PoolInv, PoolTypeOK
  <2> QED BY <1>2, <1>3, <1>4, <1>7, <2>1, <2>2 DEF PoolTypeOK
<1>10. Laid(more)'
  <2>1. \A a \in DOMAIN more : a \in Nat /\ more[a] \in Classes
                              /\ Inside(a, SizeOf(more[a]), chunks')
    BY <1>2, <1>5, <1>7, <1>8 DEF size
  <2>2. \A a, b \in DOMAIN more : a # b => Apart(a, SizeOf(more[a]), b, SizeOf(more[b]))
    <3>1. \A a, b \in DOMAIN kind : a # b => Apart(a, SizeOf(kind[a]), b, SizeOf(kind[b]))
      BY <1>1 DEF SoundPool, Laid
    <3>2. \A a \in DOMAIN kind : Apart(a, SizeOf(kind[a]), place, SizeOf(cls))
      BY <1>7 DEF size
    <3>3. \A a \in DOMAIN kind : Apart(place, SizeOf(cls), a, SizeOf(kind[a]))
      BY <3>2 DEF Apart
    <3> QED BY <1>8, <3>1, <3>2, <3>3
  <2>3. \A a \in DOMAIN more : Apart(a, SizeOf(more[a]), carve', carve_left')
    <3>1. Apart(place, SizeOf(cls), carve', carve_left')
      BY <1>2, <1>3, <1>7 DEF Apart, size
    <3> QED BY <1>3, <1>7, <1>8, <3>1
  <2>4. carve' \in Nat /\ Inside(carve', carve_left', chunks')
    BY <1>2, <1>3, <1>7
  <2> QED BY <2>1, <2>2, <2>3, <2>4 DEF Laid
<1>11. HoldsOnce(more)'
  <2> DEFINE e == [at |-> place, bytes |-> bytes]
  <2>1. e.at = place /\ e.bytes = bytes /\ live' = live \cup {e}
    BY <1>3
  <2> HIDE DEF e
  <2>2. place \notin DOMAIN kind /\ place \notin DOMAIN link
    BY <1>1, <1>7 DEF SoundPool, Lists
  <2>3. /\ \A b \in live : /\ b.at \in DOMAIN kind \ DOMAIN link
                           /\ b.bytes \in 1 .. MaxBlock /\ ClassOf(b.bytes) = kind[b.at]
        /\ \A b, d \in live : b.at = d.at => b = d
    BY <1>1 DEF SoundPool, HoldsOnce
  <2>4. \A b \in live' : /\ b.at \in DOMAIN more \ DOMAIN link
                         /\ b.bytes \in 1 .. MaxBlock /\ ClassOf(b.bytes) = more[b.at]
    BY <1>8, <2>1, <2>2, <2>3 DEF cls
  <2>5. \A b, d \in live' : b.at = d.at => b = d
    BY <2>1, <2>2, <2>3
  <2> QED BY <1>3, <2>4, <2>5 DEF HoldsOnce
<1>12. Lists(more, depth)'
  <2>1. Lists(kind, depth)
    BY <1>1 DEF SoundPool
  <2>2. \A x \in DOMAIN link : x \in DOMAIN kind /\ more[x] = kind[x]
    BY <1>8, <2>1 DEF Lists
  <2>3. \A c : Height(depth, c)' = Height(depth, c)
    BY <1>3 DEF Height
  <2>4. DOMAIN link \subseteq DOMAIN more
    BY <1>8, <2>2
  <2>5. \A c \in Classes : free[c] # Null => free[c] \in DOMAIN link /\ more[free[c]] = c
    BY <2>1, <2>2 DEF Lists
  <2>6. \A a \in DOMAIN link :
          /\ depth[a] \in Nat /\ depth[a] >= 1 /\ depth[a] <= Height(depth, more[a])
          /\ depth[a] = 1 => link[a] = Null
          /\ depth[a] > 1 => /\ link[a] \in DOMAIN link /\ more[link[a]] = more[a]
                             /\ depth[link[a]] = depth[a] - 1
    BY <2>1, <2>2 DEF Lists
  <2>7. \A a, b \in DOMAIN link : more[a] = more[b] /\ depth[a] = depth[b] => a = b
    BY <2>1, <2>2 DEF Lists
  <2> HIDE DEF Height
  <2> QED BY <1>3, <2>3, <2>4, <2>5, <2>6, <2>7 DEF Lists
<1> QED BY <1>9, <1>10, <1>11, <1>12 DEF PoolInv, SoundPool

\* A pool that holds nothing.
LEMMA EmptyPool ==
  /\ PoolInit => PoolInv
  /\ ReleaseAll => PoolInv'
<1> DEFINE none == [a \in {} |-> 0]
           lists == [c \in Classes |-> Null]
           links == [a \in {} |-> Null]
<1>1. /\ lists \in [Classes -> Nat \cup {Null}] /\ \A c \in Classes : lists[c] = Null
      /\ DOMAIN links = {} /\ links = [a \in DOMAIN links |-> links[a]]
      /\ DOMAIN none = {} /\ IsFiniteSet({}) /\ Null \in Int
  BY FS_EmptySet DEF Null
<1> HIDE DEF none, lists, links
<1>2. ASSUME PoolInit PROVE PoolInv
  <2>1. /\ free = lists /\ link = links /\ carve = Null /\ carve_left = 0 /\ chunks = 0
        /\ live = {}
    BY <1>2 DEF PoolInit, lists, links
  <2>2. PoolTypeOK
    BY <1>1, <2>1 DEF PoolTypeOK
  <2>3. SoundPool(none, none)
    BY <1>1, <2>1 DEF SoundPool, Laid, HoldsOnce, Lists
  <2> QED BY <2>2, <2>3 DEF PoolInv
<1>3. ASSUME ReleaseAll PROVE PoolInv'
  <2>1. /\ free' = lists /\ link' = links /\ carve' = Null /\ carve_left' = 0 /\ chunks' = 0
        /\ live' = {}
    BY <1>3 DEF ReleaseAll, lists, links
  <2>2. PoolTypeOK'
    BY <1>1, <2>1 DEF PoolTypeOK
  <2>3. SoundPool(none, none)'
    BY <1>1, <2>1 DEF SoundPool, Laid, HoldsOnce, Lists
  <2> QED BY <2>2, <2>3 DEF PoolInv
<1> QED BY <1>2, <1>3

(* A block carved is held or on the list of its class, one of the two and  *)
(* only once (pool_resource.hpp, do_allocate and do_deallocate).           *)
THEOREM PoolInvHolds ==
  PoolSpec => []PoolInv
<1>1. PoolInit => PoolInv
  BY EmptyPool
<1>2. PoolInv /\ [PoolNext]_poolVars => PoolInv'
  <2> SUFFICES ASSUME PoolInv, [PoolNext]_poolVars PROVE PoolInv'
    OBVIOUS
  <2>0. ASSUME UNCHANGED <<free, link, carve, carve_left, chunks, live>> PROVE PoolInv'
    BY <2>0 DEF PoolInv, PoolTypeOK, SoundPool, Laid, HoldsOnce, Lists, Height
  <2>1. ASSUME NEW request \in Requests, Allocate(AtLeastOne(request))
        PROVE  PoolInv'
    <3> DEFINE bytes == AtLeastOne(request)
    <3>1. bytes \in Nat /\ bytes >= 1 /\ MaxBlock \in Nat
      BY PoolAssumption DEF AtLeastOne
    <3> HIDE DEF bytes
    <3>2. CASE bytes <= MaxBlock /\ (Reuse(bytes) \/ Carve(bytes))
      <4>1. bytes \in 1 .. MaxBlock
        BY <3>1, <3>2
      <4> QED BY <3>2, <4>1, ReuseKeeps, CarveKeeps
    <3>3. CASE UNCHANGED <<free, link, carve, carve_left, chunks, live>>
      BY <2>0, <3>3
    <3> QED BY <2>1, <3>2, <3>3 DEF Allocate, bytes
  <2>2. CASE Deallocate
    <3>1. CASE UNCHANGED <<free, link, carve, carve_left, chunks, live>>
      BY <2>0, <3>1
    <3>2. ASSUME NEW b \in live,
                 link' = [x \in DOMAIN link \cup {b.at} |->
                            IF x = b.at THEN free[ClassOf(b.bytes)] ELSE link[x]],
                 free' = [free EXCEPT ![ClassOf(b.bytes)] = b.at], live' = live \ {b},
                 UNCHANGED <<carve, carve_left, chunks, upstream>>
          PROVE  PoolInv'
      BY <3>2, ReturnKeeps
    <3> QED BY <2>2, <3>1, <3>2 DEF Deallocate
  <2>3. CASE ReleaseAll
    BY <2>3, EmptyPool
  <2>4. CASE UNCHANGED poolVars
    BY <2>0, <2>4 DEF poolVars
  <2> QED BY <2>1, <2>2, <2>3, <2>4 DEF PoolNext
<1> QED BY <1>1, <1>2, PTL DEF PoolSpec

-----------------------------------------------------------------------------
\* The block below on the list of its class.
Below(x) == IF x \in DOMAIN link THEN link[x] ELSE Null

\* Down a list the depth falls by one, to its end.
Descended(kind, depth, c, w, i) ==
  /\ Height(depth, c) \in Nat
  /\ i < Height(depth, c) => /\ w[i] \in DOMAIN link /\ kind[w[i]] = c
                             /\ depth[w[i]] = Height(depth, c) - i
  /\ i >= Height(depth, c) => w[i] = Null

\* Walking down a list, the depths fall one by one and no block comes twice.
LEMMA Descent ==
  ASSUME NEW kind, NEW depth, Laid(kind), Lists(kind, depth), NEW c \in Classes,
         NEW m \in Nat, NEW w, w[0] = free[c], \A d \in 1 .. m : w[d] = Below(w[d - 1]),
         NEW i \in 0 .. m
  PROVE  Descended(kind, depth, c, w, i)
<1> DEFINE h == Height(depth, c)
           At(j) == /\ j < h => w[j] \in DOMAIN link /\ kind[w[j]] = c /\ depth[w[j]] = h - j
                    /\ j >= h => w[j] = Null
           G == {j \in Nat : j <= m => At(j)}
<1>1. \A a \in DOMAIN link :
        /\ a \in Nat /\ depth[a] \in Nat /\ depth[a] >= 1
        /\ depth[a] = 1 => link[a] = Null
        /\ depth[a] > 1 => /\ link[a] \in DOMAIN link /\ kind[link[a]] = kind[a]
                           /\ depth[link[a]] = depth[a] - 1
  BY DEF Lists, Laid
<1>m. DOMAIN link \subseteq Nat
  BY <1>1
<1>n. Null \notin DOMAIN link
  BY <1>m DEF Null
<1>2. free[c] # Null => free[c] \in DOMAIN link /\ kind[free[c]] = c
  BY DEF Lists
<1>3. /\ h \in Nat /\ (h = 0 => free[c] = Null)
      /\ (h > 0 => free[c] \in DOMAIN link /\ kind[free[c]] = c /\ depth[free[c]] = h)
  BY <1>1, <1>2 DEF Height
<1> HIDE DEF h
<1>4. 0 \in G
  <2>1. At(0)
    BY <1>3
  <2> QED BY <2>1
<1>5. ASSUME NEW j \in Nat, j \in G PROVE j + 1 \in G
  <2> SUFFICES ASSUME j + 1 <= m PROVE At(j + 1)
    OBVIOUS
  <2>1. At(j)
    BY <1>5
  <2>2. w[j + 1] = Below(w[j])
    <3>1. j + 1 \in 1 .. m /\ (j + 1) - 1 = j
      OBVIOUS
    <3> QED BY <3>1
  <2>3. CASE j < h
    <3>1. w[j] \in DOMAIN link /\ kind[w[j]] = c /\ depth[w[j]] = h - j /\ w[j + 1] = link[w[j]]
      BY <2>1, <2>2, <2>3 DEF Below
    <3>2. CASE h - j = 1
      BY <1>1, <1>3, <3>1, <3>2
    <3>3. CASE h - j > 1
      BY <1>1, <1>3, <3>1, <3>3
    <3> QED BY <1>3, <2>3, <3>2, <3>3
  <2>4. CASE j >= h
    <3>1. w[j] = Null
      BY <2>1, <2>4
    <3>2. w[j + 1] = Null
      BY <1>n, <2>2, <3>1 DEF Below
    <3> QED BY <1>3, <2>4, <3>2
  <2> QED BY <1>3, <2>3, <2>4
<1> HIDE DEF G
<1>6. Nat \subseteq G
  BY <1>4, <1>5, CountingUp
<1> QED BY <1>3, <1>6 DEF G, h, Descended

\* Walking down a list from its head, n steps.
LEMMA WalkDown ==
  ASSUME NEW kind, NEW depth, Laid(kind), Lists(kind, depth), NEW c \in Classes, NEW n \in Nat
  PROVE  \E w \in [0 .. n -> DOMAIN link \cup {Null}] :
           w[0] = free[c] /\ \A d \in 1 .. n : w[d] = Below(w[d - 1])
<1> DEFINE S == DOMAIN link \cup {Null}
           f == [x \in S |-> Below(x)]
<1>1. \A x \in S : Below(x) \in S
  BY DEF Lists, Below
<1>2. free[c] \in S
  BY DEF Lists
<1> HIDE DEF S
<1>3. f \in [S -> S]
  BY <1>1
<1>a. \A x \in S : f[x] = Below(x)
  OBVIOUS
<1> HIDE DEF f
<1>b. PICK w : Iterates(w, S, free[c], f, n)
  BY <1>2, <1>3, Iteration
<1>4. w \in [0 .. n -> S] /\ w[0] = free[c] /\ \A d \in 1 .. n : w[d] = f[w[d - 1]]
  BY <1>b DEF Iterates
<1>5. \A d \in 1 .. n : w[d] = Below(w[d - 1])
  <2> SUFFICES ASSUME NEW d \in 1 .. n PROVE w[d] = Below(w[d - 1])
    OBVIOUS
  <2>1. w[d - 1] \in S
    BY <1>4
  <2> QED BY <1>a, <1>4, <2>1
<1> QED BY <1>4, <1>5 DEF S

\* What a walk from the head of a list finds is the free blocks of its class.
LEMMA ListedIsKind ==
  ASSUME PoolTypeOK, NEW kind, NEW depth, Laid(kind), Lists(kind, depth), NEW c \in Classes
  PROVE  Listed(c) = {a \in DOMAIN link : kind[a] = c}
<1> DEFINE n == Cardinality(DOMAIN link)
           h == Height(depth, c)
           P(w) == w = [i \in 0 .. n |-> IF i = 0 THEN free[c]
                          ELSE IF w[i - 1] \in DOMAIN link THEN link[w[i - 1]] ELSE Null]
           node == CHOOSE w : P(w)
<1>1. n \in Nat /\ IsFiniteSet(DOMAIN link)
  BY FS_CardinalityType DEF PoolTypeOK
<1>2. Listed(c) = {node[i] : i \in DOMAIN node} \ {Null}
  BY DEF Listed
<1> HIDE DEF n
<1>3. P(node)
  <2>1. PICK w \in [0 .. n -> DOMAIN link \cup {Null}] :
           w[0] = free[c] /\ \A d \in 1 .. n : w[d] = Below(w[d - 1])
    BY <1>1, WalkDown
  <2>2. \A d \in 1 .. n : w[d] = IF w[d - 1] \in DOMAIN link THEN link[w[d - 1]] ELSE Null
    BY <2>1 DEF Below
  <2>3. P(w)
    BY <1>1, <2>1, <2>2
  <2> QED BY <2>3
<1> HIDE DEF node
<1>4. DOMAIN node = 0 .. n /\ node[0] = free[c] /\ \A d \in 1 .. n : node[d] = Below(node[d - 1])
  BY <1>1, <1>3 DEF Below
<1> HIDE DEF P
<1>5. /\ \A a \in DOMAIN link :
           /\ a \in Nat /\ a # Null /\ depth[a] \in Nat /\ depth[a] >= 1
           /\ depth[a] <= Height(depth, kind[a])
      /\ \A a, b \in DOMAIN link : kind[a] = kind[b] /\ depth[a] = depth[b] => a = b
  BY DEF Lists, Laid, Null
<1>a. n \in Nat /\ node[0] = free[c]
  BY <1>1, <1>4
<1>b. \A d \in 1 .. n : node[d] = Below(node[d - 1])
  BY <1>4
<1>c. \A i \in 0 .. n : Descended(kind, depth, c, node, i)
  BY <1>a, <1>b, Descent
<1>6. h \in Nat
  <2>1. 0 \in 0 .. n
    BY <1>1
  <2> QED BY <1>c, <2>1 DEF Descended
<1>7. \A i \in 0 .. n : /\ i < h => /\ node[i] \in DOMAIN link /\ kind[node[i]] = c
                                    /\ depth[node[i]] = h - i
                        /\ i >= h => node[i] = Null
  BY <1>c DEF Descended
<1>8. \* A list is no longer than there are free blocks.
      h <= n
  <2>1. CASE h = 0
    BY <1>1, <2>1
  <2>2. CASE h > 0
    <3>1. h - 1 \in Nat
      BY <1>6, <2>2
    <3> DEFINE k == h - 1
    <3>2. PICK w \in [0 .. k -> DOMAIN link \cup {Null}] :
            w[0] = free[c] /\ \A d \in 1 .. k : w[d] = Below(w[d - 1])
      BY <3>1, WalkDown
    <3>a. \A i \in 0 .. k : Descended(kind, depth, c, w, i)
      BY <3>1, <3>2, Descent
    <3>3. \A i \in 0 .. k : w[i] \in DOMAIN link /\ depth[w[i]] = h - i
      BY <1>6, <3>a DEF Descended
    <3>4. w \in Injection(0 .. k, DOMAIN link)
      <4>1. w \in [0 .. k -> DOMAIN link]
        BY <3>2, <3>3
      <4>2. \A i, j \in 0 .. k : w[i] = w[j] => i = j
        <5> SUFFICES ASSUME NEW i \in 0 .. k, NEW j \in 0 .. k, w[i] = w[j] PROVE i = j
          OBVIOUS
        <5>1. h - i = h - j
          BY <3>3
        <5> QED BY <1>6, <5>1
      <4> QED BY <4>1, <4>2 DEF Injection, IsInjective
    <3>5. Cardinality(0 .. k) <= Cardinality(DOMAIN link)
      BY <1>1, <3>4, FS_Injection
    <3>6. Cardinality(0 .. k) = h
      BY <1>6, <3>1, FS_Interval
    <3> QED BY <3>5, <3>6 DEF n
  <2> QED BY <1>6, <2>1, <2>2
<1>9. ASSUME NEW a \in DOMAIN link, kind[a] = c PROVE \E i \in 0 .. n : node[i] = a
  <2> DEFINE i == h - depth[a]
  <2>1. depth[a] \in Nat /\ depth[a] >= 1 /\ depth[a] <= h
    BY <1>5, <1>9
  <2>2. i \in 0 .. n /\ i < h /\ h - i = depth[a]
    BY <1>1, <1>6, <1>8, <2>1
  <2> HIDE DEF i, h
  <2>3. node[i] \in DOMAIN link /\ kind[node[i]] = c /\ depth[node[i]] = h - i
    BY <1>7, <2>2
  <2>4. node[i] = a
    BY <1>5, <1>9, <2>2, <2>3
  <2> QED BY <2>2, <2>4
<1>10. ASSUME NEW i \in 0 .. n, node[i] # Null PROVE node[i] \in DOMAIN link /\ kind[node[i]] = c
  <2>1. i < h \/ i >= h
    BY <1>1, <1>6
  <2> HIDE DEF h
  <2> QED BY <1>7, <1>10, <2>1
<1> QED BY <1>2, <1>4, <1>5, <1>9, <1>10

\* Cells that begin and end apart are not the same, and none is there twice.
LEMMA CellsApart ==
  ASSUME NEW a \in Nat, NEW m \in Nat, m > 0, NEW b \in Nat, NEW n \in Nat, n > 0
  PROVE  /\ Apart(a, m, b, n) => Cells(a, m) \cap Cells(b, n) = {} /\ Cells(a, m) # Cells(b, n)
         /\ Cells(a, m) = Cells(b, n) => a = b
         /\ Cells(a, m) # {}
<1>1. a \in Cells(a, m) /\ b \in Cells(b, n)
  BY DEF Cells
<1>2. Apart(a, m, b, n) => Cells(a, m) \cap Cells(b, n) = {}
  BY DEF Cells, Apart
<1>3. ASSUME Cells(a, m) = Cells(b, n) PROVE a = b
  <2>1. a \in Cells(b, n) /\ b \in Cells(a, m)
    BY <1>1, <1>3
  <2> QED BY <2>1 DEF Cells
<1> QED BY <1>1, <1>2, <1>3

\* A block inside a chunk has no cell outside it.
LEMMA CellsInside ==
  ASSUME NEW a \in Nat, NEW m \in Nat, NEW n \in Nat, Inside(a, m, n)
  PROVE  \E c \in 0 .. (n - 1) : Cells(a, m) \subseteq Cells(c * ChunkBytes, ChunkBytes)
<1>1. PICK c \in 0 .. n - 1 : c * ChunkBytes <= a /\ a + m <= c * ChunkBytes + ChunkBytes
  BY DEF Inside
<1>2. c * ChunkBytes \in Int /\ ChunkBytes \in Int
  BY PoolAssumption
<1>3. Cells(a, m) \subseteq Cells(c * ChunkBytes, ChunkBytes)
  BY <1>1, <1>2 DEF Cells
<1> QED BY <1>1, <1>3

(* Every block a caller holds lies in one chunk and is as large as was     *)
(* asked, no two overlap, none overlaps a free block, whose link it would  *)
(* overwrite, or what is still to be carved, and a free block is on one    *)
(* list only (pool_resource.hpp, do_allocate and do_deallocate).           *)
THEOREM BlocksAreDisjointAlways ==
  PoolSpec => []BlocksAreDisjoint
<1>1. PoolInv => BlocksAreDisjoint
  <2> SUFFICES ASSUME PoolInv PROVE BlocksAreDisjoint
    OBVIOUS
  <2>1. PICK kind, depth : SoundPool(kind, depth)
    BY DEF PoolInv
  <2>2. /\ IsFiniteSet(DOMAIN link) /\ IsFiniteSet(live)
        /\ carve_left \in Nat /\ chunks \in Nat
    BY DEF PoolInv, PoolTypeOK
  <2>3. /\ \A a \in DOMAIN kind : a \in Nat /\ kind[a] \in Classes /\ SizeOf(kind[a]) \in Nat
                               /\ SizeOf(kind[a]) > 0 /\ Inside(a, SizeOf(kind[a]), chunks)
        /\ \A a, b \in DOMAIN kind : a # b => Apart(a, SizeOf(kind[a]), b, SizeOf(kind[b]))
        /\ carve_left > 0 =>
             /\ carve \in Nat /\ Inside(carve, carve_left, chunks)
             /\ \A a \in DOMAIN kind : Apart(a, SizeOf(kind[a]), carve, carve_left)
    BY <2>1, ClassSize DEF SoundPool, Laid
  <2>4. /\ \A b \in live : /\ b.at \in DOMAIN kind \ DOMAIN link
                           /\ b.bytes \in 1 .. MaxBlock /\ ClassOf(b.bytes) = kind[b.at]
        /\ \A b, d \in live : b.at = d.at => b = d
        /\ DOMAIN link \subseteq DOMAIN kind
    BY <2>1 DEF SoundPool, HoldsOnce, Lists
  <2> DEFINE Block(a) == Cells(a, SizeOf(kind[a]))
             held == {Cells(b.at, SizeOf(ClassOf(b.bytes))) : b \in live}
             listed == UNION {{Cells(a, SizeOf(c)) : a \in Listed(c)} : c \in Classes}
             uncarved == IF carve_left = 0 THEN {} ELSE {Cells(carve, carve_left)}
             parts == held \cup listed \cup uncarved
  <2>5. held = {Block(b.at) : b \in live}
    BY <2>4
  <2>6. listed = {Block(a) : a \in DOMAIN link}
    <3>1. \A c \in Classes : Listed(c) = {a \in DOMAIN link : kind[a] = c}
      BY <2>1, ListedIsKind DEF PoolInv, SoundPool
    <3>2. \A a \in DOMAIN link : kind[a] \in Classes
      BY <2>3, <2>4
    <3> QED BY <3>1, <3>2
  <2>7. \A a, b \in DOMAIN kind : /\ Block(a) = Block(b) => a = b
                                  /\ a # b => Block(a) \cap Block(b) = {}
                                  /\ Block(a) # {}
    BY <2>3, CellsApart
  <2>8. carve_left > 0 =>
          \A a \in DOMAIN kind : /\ Block(a) # Cells(carve, carve_left)
                                 /\ Block(a) \cap Cells(carve, carve_left) = {}
    BY <2>2, <2>3, CellsApart
  <2>9. /\ \A a \in DOMAIN kind : \E c \in 0 .. (chunks - 1) :
             Block(a) \subseteq Cells(c * ChunkBytes, ChunkBytes)
        /\ carve_left > 0 => \E c \in 0 .. (chunks - 1) :
             Cells(carve, carve_left) \subseteq Cells(c * ChunkBytes, ChunkBytes)
    BY <2>2, <2>3, CellsInside
  <2>10. \A b \in live : SizeOf(ClassOf(b.bytes)) >= b.bytes
    BY <2>4, ClassFits
  <2> HIDE DEF Block, held, listed
  <2>11. Cardinality(held) = Cardinality(live)
    <3>0. \A b, d \in live : Block(b.at) = Block(d.at) => b = d
      <4> SUFFICES ASSUME NEW b \in live, NEW d \in live, Block(b.at) = Block(d.at) PROVE b = d
        OBVIOUS
      <4>1. b.at \in DOMAIN kind /\ d.at \in DOMAIN kind
        BY <2>4
      <4>2. b.at = d.at
        BY <2>7, <4>1
      <4> QED BY <2>4, <4>2
    <3> DEFINE f == [b \in live |-> Block(b.at)]
    <3>1. f \in [live -> held]
      BY <2>5
    <3>2. \A b, d \in live : f[b] = f[d] => b = d
      BY <3>0
    <3>3. \A t \in held : \E b \in live : f[b] = t
      BY <2>5
    <3> HIDE DEF f
    <3>4. ExistsBijection(live, held)
      BY <3>1, <3>2, <3>3, OneToOne
    <3> QED BY <2>2, <3>4, FS_Bijection
  <2>12. Cardinality(listed) = Cardinality(DOMAIN link)
    <3>0. \A a, b \in DOMAIN link : Block(a) = Block(b) => a = b
      BY <2>4, <2>7
    <3> DEFINE f == [a \in DOMAIN link |-> Block(a)]
    <3>1. f \in [DOMAIN link -> listed]
      BY <2>6
    <3>2. \A a, b \in DOMAIN link : f[a] = f[b] => a = b
      BY <3>0
    <3>3. \A t \in listed : \E a \in DOMAIN link : f[a] = t
      BY <2>6
    <3> HIDE DEF f
    <3>4. ExistsBijection(DOMAIN link, listed)
      BY <3>1, <3>2, <3>3, OneToOne
    <3> QED BY <2>2, <3>4, FS_Bijection
  <2>13. \A p \in held \cup listed : \E a \in DOMAIN kind : p = Block(a)
    BY <2>4, <2>5, <2>6
  <2>14. \A p \in uncarved : carve_left > 0 /\ p = Cells(carve, carve_left)
    BY <2>2
  <2>15. held \cap (listed \cup uncarved) = {}
    <3>1. \A b \in live, a \in DOMAIN link : Block(b.at) # Block(a)
      <4> SUFFICES ASSUME NEW b \in live, NEW a \in DOMAIN link, Block(b.at) = Block(a) PROVE FALSE
        OBVIOUS
      <4>1. b.at \in DOMAIN kind /\ a \in DOMAIN kind /\ b.at # a
        BY <2>4
      <4> QED BY <2>7, <4>1
    <3>2. held \cap listed = {}
      BY <2>5, <2>6, <3>1
    <3>3. held \cap uncarved = {}
      BY <2>8, <2>13, <2>14
    <3> QED BY <3>2, <3>3
  <2>16. \A p, q \in parts : p # q => p \cap q = {}
    <3> HIDE DEF uncarved
    <3> SUFFICES ASSUME NEW p \in parts, NEW q \in parts, p # q PROVE p \cap q = {}
      OBVIOUS
    <3>1. CASE p \in held \cup listed /\ q \in held \cup listed
      BY <2>7, <2>13, <3>1
    <3>2. CASE p \in held \cup listed /\ q \in uncarved
      BY <2>8, <2>13, <2>14, <3>2
    <3>3. CASE p \in uncarved /\ q \in held \cup listed
      BY <2>8, <2>13, <2>14, <3>3
    <3>4. CASE p \in uncarved /\ q \in uncarved
      BY <2>14, <3>4
    <3> QED BY <3>1, <3>2, <3>3, <3>4
  <2>17. \A p \in parts : \E c \in 0 .. (chunks - 1) : p \subseteq Cells(c * ChunkBytes, ChunkBytes)
    <3> HIDE DEF uncarved
    <3> QED BY <2>9, <2>13, <2>14
  <2> QED BY <2>10, <2>11, <2>12, <2>15, <2>16, <2>17
          DEF BlocksAreDisjoint, held, listed
<1> QED BY <1>1, PoolInvHolds, PTL

-----------------------------------------------------------------------------
(***************************************************************************)
(* The file reader.  The buffer holds an unbroken stretch of the file, and *)
(* its first unread byte is where the next frame starts: so the two bytes  *)
(* there are a prefix, and a refill, whatever it is given, moves neither.  *)
(***************************************************************************)
\* Bytes buf[p] .. buf[e - 1] of a buffer are those of the file before c.
Window(buf, p, e, c) ==
  /\ buf \in [0 .. BufferSize - 1 -> Int]
  /\ p \in Nat /\ e \in Nat /\ c \in Nat
  /\ p <= e /\ e <= BufferSize /\ e - p <= c /\ c <= fileSize
  /\ \A i \in 0 .. BufferSize - 1 : p <= i /\ i < e => buf[i] = c - e + i

FileTypeOK ==
  /\ frames \in Seq(Nat) /\ fileSize \in Nat
  /\ spans \in Seq(Seq(Int)) /\ done \in BOOLEAN

\* What is handed out are the frames up to here, each a whole one.
FramesInOrder ==
  /\ Len(spans) <= Len(frames)
  /\ \A k \in 1 .. Len(spans) :
       Whole(k) /\ spans[k] = [i \in 1 .. frames[k] |-> StartOf[k] + 1 + i]

\* While the reader goes on it stands where the next frame starts.
AtNextFrame ==
  ~ done => truncated = 0 /\ consumed - (end_ - pos_) = StartOf[Len(spans) + 1]

\* It stops for a reason, and counts a frame that was cut off.
StopsForAReason ==
  done => LET n == Len(spans)
          IN  /\ n < Len(frames) => ~ Whole(n + 1)
              /\ (truncated = 1) <=> (n < Len(frames) /\ frames[n + 1] # 0
                                        /\ StartOf[n + 1] + 2 <= fileSize)

FileInv ==
  /\ FileTypeOK /\ Window(data, pos_, end_, consumed)
  /\ fileSize <= StartOf[Len(frames) + 1]
  /\ FramesInOrder /\ AtNextFrame /\ StopsForAReason

-----------------------------------------------------------------------------
\* The totals of the first numbers of a list.
LEMMA RunningTotal ==
  ASSUME NEW n \in Nat, NEW g, \A d \in 1 .. n : g[d] \in Nat
  PROVE  \E w \in [0 .. n -> Nat] : w[0] = 0 /\ \A d \in 1 .. n : w[d] = w[d - 1] + g[d]
<1> DEFINE S == Nat
           F == [d \in 1 .. n |-> [s \in S |-> s + g[d]]]
<1>1. F \in [1 .. n -> [S -> S]]
  OBVIOUS
<1>2. \A d \in 1 .. n, s \in S : F[d][s] = s + g[d]
  OBVIOUS
<1>3. PICK a : a \in S /\ a = 0
  OBVIOUS
<1>4. n \in Nat
  OBVIOUS
<1>5. a \in S
  BY <1>3
<1> HIDE DEF F, S
<1>r. PICK w : Follows(w, S, a, n, F)
  BY <1>1, <1>4, <1>5, Recursion
<1>6. w \in [0 .. n -> S] /\ w[0] = a /\ \A d \in 1 .. n : w[d] = F[d][w[d - 1]]
  BY <1>r DEF Follows
<1>7. \A d \in 1 .. n : w[d] = w[d - 1] + g[d]
  <2> SUFFICES ASSUME NEW d \in 1 .. n PROVE w[d] = w[d - 1] + g[d]
    OBVIOUS
  <2>1. w[d - 1] \in S
    BY <1>4, <1>6
  <2> QED BY <1>2, <1>6, <2>1
<1> QED BY <1>3, <1>6, <1>7 DEF S

\* The start of a frame is where the one before it ends.
LEMMA StartFacts ==
  ASSUME frames \in Seq(Nat)
  PROVE  /\ Len(frames) \in Nat
         /\ StartOf[1] = 0
         /\ \A k \in 1 .. Len(frames) : frames[k] \in Nat /\ StartOf[k + 1] = StartOf[k] + (2 + frames[k])
         /\ \A k \in 1 .. Len(frames) + 1 : StartOf[k] \in Nat
<1> DEFINE n == Len(frames)
           P(f) == f = [k \in 1 .. n + 1 |-> IF k = 1 THEN 0 ELSE f[k - 1] + FrameSize(frames[k - 1])]
           g == [d \in 1 .. n |-> FrameSize(frames[d])]
<1>1. n \in Nat /\ \A k \in 1 .. n : frames[k] \in Nat
  BY ElementOfSeq, LenProperties
<1> HIDE DEF n
<1>2. \A d \in 1 .. n : FrameSize(frames[d]) \in Nat
  BY <1>1 DEF FrameSize
<1>3. g \in [1 .. n -> Nat] /\ \A d \in 1 .. n : g[d] = FrameSize(frames[d])
  BY <1>2
<1> HIDE DEF g
<1>n. n \in Nat
  BY <1>1
<1>r. \A d \in 1 .. n : g[d] \in Nat
  BY <1>3
<1>4. PICK w \in [0 .. n -> Nat] : w[0] = 0 /\ \A d \in 1 .. n : w[d] = w[d - 1] + g[d]
  BY <1>n, <1>r, RunningTotal
<1>5. \A d \in 1 .. n : w[d] = w[d - 1] + FrameSize(frames[d])
  BY <1>3, <1>4
<1> DEFINE f == [k \in 1 .. n + 1 |-> w[k - 1]]
<1>6. \A k \in 1 .. n + 1 : f[k] = IF k = 1 THEN 0 ELSE f[k - 1] + FrameSize(frames[k - 1])
  <2> SUFFICES ASSUME NEW k \in 1 .. n + 1
               PROVE  f[k] = IF k = 1 THEN 0 ELSE f[k - 1] + FrameSize(frames[k - 1])
    OBVIOUS
  <2>1. CASE k = 1
    BY <1>1, <1>4, <2>1
  <2>2. CASE k # 1
    <3>1. k - 1 \in 1 .. n /\ k - 1 \in 1 .. n + 1
      BY <1>1, <2>2
    <3>2. w[k - 1] = w[(k - 1) - 1] + FrameSize(frames[k - 1])
      BY <1>5, <3>1
    <3> QED BY <2>2, <3>1, <3>2
  <2> QED BY <2>1, <2>2
<1>7. P(f)
  <2>1. f = [k \in 1 .. n + 1 |-> f[k]]
    OBVIOUS
  <2> HIDE DEF f
  <2> QED BY <1>6, <2>1
<1>8. StartOf = CHOOSE h : P(h)
  BY DEF StartOf, n
<1>9. P(StartOf)
  <2> HIDE DEF P, f
  <2> QED BY <1>7, <1>8
<1> HIDE DEF f
<1>a. \A k \in 1 .. n + 1 :
        StartOf[k] = IF k = 1 THEN 0 ELSE StartOf[k - 1] + FrameSize(frames[k - 1])
  BY <1>9
<1> HIDE DEF P
<1>b. StartOf[1] = 0
  BY <1>1, <1>a
<1>c. \A k \in 1 .. n : StartOf[k + 1] = StartOf[k] + (2 + frames[k])
  <2> SUFFICES ASSUME NEW k \in 1 .. n PROVE StartOf[k + 1] = StartOf[k] + (2 + frames[k])
    OBVIOUS
  <2>1. k + 1 \in 1 .. n + 1 /\ k + 1 # 1 /\ (k + 1) - 1 = k
    BY <1>1
  <2> QED BY <1>a, <2>1 DEF FrameSize
<1> DEFINE G == {k \in Nat : k <= n => StartOf[k + 1] \in Nat}
<1>d. 0 \in G
  BY <1>b
<1>e. ASSUME NEW k \in Nat, k \in G PROVE k + 1 \in G
  <2> SUFFICES ASSUME k + 1 <= n PROVE StartOf[(k + 1) + 1] \in Nat
    OBVIOUS
  <2>1. k + 1 \in 1 .. n /\ StartOf[k + 1] \in Nat /\ frames[k + 1] \in Nat
    BY <1>1, <1>e
  <2>2. StartOf[(k + 1) + 1] = StartOf[k + 1] + (2 + frames[k + 1])
    BY <1>c, <2>1
  <2> QED BY <2>1, <2>2
<1> HIDE DEF G
<1>f. Nat \subseteq G
  BY <1>d, <1>e, CountingUp
<1>g. \A k \in 1 .. n + 1 : StartOf[k] \in Nat
  <2> SUFFICES ASSUME NEW k \in 1 .. n + 1 PROVE StartOf[k] \in Nat
    OBVIOUS
  <2>1. k - 1 \in Nat /\ k - 1 <= n /\ (k - 1) + 1 = k
    BY <1>1
  <2>2. k - 1 \in G
    BY <1>f, <2>1
  <2> QED BY <2>1, <2>2 DEF G
<1> QED BY <1>1, <1>b, <1>c, <1>g DEF n

\* Frames start one after the other.
LEMMA StartsAscend ==
  ASSUME frames \in Seq(Nat), NEW j \in 1 .. Len(frames) + 1, NEW k \in 1 .. Len(frames) + 1, j < k
  PROVE  StartOf[j] < StartOf[k]
<1> DEFINE n == Len(frames)
           G == {m \in Nat : j < m /\ m <= n + 1 => StartOf[j] < StartOf[m]}
<1>1. /\ n \in Nat
      /\ \A m \in 1 .. n : frames[m] \in Nat /\ StartOf[m + 1] = StartOf[m] + (2 + frames[m])
      /\ \A m \in 1 .. n + 1 : StartOf[m] \in Nat
  BY StartFacts
<1>0. j \in 1 .. n + 1 /\ k \in 1 .. n + 1
  OBVIOUS
<1> HIDE DEF n
<1>2. 0 \in G
  BY <1>0, <1>1
<1>3. ASSUME NEW m \in Nat, m \in G PROVE m + 1 \in G
  <2> SUFFICES ASSUME j < m + 1, m + 1 <= n + 1 PROVE StartOf[j] < StartOf[m + 1]
    OBVIOUS
  <2>1. m \in 1 .. n /\ m \in 1 .. n + 1
    BY <1>0, <1>1
  <2>2. StartOf[m + 1] = StartOf[m] + (2 + frames[m]) /\ StartOf[m] \in Nat /\ frames[m] \in Nat
    BY <1>1, <2>1
  <2>3. CASE j = m
    BY <2>2, <2>3
  <2>4. CASE j < m
    <3>1. StartOf[j] < StartOf[m] /\ StartOf[j] \in Nat
      BY <1>0, <1>1, <1>3, <2>1, <2>4
    <3>2. \A x, y, z \in Nat : x < y => x < y + (2 + z)
      OBVIOUS
    <3> QED BY <2>2, <3>1, <3>2
  <2> QED BY <1>0, <1>1, <2>1, <2>3, <2>4
<1> HIDE DEF G
<1>4. Nat \subseteq G
  BY <1>2, <1>3, CountingUp
<1> QED BY <1>0, <1>1, <1>4 DEF G

\* Only whole frames are counted.
LEMMA WholeFrames ==
  ASSUME frames \in Seq(Nat), NEW n \in Nat, n <= Len(frames), \A k \in 1 .. n : Whole(k)
  PROVE  /\ LastWhole \in Nat /\ n <= LastWhole
         /\ n < Len(frames) /\ ~ Whole(n + 1) => LastWhole = n
         /\ n = Len(frames) => LastWhole = n
<1>1. Len(frames) \in Nat
  BY LenProperties
<1>a. ASSUME NEW m \in Nat PROVE IsFiniteSet(1 .. m) /\ Cardinality(1 .. m) = m
  <2>1. 1 \in Int /\ m \in Int /\ (1 > m => m = 0) /\ m - 1 + 1 = m
    OBVIOUS
  <2> QED BY <2>1, FS_Interval
<1>2. /\ IsFiniteSet(1 .. Len(frames)) /\ Cardinality(1 .. Len(frames)) = Len(frames)
      /\ IsFiniteSet(1 .. n) /\ Cardinality(1 .. n) = n
  BY <1>1, <1>a
<1>3. 1 .. n \subseteq Readable
  BY <1>1 DEF Readable
<1>4. Readable \subseteq 1 .. Len(frames)
  BY DEF Readable
<1>5. IsFiniteSet(Readable)
  BY <1>2, <1>4, FS_Subset
<1>6. Cardinality(Readable) \in Nat /\ n <= Cardinality(Readable)
  BY <1>2, <1>3, <1>5, FS_Subset, FS_CardinalityType
<1>7. ASSUME n < Len(frames), ~ Whole(n + 1) PROVE Readable \subseteq 1 .. n
  <2> SUFFICES ASSUME NEW k \in Readable, ~ k <= n PROVE FALSE
    BY <1>4
  <2>1. n + 1 \in 1 .. k /\ k \in 1 .. Len(frames)
    BY <1>1, <1>4
  <2> QED BY <1>7, <2>1 DEF Readable
<1>8. n < Len(frames) /\ ~ Whole(n + 1) => Readable = 1 .. n
  BY <1>3, <1>7
<1>9. n = Len(frames) => Readable = 1 .. n
  BY <1>3, <1>4
<1> QED BY <1>2, <1>6, <1>8, <1>9 DEF LastWhole

-----------------------------------------------------------------------------
ReaderType == [ok : BOOLEAN, data : [0 .. BufferSize - 1 -> Int], pos : Nat, end : Nat, consumed : Nat]
WindowOf(r) == Window(r.data, r.pos, r.end, r.consumed)
NextOffset(r) == r.consumed - (r.end - r.pos)

\* The tail at the front and what follows it behind: the buffer holds the bytes of
\* the file from the same offset on.
LEMMA WindowMoves ==
  ASSUME fileSize \in Nat, NEW buf, NEW p, NEW x, NEW c, Window(buf, p, x, c),
         NEW e \in Nat, x - p <= e, e <= BufferSize, e <= x - p + fileSize - c,
         NEW m, m = [i \in 0 .. BufferSize - 1 |-> IF i < x - p THEN buf[p + i] ELSE buf[i]]
  PROVE  Window(Given(m, x - p, e, c), 0, e, c + e - (x - p))
<1>1. /\ p \in Nat /\ x \in Nat /\ c \in Nat /\ BufferSize \in Nat /\ e \in Nat /\ fileSize \in Nat
      /\ p <= x /\ x <= BufferSize /\ x - p <= c /\ c <= fileSize
      /\ x - p <= e /\ e <= BufferSize /\ e <= x - p + fileSize - c
  BY FileAssumption DEF Window
<1>2. /\ \A i \in 0 .. BufferSize - 1 : buf[i] \in Int
      /\ \A i \in 0 .. BufferSize - 1 : p <= i /\ i < x => buf[i] = c - x + i
  BY DEF Window
<1> DEFINE z == Given(m, x - p, e, c)
<1>3. /\ z = [i \in 0 .. BufferSize - 1 |-> z[i]]
      /\ \A i \in 0 .. BufferSize - 1 : z[i] = IF i \in x - p .. e - 1 THEN c + i - (x - p) ELSE m[i]
  BY DEF Given
<1> HIDE DEF z
<1>4. ASSUME NEW i \in 0 .. BufferSize - 1
      PROVE  z[i] \in Int /\ (i < e => z[i] = (c + e - (x - p)) - e + i)
  <2>1. m[i] = IF i < x - p THEN buf[p + i] ELSE buf[i]
    OBVIOUS
  <2>2. CASE i < x - p
    <3>1. p + i \in 0 .. BufferSize - 1 /\ p <= p + i /\ p + i < x
      BY <1>1, <2>2
    <3>2. buf[p + i] = c - x + (p + i)
      BY <1>2, <3>1
    <3>3. ~ i \in x - p .. e - 1
      BY <1>1, <2>2
    <3>4. z[i] = c - x + (p + i)
      BY <1>3, <2>1, <2>2, <3>2, <3>3
    <3> QED BY <1>1, <3>4
  <2>3. CASE ~ i < x - p /\ i < e
    <3>1. i \in x - p .. e - 1
      BY <1>1, <2>3
    <3>2. z[i] = c + i - (x - p)
      BY <1>3, <3>1
    <3> QED BY <1>1, <3>2
  <2>4. CASE ~ i < x - p /\ ~ i < e
    <3>1. ~ i \in x - p .. e - 1
      BY <1>1, <2>4
    <3>2. z[i] \in Int
      BY <1>2, <1>3, <2>1, <2>4, <3>1
    <3> QED BY <2>4, <3>2
  <2> QED BY <2>2, <2>3, <2>4
<1>5. z \in [0 .. BufferSize - 1 -> Int]
  BY <1>3, <1>4
<1>6. \A i \in 0 .. BufferSize - 1 : 0 <= i /\ i < e => z[i] = (c + e - (x - p)) - e + i
  BY <1>4
<1>7. c + e - (x - p) \in Nat /\ e - 0 <= c + e - (x - p) /\ c + e - (x - p) <= fileSize
  BY <1>1
<1>8. Window(z, 0, e, c + e - (x - p))
  <2>1. 0 \in Nat /\ 0 <= e
    BY <1>1
  <2> QED BY <1>1, <1>5, <1>6, <1>7, <2>1 DEF Window
<1> QED BY <1>8 DEF z

\* However much a refill is given, the buffer then holds the bytes that follow, from
\* the same offset on: enough of them, unless there is no room or no file for that.
LEMMA EnsureFacts ==
  ASSUME fileSize \in Nat, NEW r \in ReaderType, r.ok = TRUE, WindowOf(r),
         NEW want \in Nat, NEW q \in Ensure(r, want)
  PROVE  /\ q \in ReaderType /\ WindowOf(q) /\ NextOffset(q) = NextOffset(r)
         /\ q.ok => want <= q.end - q.pos
         /\ ~ q.ok => want > BufferSize \/ NextOffset(r) + want > fileSize
<1>1. CASE ~ Unread(r) < want
  <2>1. q = r
    BY <1>1 DEF Ensure
  <2> QED BY <1>1, <2>1 DEF Unread, ReaderType
<1>2. CASE Unread(r) < want /\ want > BufferSize
  <2>1. q = [r EXCEPT !.ok = FALSE]
    BY <1>2 DEF Ensure, Refill
  <2>2. /\ q \in ReaderType /\ q.ok = FALSE /\ q.data = r.data /\ q.pos = r.pos
        /\ q.end = r.end /\ q.consumed = r.consumed
    BY <2>1 DEF ReaderType
  <2> QED BY <1>2, <2>2 DEF WindowOf, NextOffset
<1>3. CASE Unread(r) < want /\ want <= BufferSize
  <2>1. PICK buf, p, x, c : /\ buf = r.data /\ p = r.pos /\ x = r.end /\ c = r.consumed
                            /\ Window(buf, p, x, c)
    BY DEF WindowOf
  <2>2. /\ p \in Nat /\ x \in Nat /\ c \in Nat /\ BufferSize \in Nat /\ want \in Nat /\ fileSize \in Nat
        /\ p <= x /\ x <= BufferSize /\ x - p <= c /\ c <= fileSize
    BY <2>1, FileAssumption DEF Window
  <2>3. x - p < want /\ want <= BufferSize /\ ~ want > BufferSize
    <3>1. x - p < want
      BY <1>3, <2>1 DEF Unread
    <3> QED BY <1>3, <2>2, <3>1
  <2> DEFINE supply == x - p + fileSize - c
             most   == IF supply < BufferSize THEN supply ELSE BufferSize
             ends   == IF supply >= want THEN want .. most ELSE {supply}
  <2>4. Ensure(r, want) = {[ok |-> e >= want, data |-> Given(Moved(r), x - p, e, c), pos |-> 0,
                            end |-> e, consumed |-> c + e - (x - p)] : e \in ends}
    <3>1. Ensure(r, want) = Refill(r, want)
      BY <1>3 DEF Ensure
    <3> QED BY <2>1, <2>3, <3>1 DEF Refill, Unread
  <2>5. \A e \in ends : /\ e \in Nat /\ x - p <= e /\ e <= BufferSize /\ e <= supply
                        /\ e >= want \/ supply < want
    BY <2>2, <2>3
  <2> HIDE DEF ends
  <2>6. PICK e \in ends :
          q = [ok |-> e >= want, data |-> Given(Moved(r), x - p, e, c), pos |-> 0,
               end |-> e, consumed |-> c + e - (x - p)]
    BY <2>4
  <2>7. e \in Nat /\ x - p <= e /\ e <= BufferSize /\ e <= supply /\ (e >= want \/ supply < want)
    BY <2>5
  <2>8. Moved(r) = [i \in 0 .. BufferSize - 1 |-> IF i < x - p THEN buf[p + i] ELSE buf[i]]
    BY <2>1 DEF Moved, Unread
  <2> DEFINE z == Given(Moved(r), x - p, e, c)
             b == c + e - (x - p)
  <2>9. Window(z, 0, e, b)
    BY <2>1, <2>7, <2>8, WindowMoves
  <2>10. q.ok = (e >= want) /\ q.data = z /\ q.pos = 0 /\ q.end = e /\ q.consumed = b
    BY <2>6
  <2>11. q \in ReaderType
    <3>1. z \in [0 .. BufferSize - 1 -> Int] /\ 0 \in Nat /\ b \in Nat
      BY <2>9 DEF Window
    <3>2. (e >= want) \in BOOLEAN
      OBVIOUS
    <3> HIDE DEF z, b
    <3> QED BY <2>6, <2>7, <3>1, <3>2 DEF ReaderType, z, b
  <2>12. WindowOf(q)
    BY <2>9, <2>10 DEF WindowOf
  <2>13. NextOffset(r) = c - (x - p)
    BY <2>1 DEF NextOffset
  <2>14. NextOffset(q) = NextOffset(r)
    <3>1. NextOffset(q) = b - (e - 0)
      BY <2>10 DEF NextOffset
    <3> QED BY <2>2, <2>7, <2>13, <3>1
  <2>15. q.ok => want <= q.end - q.pos
    <3>1. e >= want => want <= e - 0
      BY <2>2, <2>7
    <3> QED BY <2>10, <3>1
  <2>16. ~ q.ok => NextOffset(r) + want > fileSize
    <3>1. ~ e >= want => (c - (x - p)) + want > fileSize
      BY <2>2, <2>7
    <3> QED BY <2>10, <2>13, <3>1
  <2> QED BY <2>11, <2>12, <2>14, <2>15, <2>16
<1> QED BY <1>1, <1>2, <1>3, FileAssumption DEF Unread, ReaderType

\* Two bytes there say how long the next frame is.
LEMMA LengthFacts ==
  ASSUME frames \in Seq(Nat), fileSize \in Nat, fileSize <= StartOf[Len(frames) + 1],
         NEW buf, NEW p, NEW e, NEW c, Window(buf, p, e, c), 2 <= e - p,
         NEW n \in Nat, n <= Len(frames), c - (e - p) = StartOf[n + 1]
  PROVE  /\ n + 1 \in 1 .. Len(frames) /\ StartOf[n + 1] + 2 <= fileSize
         /\ LengthAt(buf, p) = frames[n + 1]
<1>1. Len(frames) \in Nat /\ \A k \in 1 .. Len(frames) + 1 : StartOf[k] \in Nat
  BY StartFacts
<1>2. /\ p \in Nat /\ e \in Nat /\ c \in Nat /\ BufferSize \in Nat
      /\ p <= e /\ e <= BufferSize /\ c <= fileSize
  BY FileAssumption DEF Window
<1>3. \A i \in 0 .. BufferSize - 1 : p <= i /\ i < e => buf[i] = c - e + i
  BY DEF Window
<1>4. n + 1 \in 1 .. Len(frames) + 1 /\ StartOf[n + 1] \in Nat
  BY <1>1
<1>5. StartOf[n + 1] + 2 <= fileSize
  BY <1>2, <1>4
<1>6. n + 1 \in 1 .. Len(frames)
  <2>1. CASE n = Len(frames)
    BY <1>4, <1>5, <2>1
  <2>2. CASE n # Len(frames)
    BY <1>1, <2>2
  <2> QED BY <2>1, <2>2
<1>7. buf[p] = StartOf[n + 1] /\ buf[p + 1] = StartOf[n + 1] + 1
  <2>1. p \in 0 .. BufferSize - 1 /\ p + 1 \in 0 .. BufferSize - 1
    BY <1>2
  <2>2. p < e /\ p + 1 < e /\ p <= p + 1 /\ p <= p
    BY <1>2
  <2>3. buf[p] = c - e + p /\ buf[p + 1] = c - e + (p + 1)
    BY <1>3, <2>1, <2>2
  <2>4. c - e + p = c - (e - p) /\ c - e + (p + 1) = c - (e - p) + 1
    BY <1>2
  <2> QED BY <2>3, <2>4
<1> DEFINE K == {s \in Starts : buf[p] = StartOf[s] /\ buf[p + 1] = StartOf[s] + 1}
<1>8. n + 1 \in K
  BY <1>5, <1>6, <1>7 DEF Starts
<1>9. \A s \in K : s = n + 1
  <2> SUFFICES ASSUME NEW s \in K, s # n + 1 PROVE FALSE
    OBVIOUS
  <2>1. s \in 1 .. Len(frames) + 1 /\ StartOf[s] = StartOf[n + 1]
    BY <1>1, <1>7 DEF Starts
  <2>2. CASE s < n + 1
    <3>1. StartOf[s] < StartOf[n + 1]
      BY <1>4, <2>1, <2>2, StartsAscend
    <3> QED BY <1>4, <2>1, <3>1
  <2>3. CASE n + 1 < s
    <3>1. StartOf[n + 1] < StartOf[s]
      BY <1>4, <2>1, <2>3, StartsAscend
    <3> QED BY <1>4, <2>1, <3>1
  <2> QED BY <1>1, <2>1, <2>2, <2>3
<1>10. LengthAt(buf, p) = frames[CHOOSE s \in K : TRUE]
  BY <1>8 DEF LengthAt
<1> HIDE DEF K
<1>11. (CHOOSE s \in K : TRUE) = n + 1
  BY <1>8, <1>9
<1> QED BY <1>5, <1>6, <1>10, <1>11

-----------------------------------------------------------------------------
\* A reader that has not read stands at the first frame.
LEMMA InvStart ==
  ASSUME FileInit
  PROVE  FileInv
<1>1. frames \in Seq(Nat)
  <2>1. PICK n \in 0 .. MaxFrames : frames \in [1 .. n -> Lengths]
    BY DEF FileInit
  <2>2. Lengths \subseteq Nat /\ n \in Nat
    BY FileAssumption
  <2>3. frames \in [1 .. n -> Nat]
    BY <2>1, <2>2
  <2> QED BY <2>2, <2>3, SeqDef
<1>2. /\ Len(frames) \in Nat /\ StartOf[1] = 0
      /\ \A k \in 1 .. Len(frames) : StartOf[k + 1] = StartOf[k] + (2 + frames[k]) /\ frames[k] \in Nat
      /\ \A k \in 1 .. Len(frames) + 1 : StartOf[k] \in Nat
  BY <1>1, StartFacts
<1>3. fileSize \in Nat /\ fileSize <= StartOf[Len(frames) + 1]
  <2>1. StartOf[Len(frames) + 1] \in Nat
    BY <1>2
  <2>2. CASE frames = <<>>
    BY <2>1, <2>2 DEF FileInit
  <2>3. CASE frames # <<>>
    <3>1. Len(frames) \in 1 .. Len(frames) + 1
      BY <1>1, <1>2, <2>3, EmptySeq
    <3>2. StartOf[Len(frames)] \in Nat
      BY <1>2, <3>1
    <3> QED BY <2>1, <2>3, <3>2 DEF FileInit
  <2> QED BY <2>2, <2>3
<1>4. /\ data = [i \in 0 .. BufferSize - 1 |-> -1] /\ pos_ = 0 /\ end_ = 0 /\ consumed = 0
      /\ spans = <<>> /\ truncated = 0 /\ done = FALSE
  BY DEF FileInit
<1>5. Window(data, pos_, end_, consumed)
  BY <1>3, <1>4, FileAssumption DEF Window
<1>6. spans \in Seq(Seq(Int)) /\ Len(spans) = 0
  BY <1>4
<1>7. AtNextFrame
  BY <1>2, <1>4, <1>6 DEF AtNextFrame
<1>8. FramesInOrder
  BY <1>2, <1>6 DEF FramesInOrder
<1>9. StopsForAReason
  BY <1>4 DEF StopsForAReason
<1> QED BY <1>1, <1>3, <1>4, <1>5, <1>6, <1>7, <1>8, <1>9 DEF FileInv, FileTypeOK

\* What the reader knows when the first two bytes are asked for.
LEMMA PrefixFacts ==
  ASSUME FileInv, ~ done, NEW n, n = Len(spans), NEW r \in Ensure(Reader, 2)
  PROVE  /\ n \in Nat /\ n <= Len(frames)
         /\ r \in ReaderType /\ WindowOf(r) /\ NextOffset(r) = StartOf[n + 1]
         /\ ~ r.ok => StartOf[n + 1] + 2 > fileSize
         /\ r.ok => /\ n + 1 \in 1 .. Len(frames) /\ StartOf[n + 1] + 2 <= fileSize
                    /\ LengthAt(r.data, r.pos) = frames[n + 1]
<1>1. /\ frames \in Seq(Nat) /\ fileSize \in Nat /\ fileSize <= StartOf[Len(frames) + 1]
      /\ Window(data, pos_, end_, consumed) /\ n \in Nat /\ n <= Len(frames)
      /\ consumed - (end_ - pos_) = StartOf[n + 1]
  BY LenProperties DEF FileInv, FileTypeOK, FramesInOrder, AtNextFrame
<1> DEFINE q == Reader
<1>2. /\ q \in ReaderType /\ q.ok = TRUE
      /\ q.data = data /\ q.pos = pos_ /\ q.end = end_ /\ q.consumed = consumed
  BY <1>1 DEF Reader, ReaderType, Window
<1>3. WindowOf(q) /\ NextOffset(q) = StartOf[n + 1]
  BY <1>1, <1>2 DEF WindowOf, NextOffset
<1> HIDE DEF q
<1>4. r \in Ensure(q, 2) /\ 2 \in Nat /\ fileSize \in Nat
  BY <1>1 DEF q
<1>5. /\ r \in ReaderType /\ WindowOf(r) /\ NextOffset(r) = NextOffset(q)
      /\ r.ok => 2 <= r.end - r.pos
      /\ ~ r.ok => 2 > BufferSize \/ NextOffset(q) + 2 > fileSize
  BY <1>2, <1>3, <1>4, EnsureFacts
<1>6. ~ r.ok => StartOf[n + 1] + 2 > fileSize
  BY <1>3, <1>5, FileAssumption
<1>7. ASSUME r.ok
      PROVE  /\ n + 1 \in 1 .. Len(frames) /\ StartOf[n + 1] + 2 <= fileSize
             /\ LengthAt(r.data, r.pos) = frames[n + 1]
  <2>1. r.consumed - (r.end - r.pos) = StartOf[n + 1]
    BY <1>3, <1>5 DEF NextOffset
  <2>2. Window(r.data, r.pos, r.end, r.consumed) /\ 2 <= r.end - r.pos
    BY <1>5, <1>7 DEF WindowOf
  <2> QED BY <1>1, <2>1, <2>2, LengthFacts
<1> QED BY <1>1, <1>3, <1>5, <1>6, <1>7

\* And when the frame they announce is.
LEMMA BodyFacts ==
  ASSUME FileInv, ~ done, NEW n, n = Len(spans), NEW r \in Ensure(Reader, 2), r.ok,
         NEW b \in Ensure(r, FrameSize(LengthAt(r.data, r.pos)))
  PROVE  /\ b \in ReaderType /\ WindowOf(b) /\ NextOffset(b) = StartOf[n + 1]
         /\ b.ok => FrameSize(frames[n + 1]) <= b.end - b.pos
         /\ ~ b.ok => \/ FrameSize(frames[n + 1]) > BufferSize
                      \/ StartOf[n + 1] + FrameSize(frames[n + 1]) > fileSize
<1>1. /\ r \in ReaderType /\ WindowOf(r) /\ NextOffset(r) = StartOf[n + 1]
      /\ n + 1 \in 1 .. Len(frames) /\ LengthAt(r.data, r.pos) = frames[n + 1]
  BY PrefixFacts
<1>2. frames \in Seq(Nat) /\ fileSize \in Nat
  BY DEF FileInv, FileTypeOK
<1>3. frames[n + 1] \in Nat
  BY <1>1, <1>2, ElementOfSeq
<1> DEFINE want == FrameSize(frames[n + 1])
<1>4. want \in Nat
  BY <1>3 DEF FrameSize
<1>5. b \in Ensure(r, want) /\ r.ok = TRUE
  BY <1>1 DEF ReaderType
<1> HIDE DEF want
<1>6. /\ b \in ReaderType /\ WindowOf(b) /\ NextOffset(b) = NextOffset(r)
      /\ b.ok => want <= b.end - b.pos
      /\ ~ b.ok => want > BufferSize \/ NextOffset(r) + want > fileSize
  BY <1>1, <1>2, <1>4, <1>5, EnsureFacts
<1> QED BY <1>1, <1>6 DEF want

\* A reader that stops hands out nothing more.
LEMMA InvStops ==
  ASSUME FileInv, UNCHANGED file, UNCHANGED spans, done' = TRUE,
         NEW b \in ReaderType, WindowOf(b), Keeps(b), NEW n, n = Len(spans),
         n < Len(frames) => ~ Whole(n + 1),
         (truncated' = 1) <=> (n < Len(frames) /\ frames[n + 1] # 0 /\ StartOf[n + 1] + 2 <= fileSize)
  PROVE  FileInv'
<1>1. frames' = frames /\ fileSize' = fileSize /\ spans' = spans
  BY DEF file
<1>2. StartOf' = StartOf
  BY <1>1 DEF StartOf
<1>3. data' = b.data /\ pos_' = b.pos /\ end_' = b.end /\ consumed' = b.consumed
  BY DEF Keeps
<1>4. Window(data, pos_, end_, consumed)'
  BY <1>1, <1>3 DEF WindowOf, Window
<1>5. FramesInOrder'
  BY <1>1, <1>2 DEF FileInv, FramesInOrder, Whole
<1>6. AtNextFrame'
  BY DEF AtNextFrame
<1>7. StopsForAReason'
  <2>1. n < Len(frames) => ~ Whole(n + 1)'
    BY <1>1, <1>2 DEF Whole
  <2> QED BY <1>1, <1>2, <2>1 DEF StopsForAReason
<1>8. FileTypeOK' /\ (fileSize <= StartOf[Len(frames) + 1])'
  BY <1>1, <1>2 DEF FileInv, FileTypeOK
<1> QED BY <1>4, <1>5, <1>6, <1>7, <1>8 DEF FileInv

\* No prefix is left: the reader stops where no whole frame starts.
LEMMA InvAtEnd ==
  ASSUME FileInv, ~ done, UNCHANGED file, NextAtEnd
  PROVE  FileInv'
<1>1. PICK r \in Ensure(Reader, 2) : ~ r.ok /\ Keeps(r) /\ done' = TRUE /\ UNCHANGED <<spans, truncated>>
  BY DEF NextAtEnd
<1>2. PICK n : n = Len(spans)
  OBVIOUS
<1>3. /\ n \in Nat /\ n <= Len(frames) /\ r \in ReaderType /\ WindowOf(r)
      /\ StartOf[n + 1] + 2 > fileSize
  BY <1>1, <1>2, PrefixFacts
<1>4. frames \in Seq(Nat) /\ fileSize \in Nat /\ truncated = 0
  BY DEF FileInv, FileTypeOK, AtNextFrame
<1>5. Len(frames) \in Nat /\ \A k \in 1 .. Len(frames) : frames[k] \in Nat /\ StartOf[k] \in Nat
  <2>1. Len(frames) \in Nat /\ \A k \in 1 .. Len(frames) : frames[k] \in Nat
    BY <1>4, StartFacts
  <2>2. \A k \in 1 .. Len(frames) + 1 : StartOf[k] \in Nat
    BY <1>4, StartFacts
  <2> QED BY <2>1, <2>2
<1>6. n < Len(frames) => StartOf[n + 1] \in Nat /\ frames[n + 1] \in Nat
  BY <1>3, <1>5
<1>7. n < Len(frames) => ~ Whole(n + 1)
  BY <1>3, <1>4, <1>6 DEF Whole, FrameSize
<1>8. ~ (n < Len(frames) /\ frames[n + 1] # 0 /\ StartOf[n + 1] + 2 <= fileSize)
  BY <1>3, <1>4, <1>6
<1>9. ~ truncated' = 1
  BY <1>1, <1>4
<1> QED BY <1>1, <1>2, <1>3, <1>7, <1>8, <1>9, InvStops

\* A length of zero stops the reader.
LEMMA InvAtMark ==
  ASSUME FileInv, ~ done, UNCHANGED file, NextAtMark
  PROVE  FileInv'
<1>1. PICK r \in Ensure(Reader, 2) : /\ r.ok /\ LengthAt(r.data, r.pos) = 0 /\ Keeps(r)
                                     /\ done' = TRUE /\ UNCHANGED <<spans, truncated>>
  BY DEF NextAtMark
<1>2. PICK n : n = Len(spans)
  OBVIOUS
<1>3. r \in ReaderType /\ WindowOf(r) /\ frames[n + 1] = 0
  BY <1>1, <1>2, PrefixFacts
<1>4. truncated = 0
  BY DEF FileInv, AtNextFrame
<1>5. ~ Whole(n + 1)
  BY <1>3 DEF Whole
<1>6. ~ truncated' = 1
  BY <1>1, <1>4
<1> QED BY <1>1, <1>2, <1>3, <1>5, <1>6, InvStops

\* A frame that does not fit, in the file or in the buffer, stops it and is
\* counted.
LEMMA InvCutOff ==
  ASSUME FileInv, ~ done, UNCHANGED file, NextCutOff
  PROVE  FileInv'
<1>1. PICK r \in Ensure(Reader, 2) :
        /\ r.ok /\ LengthAt(r.data, r.pos) # 0
        /\ \E b \in Ensure(r, FrameSize(LengthAt(r.data, r.pos))) :
             /\ ~ b.ok /\ Keeps(b)
             /\ truncated' = truncated + 1 /\ done' = TRUE /\ UNCHANGED spans
  BY DEF NextCutOff
<1>2. PICK b \in Ensure(r, FrameSize(LengthAt(r.data, r.pos))) :
             /\ ~ b.ok /\ Keeps(b)
             /\ truncated' = truncated + 1 /\ done' = TRUE /\ UNCHANGED spans
  BY <1>1
<1>3. PICK n : n = Len(spans)
  OBVIOUS
<1>4. /\ n \in Nat /\ n + 1 \in 1 .. Len(frames) /\ StartOf[n + 1] + 2 <= fileSize
      /\ LengthAt(r.data, r.pos) = frames[n + 1]
  BY <1>1, <1>3, PrefixFacts
<1>5. /\ b \in ReaderType /\ WindowOf(b)
      /\ FrameSize(frames[n + 1]) > BufferSize \/ StartOf[n + 1] + FrameSize(frames[n + 1]) > fileSize
  BY <1>1, <1>2, <1>3, BodyFacts
<1>6. frames \in Seq(Nat) /\ fileSize \in Nat /\ truncated = 0
  BY DEF FileInv, FileTypeOK, AtNextFrame
<1>7. Len(frames) \in Nat /\ frames[n + 1] \in Nat /\ StartOf[n + 1] \in Nat
  <2>1. Len(frames) \in Nat /\ \A k \in 1 .. Len(frames) + 1 : StartOf[k] \in Nat
    BY <1>6, StartFacts
  <2> QED BY <1>4, <1>6, <2>1, ElementOfSeq
<1>8. ~ Whole(n + 1)
  <2>1. FrameSize(frames[n + 1]) \in Nat /\ BufferSize \in Nat
    BY <1>7, FileAssumption DEF FrameSize
  <2> QED BY <1>5, <1>6, <1>7, <2>1 DEF Whole
<1>9. n < Len(frames) /\ frames[n + 1] # 0 /\ truncated' = 1
  BY <1>1, <1>2, <1>4, <1>6, <1>7
<1> QED BY <1>2, <1>3, <1>4, <1>5, <1>8, <1>9, InvStops

\* A whole frame: its body is handed out, and the reader stands at the next.
LEMMA InvFrame ==
  ASSUME FileInv, ~ done, UNCHANGED file, NextFrame
  PROVE  FileInv'
<1>1. PICK r \in Ensure(Reader, 2) :
        /\ r.ok /\ LengthAt(r.data, r.pos) # 0
        /\ \E b \in Ensure(r, FrameSize(LengthAt(r.data, r.pos))) :
             /\ b.ok
             /\ Keeps([b EXCEPT !.pos = @ + FrameSize(LengthAt(r.data, r.pos))])
             /\ spans' = Append(spans, Bytes(b.data, b.pos + 2, LengthAt(r.data, r.pos)))
             /\ UNCHANGED <<truncated, done>>
  BY DEF NextFrame
<1>2. PICK n : n = Len(spans)
  OBVIOUS
<1>3. /\ n \in Nat /\ n + 1 \in 1 .. Len(frames) /\ StartOf[n + 1] + 2 <= fileSize
      /\ LengthAt(r.data, r.pos) = frames[n + 1]
  BY <1>1, <1>2, PrefixFacts
<1>4. PICK len : len = frames[n + 1]
  OBVIOUS
<1>5. PICK b \in Ensure(r, FrameSize(LengthAt(r.data, r.pos))) :
             /\ b.ok
             /\ Keeps([b EXCEPT !.pos = @ + FrameSize(len)])
             /\ spans' = Append(spans, Bytes(b.data, b.pos + 2, len))
             /\ UNCHANGED <<truncated, done>>
  BY <1>1, <1>3, <1>4
<1>6. /\ b \in ReaderType /\ WindowOf(b) /\ NextOffset(b) = StartOf[n + 1]
      /\ FrameSize(len) <= b.end - b.pos
  BY <1>1, <1>2, <1>4, <1>5, BodyFacts
<1>7. /\ frames \in Seq(Nat) /\ fileSize \in Nat /\ fileSize <= StartOf[Len(frames) + 1]
      /\ spans \in Seq(Seq(Int)) /\ truncated = 0
  BY DEF FileInv, FileTypeOK, AtNextFrame
<1>8. /\ Len(frames) \in Nat /\ len \in Nat /\ len # 0 /\ StartOf[n + 1] \in Nat
      /\ StartOf[(n + 1) + 1] = StartOf[n + 1] + (2 + len)
  <2>1. /\ Len(frames) \in Nat
        /\ \A k \in 1 .. Len(frames) : StartOf[k + 1] = StartOf[k] + (2 + frames[k])
    BY <1>7, StartFacts
  <2>2. \A k \in 1 .. Len(frames) + 1 : StartOf[k] \in Nat
    BY <1>7, StartFacts
  <2>3. len \in Nat
    BY <1>3, <1>4, <1>7, ElementOfSeq
  <2>4. n + 1 \in 1 .. Len(frames) + 1
    BY <1>3, <2>1
  <2> QED BY <1>1, <1>3, <1>4, <2>1, <2>2, <2>3, <2>4
<1>9. PICK buf, p, x, c : /\ buf = b.data /\ p = b.pos /\ x = b.end /\ c = b.consumed
                          /\ Window(buf, p, x, c)
  BY <1>6 DEF WindowOf
<1>10. /\ p \in Nat /\ x \in Nat /\ c \in Nat /\ BufferSize \in Nat /\ fileSize \in Nat
       /\ p <= x /\ x <= BufferSize /\ x - p <= c /\ c <= fileSize
       /\ 2 + len <= x - p /\ c - (x - p) = StartOf[n + 1]
  <2>1. FrameSize(len) = 2 + len
    BY DEF FrameSize
  <2>2. 2 + len <= x - p /\ c - (x - p) = StartOf[n + 1]
    BY <1>6, <1>9, <2>1 DEF NextOffset
  <2>3. BufferSize \in Nat
    BY FileAssumption
  <2> QED BY <1>7, <1>9, <2>2, <2>3 DEF Window
<1>11. \A i \in 0 .. BufferSize - 1 : p <= i /\ i < x => buf[i] = c - x + i
  BY <1>9 DEF Window
<1>12. Whole(n + 1)
  <2>1. FrameSize(len) <= BufferSize /\ StartOf[n + 1] + FrameSize(len) <= fileSize
    BY <1>8, <1>10 DEF FrameSize
  <2> QED BY <1>4, <1>8, <2>1 DEF Whole
<1>13. Bytes(buf, p + 2, len) = [i \in 1 .. len |-> StartOf[n + 1] + 1 + i]
  <2> SUFFICES ASSUME NEW i \in 1 .. len PROVE buf[(p + 2) + i - 1] = StartOf[n + 1] + 1 + i
    BY DEF Bytes
  <2>1. (p + 2) + i - 1 \in 0 .. BufferSize - 1 /\ p <= (p + 2) + i - 1 /\ (p + 2) + i - 1 < x
    BY <1>8, <1>10
  <2>2. buf[(p + 2) + i - 1] = c - x + ((p + 2) + i - 1)
    BY <1>11, <2>1
  <2>3. c - x + ((p + 2) + i - 1) = c - (x - p) + 1 + i
    BY <1>8, <1>10
  <2> QED BY <1>10, <2>2, <2>3
<1>14. frames' = frames /\ fileSize' = fileSize /\ done' = done /\ truncated' = truncated
  BY <1>5 DEF file
<1>15. StartOf' = StartOf
  BY <1>14 DEF StartOf
<1>16. data' = buf /\ pos_' = p + (2 + len) /\ end_' = x /\ consumed' = c
  BY <1>5, <1>6, <1>9 DEF Keeps, ReaderType, FrameSize
<1> DEFINE body == Bytes(buf, p + 2, len)
<1>17. body \in Seq(Int)
  <2>1. \A i \in 1 .. len : StartOf[n + 1] + 1 + i \in Int
    BY <1>8
  <2>2. body \in [1 .. len -> Int]
    BY <1>13, <2>1
  <2> QED BY <1>8, <2>2, SeqDef
<1>18. /\ spans' \in Seq(Seq(Int)) /\ Len(spans') = n + 1
       /\ spans'[n + 1] = body /\ \A k \in 1 .. n : spans'[k] = spans[k]
  <2> HIDE DEF body
  <2>1. spans' = Append(spans, body)
    BY <1>5, <1>9 DEF body
  <2> QED BY <1>2, <1>7, <1>17, <2>1, AppendProperties
<1>19. Window(data, pos_, end_, consumed)'
  <2>1. /\ p + (2 + len) \in Nat /\ p + (2 + len) <= x /\ x - (p + (2 + len)) <= c
    BY <1>8, <1>10
  <2>2. \A i \in 0 .. BufferSize - 1 : p + (2 + len) <= i /\ i < x => buf[i] = c - x + i
    <3> SUFFICES ASSUME NEW i \in 0 .. BufferSize - 1, p + (2 + len) <= i, i < x
                 PROVE  buf[i] = c - x + i
      OBVIOUS
    <3>1. p <= i
      BY <1>8, <1>10
    <3> QED BY <1>11, <3>1
  <2>3. buf \in [0 .. BufferSize - 1 -> Int]
    BY <1>9 DEF Window
  <2> QED BY <1>10, <1>14, <1>16, <2>1, <2>2, <2>3 DEF Window
<1>20. FramesInOrder'
  <2>1. Len(spans') <= Len(frames)
    BY <1>3, <1>8, <1>18
  <2>2. ASSUME NEW k \in 1 .. n + 1
        PROVE  Whole(k) /\ spans'[k] = [i \in 1 .. frames[k] |-> StartOf[k] + 1 + i]
    <3>1. CASE k = n + 1
      BY <1>4, <1>12, <1>13, <1>18, <3>1
    <3>2. CASE k # n + 1
      <4>1. k \in 1 .. n
        BY <1>3, <3>2
      <4>2. Whole(k) /\ spans[k] = [i \in 1 .. frames[k] |-> StartOf[k] + 1 + i]
        BY <1>2, <4>1 DEF FileInv, FramesInOrder
      <4> QED BY <1>18, <4>1, <4>2
    <3> QED BY <3>1, <3>2
  <2>3. \A k : Whole(k)' <=> Whole(k)
    BY <1>14, <1>15 DEF Whole
  <2> QED BY <1>14, <1>15, <1>18, <2>1, <2>2, <2>3 DEF FramesInOrder
<1>21. AtNextFrame'
  <2>1. c - (x - (p + (2 + len))) = StartOf[(n + 1) + 1]
    BY <1>8, <1>10
  <2> QED BY <1>7, <1>14, <1>15, <1>16, <1>18, <2>1 DEF AtNextFrame
<1>22. StopsForAReason'
  BY <1>14 DEF StopsForAReason
<1>23. FileTypeOK' /\ (fileSize <= StartOf[Len(frames) + 1])'
  BY <1>7, <1>14, <1>15, <1>18 DEF FileInv, FileTypeOK
<1> QED BY <1>19, <1>20, <1>21, <1>22, <1>23 DEF FileInv

\* Nothing read, nothing changed.
LEMMA InvStutter ==
  ASSUME FileInv, UNCHANGED fileVars
  PROVE  FileInv'
<1>1. /\ frames' = frames /\ fileSize' = fileSize /\ spans' = spans /\ done' = done
      /\ data' = data /\ pos_' = pos_ /\ end_' = end_ /\ consumed' = consumed /\ truncated' = truncated
  BY DEF fileVars
<1>2. StartOf' = StartOf
  BY <1>1 DEF StartOf
<1>3. \A k : Whole(k)' <=> Whole(k)
  BY <1>1, <1>2 DEF Whole
<1>4. Window(data, pos_, end_, consumed)'
  BY <1>1 DEF FileInv, Window
<1>5. FramesInOrder'
  BY <1>1, <1>2, <1>3 DEF FileInv, FramesInOrder
<1>6. AtNextFrame'
  BY <1>1, <1>2 DEF FileInv, AtNextFrame
<1>7. StopsForAReason'
  BY <1>1, <1>2, <1>3 DEF FileInv, StopsForAReason
<1>8. FileTypeOK' /\ (fileSize <= StartOf[Len(frames) + 1])'
  BY <1>1, <1>2 DEF FileInv, FileTypeOK
<1> QED BY <1>4, <1>5, <1>6, <1>7, <1>8 DEF FileInv

(* Between two calls the buffer holds an unbroken stretch of the file, and *)
(* the reader stands at its first unread byte: where the next frame starts *)
(* while it goes on, where no whole one does when it has stopped           *)
(* (itch_file.hpp, next and refill).                                       *)
THEOREM FileInvHolds == FileSpec => []FileInv
<1>1. FileInit => FileInv
  BY InvStart
<1>2. FileInv /\ [FileNext]_fileVars => FileInv'
  BY InvAtEnd, InvAtMark, InvFrame, InvCutOff, InvStutter DEF FileNext
<1> QED BY <1>1, <1>2, PTL DEF FileSpec

(* However the pieces of the decompressed file fall and wherever a frame   *)
(* straddles them, the caller is handed the bodies of its frames, each     *)
(* whole and in order, and at the end all of them; only a file that stops  *)
(* inside a frame is counted as truncated (itch_file.hpp, next).           *)
THEOREM FileIsReadWholeAlways == FileSpec => []FileIsReadWhole
<1>1. FileInv => FileIsReadWhole
  <2> SUFFICES ASSUME FileInv PROVE FileIsReadWhole
    OBVIOUS
  <2>1. PICK n : n = Len(spans)
    OBVIOUS
  <2>2. /\ frames \in Seq(Nat) /\ spans \in Seq(Seq(Int)) /\ n <= Len(frames)
        /\ \A k \in 1 .. n : Whole(k) /\ spans[k] = [i \in 1 .. frames[k] |-> StartOf[k] + 1 + i]
    BY <2>1 DEF FileInv, FileTypeOK, FramesInOrder
  <2>3. n \in Nat /\ Len(frames) \in Nat /\ DOMAIN spans = 1 .. n
    BY <2>1, <2>2, LenProperties
  <2>4. /\ LastWhole \in Nat /\ n <= LastWhole
        /\ n < Len(frames) /\ ~ Whole(n + 1) => LastWhole = n
        /\ n = Len(frames) => LastWhole = n
    <3>1. \A k \in 1 .. n : Whole(k)
      BY <2>2
    <3>2. n \in Nat
      BY <2>3
    <3> QED BY <2>2, <3>1, <3>2, WholeFrames
  <2>5. \A k \in DOMAIN spans : k <= LastWhole /\ spans[k] = [i \in 1 .. frames[k] |-> StartOf[k] + 1 + i]
    <3> SUFFICES ASSUME NEW k \in 1 .. n
                 PROVE  k <= LastWhole /\ spans[k] = [i \in 1 .. frames[k] |-> StartOf[k] + 1 + i]
      BY <2>3
    <3>1. k <= LastWhole
      BY <2>3, <2>4
    <3>2. spans[k] = [i \in 1 .. frames[k] |-> StartOf[k] + 1 + i]
      BY <2>2
    <3> QED BY <3>1, <3>2
  <2>6. ASSUME done
        PROVE  /\ Len(spans) = LastWhole
               /\ (truncated = 1) <=> (LastWhole < Len(frames) /\ frames[LastWhole + 1] # 0
                                         /\ StartOf[LastWhole + 1] + 2 <= fileSize)
    <3>1. /\ n < Len(frames) => ~ Whole(n + 1)
          /\ (truncated = 1) <=> (n < Len(frames) /\ frames[n + 1] # 0
                                    /\ StartOf[n + 1] + 2 <= fileSize)
      BY <2>1, <2>6 DEF FileInv, StopsForAReason
    <3>2. n = LastWhole
      BY <2>2, <2>3, <2>4, <3>1
    <3> QED BY <2>1, <3>1, <3>2
  <2> QED BY <2>5, <2>6 DEF FileIsReadWhole
<1> QED BY <1>1, FileInvHolds, PTL

-----------------------------------------------------------------------------
(***************************************************************************)
(* The tokens.  What was issued are the digits of the counter, value after *)
(* value, and a number grows by one where its digits do in order: the last *)
(* that is not the largest grows, and those behind it fall to zero.        *)
(***************************************************************************)
\* What was issued are the digits of the counter, one value after the other, and
\* all of them fit the width.
IssuedInOrder ==
  overflowed = 0 =>
    /\ \A i \in 1 .. Len(issued) : issued[i] = Digits(counter - Len(issued) + i - 1)
    /\ issued # <<>> => counter <= Power[Width]

TokenInv ==
  /\ prefix_len \in 0 .. TokenLen /\ counter \in Nat /\ overflowed \in Nat
  /\ issued \in Seq([1 .. Width -> Nat]) /\ Len(issued) <= counter
  /\ IssuedInOrder

\* What the loop multiplies up.
LEMMA PowerFacts ==
  /\ Power[0] = 1
  /\ \A d \in 1 .. TokenLen : Power[d] = Base * Power[d - 1]
  /\ \A d \in 0 .. TokenLen : Power[d] \in Nat \ {0}
<1> DEFINE N == Nat \ {0}
           n == TokenLen
           P(f) == f = [d \in 0 .. n |-> IF d = 0 THEN 1 ELSE Base * f[d - 1]]
           F == [d \in 1 .. n |-> [s \in N |-> Base * s]]
<1>1. n \in Nat /\ Base \in Nat /\ Base >= 2
  BY TokenAssumption
<1>n. n \in Nat
  BY <1>1
<1> HIDE DEF n
<1>2. \A s \in N : Base * s \in N
  <2>1. \A a, b \in Nat \ {0} : a * b \in Nat \ {0}
    OBVIOUS
  <2> QED BY <1>1, <2>1
<1>3. PICK a : a \in N /\ a = 1
  OBVIOUS
<1>a. a \in N
  BY <1>3
<1> HIDE DEF N
<1>4. F \in [1 .. n -> [N -> N]]
  BY <1>2
<1>5. \A d \in 1 .. n, s \in N : F[d][s] = Base * s
  OBVIOUS
<1> HIDE DEF F
<1>r. PICK w : Follows(w, N, a, n, F)
  BY <1>n, <1>4, <1>a, Recursion
<1>6. w \in [0 .. n -> N] /\ w[0] = a /\ \A d \in 1 .. n : w[d] = F[d][w[d - 1]]
  BY <1>r DEF Follows
<1>7. \A d \in 1 .. n : w[d] = Base * w[d - 1]
  <2> SUFFICES ASSUME NEW d \in 1 .. n PROVE w[d] = Base * w[d - 1]
    OBVIOUS
  <2>1. w[d - 1] \in N
    BY <1>1, <1>6
  <2> QED BY <1>5, <1>6, <2>1
<1>8. P(w)
  <2>1. \A d \in 0 .. n : w[d] = IF d = 0 THEN 1 ELSE Base * w[d - 1]
    <3> SUFFICES ASSUME NEW d \in 0 .. n PROVE w[d] = IF d = 0 THEN 1 ELSE Base * w[d - 1]
      OBVIOUS
    <3>1. CASE d = 0
      BY <1>3, <1>6, <3>1
    <3>2. CASE d # 0
      BY <1>1, <1>7, <3>2
    <3> QED BY <3>1, <3>2
  <2>2. w = [d \in 0 .. n |-> w[d]]
    BY <1>6
  <2> QED BY <2>1, <2>2
<1>9. Power = CHOOSE f : P(f)
  BY DEF Power, n
<1>10. P(Power)
  <2> HIDE DEF P
  <2> QED BY <1>8, <1>9
<1>11. \A d \in 0 .. n : Power[d] = IF d = 0 THEN 1 ELSE Base * Power[d - 1]
  BY <1>10
<1> HIDE DEF P
<1>12. Power[0] = 1 /\ \A d \in 1 .. n : Power[d] = Base * Power[d - 1]
  BY <1>1, <1>11
<1> DEFINE G == {d \in Nat : d <= n => Power[d] \in N}
<1>13. 0 \in G
  BY <1>12 DEF N
<1>14. ASSUME NEW d \in Nat, d \in G PROVE d + 1 \in G
  <2> SUFFICES ASSUME d + 1 <= n PROVE Power[d + 1] \in N
    OBVIOUS
  <2>1. d + 1 \in 1 .. n /\ (d + 1) - 1 = d /\ Power[d] \in N
    BY <1>1, <1>14
  <2>2. Power[d + 1] = Base * Power[d]
    BY <1>12, <2>1
  <2> QED BY <1>2, <2>1, <2>2
<1> HIDE DEF G
<1>15. Nat \subseteq G
  BY <1>13, <1>14, CountingUp
<1>16. \A d \in 0 .. n : Power[d] \in N
  BY <1>1, <1>15 DEF G
<1> QED BY <1>12, <1>16 DEF n, N

\* More digits, more values.
LEMMA PowerGrows ==
  ASSUME NEW i \in 0 .. TokenLen, NEW j \in 0 .. TokenLen, i <= j
  PROVE  Power[i] <= Power[j]
<1> DEFINE G == {m \in Nat : i <= m /\ m <= TokenLen => Power[i] <= Power[m]}
<1>1. /\ \A d \in 1 .. TokenLen : Power[d] = Base * Power[d - 1]
      /\ \A d \in 0 .. TokenLen : Power[d] \in Nat \ {0}
      /\ TokenLen \in Nat /\ Base \in Nat /\ Base >= 2
  BY PowerFacts, TokenAssumption
<1>2. 0 \in G
  BY <1>1
<1>3. ASSUME NEW m \in Nat, m \in G PROVE m + 1 \in G
  <2> SUFFICES ASSUME i <= m + 1, m + 1 <= TokenLen PROVE Power[i] <= Power[m + 1]
    OBVIOUS
  <2>1. CASE i = m + 1
    BY <1>1, <2>1
  <2>2. CASE i # m + 1
    <3>1. m + 1 \in 1 .. TokenLen /\ (m + 1) - 1 = m /\ m \in 0 .. TokenLen /\ i <= m
      BY <1>1, <2>2
    <3>2. Power[m + 1] = Base * Power[m] /\ Power[m] \in Nat /\ Power[i] \in Nat /\ Power[i] <= Power[m]
      BY <1>1, <1>3, <3>1
    <3>3. Base * Power[m] >= Power[m]
      <4>1. \A a, b \in Nat : a >= 2 => a * b >= b
        <5> SUFFICES ASSUME NEW a \in Nat, NEW b \in Nat, a >= 2 PROVE a * b >= b
          OBVIOUS
        <5>1. b * a >= b * 0 + b
          BY ProductGrows
        <5> QED BY <5>1
      <4> QED BY <1>1, <3>2, <4>1
    <3> QED BY <1>1, <3>2, <3>3
  <2> QED BY <2>1, <2>2
<1> HIDE DEF G
<1>4. Nat \subseteq G
  BY <1>2, <1>3, CountingUp
<1> QED BY <1>1, <1>4 DEF G

\* Dividing twice is dividing once by the product.
LEMMA DividedTwice ==
  ASSUME NEW c \in Nat \ {0}, NEW k \in Nat \ {0}, NEW v \in Nat
  PROVE  v \div (k * c) = (v \div c) \div k
<1> DEFINE q == v \div c
           r == v % c
           h == q \div k
           t == q % k
<1>1. v = c * q + r /\ q \in Nat /\ r \in 0 .. c - 1
  BY Division
<1>2. q = k * h + t /\ h \in Nat /\ t \in 0 .. k - 1
  BY <1>1, Division
<1> HIDE DEF q, r, h, t
<1> DEFINE m == k * c
           e == c * t + r
<1>3. m \in Nat \ {0}
  <2>1. \A a, b \in Nat \ {0} : a * b \in Nat \ {0}
    OBVIOUS
  <2> QED BY <2>1
<1>4. e \in 0 .. m - 1
  <2>1. c * k >= c * t + c
    BY <1>2, ProductGrows
  <2>2. c * t \in Nat /\ c * k = m
    BY <1>2
  <2> HIDE DEF m
  <2> QED BY <1>1, <1>3, <2>1, <2>2
<1>5. v = m * h + e
  <2>1. c * q = c * (k * h) + c * t
    BY <1>2
  <2>2. c * (k * h) = m * h
    <3>1. (c * k) * h = c * (k * h)
      BY <1>2, ProductsRegroup
    <3>2. c * k = m
      OBVIOUS
    <3> QED BY <3>1, <3>2
  <2>3. c * t \in Nat /\ m * h \in Nat
    BY <1>2, <1>3
  <2> QED BY <1>1, <2>1, <2>2, <2>3
<1> HIDE DEF m, e
<1>6. Splits(v, m, h, e) /\ v \in Int /\ h \in Int
  BY <1>2, <1>5 DEF Splits
<1>7. v \div m = h
  BY <1>3, <1>4, <1>6, DivisionUnique
<1> QED BY <1>7 DEF m, h, q

\* The quotients of two numbers in a row differ by one at most.
LEMMA QuotientsStep ==
  ASSUME NEW c \in Nat \ {0}, NEW v \in Nat, v \div c # (v + 1) \div c
  PROVE  (v + 1) \div c = v \div c + 1
<1> DEFINE q == v \div c
           r == v % c
           h == (v + 1) \div c
           t == (v + 1) % c
<1>1. v = c * q + r /\ q \in Nat /\ r \in 0 .. c - 1
  BY Division
<1>2. v + 1 = c * h + t /\ h \in Nat /\ t \in 0 .. c - 1
  <2>1. v + 1 \in Nat
    OBVIOUS
  <2> QED BY <2>1, Division
<1>3. q # h
  OBVIOUS
<1> HIDE DEF q, r, h, t
<1>4. c * q \in Nat /\ c * h \in Nat
  BY <1>1, <1>2
<1>5. ~ q > h
  <2> SUFFICES ASSUME q > h PROVE FALSE
    OBVIOUS
  <2>1. c * q >= c * h + c
    BY <1>1, <1>2, ProductGrows
  <2> QED BY <1>1, <1>2, <1>4, <2>1
<1>6. ~ h > q + 1
  <2> SUFFICES ASSUME h > q + 1 PROVE FALSE
    OBVIOUS
  <2>1. c * h >= c * (q + 1) + c
    BY <1>1, <1>2, ProductGrows
  <2>2. c * (q + 1) = c * q + c
    BY <1>1
  <2> QED BY <1>1, <1>2, <1>4, <2>1, <2>2
<1>7. h = q + 1
  BY <1>1, <1>2, <1>3, <1>5, <1>6
<1> QED BY <1>7 DEF h, q

\* While the quotient stays the remainder grows.
LEMMA LastDigitGrows ==
  ASSUME NEW b \in Nat \ {0}, NEW q \in Nat, q \div b = (q + 1) \div b
  PROVE  q % b < (q + 1) % b
<1> DEFINE h == q \div b
           r == q % b
           t == (q + 1) % b
<1>1. q = b * h + r /\ h \in Nat /\ r \in 0 .. b - 1
  BY Division
<1>2. q + 1 = b * h + t /\ t \in 0 .. b - 1
  <2>1. q + 1 \in Nat
    OBVIOUS
  <2> QED BY <2>1, Division
<1> HIDE DEF h, r, t
<1>3. b * h \in Nat
  BY <1>1
<1>4. r < t
  BY <1>1, <1>2, <1>3
<1> QED BY <1>4 DEF r, t

\* More than the quotient, times the divisor, is more than the number.
LEMMA MultipleExceeds ==
  ASSUME NEW b \in Nat \ {0}, NEW w \in Nat, NEW p \in Nat, ~ p <= w \div b
  PROVE  w < b * p
<1> DEFINE q == w \div b
           r == w % b
<1>1. w = b * q + r /\ q \in Nat /\ r \in 0 .. b - 1
  BY Division
<1>2. p > q
  BY <1>1
<1> HIDE DEF q, r
<1>3. b * p >= b * q + b
  BY <1>1, <1>2, ProductGrows
<1>4. b * q \in Nat /\ b * p \in Nat
  BY <1>1
<1> QED BY <1>1, <1>3, <1>4

\* The digits of a number and of the next: the same up to one that is larger.
LEMMA DigitsAscend ==
  ASSUME prefix_len \in 0 .. TokenLen, NEW v \in Nat, v + 1 < Power[Width]
  PROVE  Less(Digits(v), Digits(v + 1))
<1> DEFINE D == Width
           Q(x, j) == x \div Power[j]
           S == {k \in 0 .. D : \A m \in k .. D : Q(v, m) = Q(v + 1, m)}
<1>1. D \in 0 .. TokenLen /\ D \in Nat /\ TokenLen \in Nat /\ v + 1 \in Nat /\ v + 1 < Power[D]
  BY TokenAssumption DEF Width
<1>2. Base \in Nat \ {0}
  BY TokenAssumption
<1>a. Digits(v) = [i \in 1 .. D |-> Q(v, D - i) % Base]
  BY DEF Digits
<1>b. Digits(v + 1) = [i \in 1 .. D |-> Q(v + 1, D - i) % Base]
  BY DEF Digits
<1> HIDE DEF D
<1>3. /\ Power[0] = 1
      /\ \A d \in 1 .. D : Power[d] = Base * Power[d - 1]
      /\ \A d \in 0 .. D : Power[d] \in Nat \ {0}
  BY <1>1, PowerFacts
<1>4. ASSUME NEW d \in 0 .. D PROVE Q(v, d) \in Nat /\ Q(v + 1, d) \in Nat
  <2>1. Power[d] \in Nat \ {0}
    BY <1>3
  <2> QED BY <1>1, <2>1, Division
<1>5. D \in S
  <2>1. Q(v, D) = 0 /\ Q(v + 1, D) = 0
    <3>1. Power[D] \in Nat \ {0} /\ v \in 0 .. Power[D] - 1 /\ v + 1 \in 0 .. Power[D] - 1
      BY <1>1, <1>3
    <3> QED BY <3>1, SmallRemainder
  <2> HIDE DEF Q
  <2> QED BY <1>1, <2>1
<1>6. PICK k \in S : \A m \in S : k <= m
  <2>1. S \in SUBSET Nat
    OBVIOUS
  <2>2. S # {}
    BY <1>5
  <2> HIDE DEF S
  <2> QED BY <2>1, <2>2, MinOfNaturals
<1>7. k \in 0 .. D /\ \A m \in k .. D : Q(v, m) = Q(v + 1, m)
  OBVIOUS
<1>8. k # 0
  <2> SUFFICES ASSUME k = 0 PROVE FALSE
    OBVIOUS
  <2>1. 0 \in 0 .. D
    BY <1>1
  <2>2. Q(v, 0) = Q(v + 1, 0)
    BY <1>7, <2>1
  <2>3. v \div 1 = v /\ (v + 1) \div 1 = v + 1
    OBVIOUS
  <2> QED BY <1>3, <2>2, <2>3
<1>9. k - 1 \in 0 .. D /\ k - 1 \notin S /\ k \in 1 .. D
  <2>1. k - 1 \in 0 .. D /\ k \in 1 .. D
    BY <1>1, <1>7, <1>8
  <2>2. ~ k <= k - 1
    BY <1>7
  <2> HIDE DEF S
  <2> QED BY <1>6, <2>1, <2>2
<1>10. Q(v, k - 1) # Q(v + 1, k - 1)
  <2> SUFFICES ASSUME Q(v, k - 1) = Q(v + 1, k - 1) PROVE k - 1 \in S
    BY <1>9
  <2>1. ASSUME NEW m \in k - 1 .. D PROVE Q(v, m) = Q(v + 1, m)
    <3>1. m = k - 1 \/ m \in k .. D
      BY <1>1, <1>7
    <3> HIDE DEF Q
    <3> QED BY <1>7, <3>1
  <2> HIDE DEF Q
  <2> QED BY <1>9, <2>1
<1>11. /\ Q(v + 1, k - 1) = Q(v, k - 1) + 1
       /\ Q(v, k) = Q(v, k - 1) \div Base /\ Q(v + 1, k) = Q(v + 1, k - 1) \div Base
  <2> DEFINE c == Power[k - 1]
  <2>1. c \in Nat \ {0} /\ Power[k] = Base * c
    BY <1>3, <1>9
  <2>2. v \div c # (v + 1) \div c
    BY <1>10
  <2> HIDE DEF c
  <2>3. (v + 1) \div c = v \div c + 1
    BY <2>1, <2>2, QuotientsStep
  <2>4. v \div (Base * c) = (v \div c) \div Base
    BY <1>2, <2>1, DividedTwice
  <2>5. (v + 1) \div (Base * c) = ((v + 1) \div c) \div Base
    BY <1>1, <1>2, <2>1, DividedTwice
  <2> QED BY <2>1, <2>3, <2>4, <2>5 DEF c
<1>12. Q(v, k) = Q(v + 1, k)
  <2>1. k \in k .. D
    BY <1>7
  <2> QED BY <1>7, <2>1
<1>13. \A m \in 0 .. D : Q(v, m) \in Nat /\ Q(v + 1, m) \in Nat
  BY <1>4
<1> HIDE DEF Q, S
<1>14. Q(v, k - 1) % Base < Q(v + 1, k - 1) % Base
  <2> DEFINE q == Q(v, k - 1)
  <2>1. q \in Nat
    BY <1>9, <1>13
  <2>2. q \div Base = (q + 1) \div Base
    BY <1>11, <1>12
  <2>3. Q(v + 1, k - 1) = q + 1
    BY <1>11
  <2> HIDE DEF q
  <2>4. q % Base < (q + 1) % Base
    BY <1>2, <2>1, <2>2, LastDigitGrows
  <2> QED BY <2>3, <2>4 DEF q
<1> DEFINE i == D - (k - 1)
<1>15. i \in 1 .. D /\ D - i = k - 1
  BY <1>1, <1>7, <1>9
<1> HIDE DEF i
<1>16. Digits(v)[i] < Digits(v + 1)[i]
  <2>1. Digits(v)[i] = Q(v, k - 1) % Base /\ Digits(v + 1)[i] = Q(v + 1, k - 1) % Base
    BY <1>a, <1>b, <1>15
  <2> QED BY <1>14, <2>1
<1>17. ASSUME NEW j \in 1 .. i - 1 PROVE Digits(v)[j] = Digits(v + 1)[j]
  <2>1. D - j \in k .. D /\ j \in 1 .. D
    BY <1>1, <1>7, <1>15
  <2> QED BY <1>a, <1>b, <1>7, <2>1 DEF Q
<1>18. i \in DOMAIN Digits(v)
  BY <1>a, <1>15
<1> QED BY <1>16, <1>17, <1>18 DEF Less

\* A counter that does not exceed what the width spells fits it.
LEMMA CapacityFacts ==
  ASSUME prefix_len \in 0 .. TokenLen, NEW v \in Nat, v < CounterWord - 1
  PROVE  /\ TokenCapacity \in Nat
         /\ ~ Exceeds(v) => v + 1 <= Power[Width]
<1> DEFINE D == Width
           W == CounterWord - 1
           Fits == \A i \in 0 .. D - 1 : Power[i] <= W \div Base
<1>1. D \in 0 .. TokenLen /\ D \in Nat /\ TokenLen \in Nat /\ W \in Nat
  BY TokenAssumption DEF Width
<1>2. Base \in Nat \ {0}
  BY TokenAssumption
<1>3. TokenCapacity = IF Fits THEN Power[D] ELSE 0
  BY DEF TokenCapacity, Pow36
<1> HIDE DEF D, W
<1>4. /\ \A d \in 1 .. D : Power[d] = Base * Power[d - 1]
      /\ \A d \in 0 .. D : Power[d] \in Nat \ {0}
  BY <1>1, PowerFacts
<1>5. Power[D] \in Nat \ {0}
  BY <1>1, <1>4
<1>6. CASE Fits
  <2>1. TokenCapacity = Power[D]
    BY <1>3, <1>6
  <2> QED BY <1>5, <2>1 DEF Exceeds, D
<1>7. CASE ~ Fits
  <2>1. TokenCapacity = 0
    BY <1>3, <1>7
  <2>2. PICK i \in 0 .. D - 1 : ~ Power[i] <= W \div Base
    BY <1>7
  <2>3. i + 1 \in 1 .. D /\ i + 1 \in 0 .. TokenLen /\ D \in 0 .. TokenLen /\ i + 1 <= D
        /\ (i + 1) - 1 = i /\ i \in 0 .. D
    BY <1>1
  <2> DEFINE p == Power[i]
  <2>4. p \in Nat
    BY <1>4, <2>3
  <2>5. ~ p <= W \div Base
    BY <2>2
  <2>6. Power[i + 1] = Base * p
    BY <1>4, <2>3
  <2>7. Power[i + 1] <= Power[D]
    BY <2>3, PowerGrows
  <2>8. Power[i + 1] \in Nat
    BY <1>4, <2>3
  <2> HIDE DEF p
  <2>9. W \in Nat
    BY <1>1
  <2>10. W < Power[i + 1]
    BY <1>2, <2>4, <2>5, <2>6, <2>9, MultipleExceeds
  <2>11. v + 1 <= Power[D]
    BY <1>1, <1>5, <2>7, <2>8, <2>10 DEF W
  <2> QED BY <2>1, <2>11 DEF D
<1> QED BY <1>6, <1>7

\* A list of digits.
LEMMA DigitsType ==
  ASSUME prefix_len \in 0 .. TokenLen, NEW v \in Nat
  PROVE  Digits(v) \in [1 .. Width -> Nat]
<1> DEFINE D == Width
<1>1. D \in 0 .. TokenLen /\ D \in Nat /\ TokenLen \in Nat
  BY TokenAssumption DEF Width
<1>2. Base \in Nat \ {0}
  BY TokenAssumption
<1>3. Digits(v) = [i \in 1 .. D |-> (v \div Power[D - i]) % Base]
  BY DEF Digits
<1> HIDE DEF D
<1>4. ASSUME NEW i \in 1 .. D PROVE (v \div Power[D - i]) % Base \in Nat
  <2> DEFINE p == Power[D - i]
  <2>1. p \in Nat \ {0}
    <3>1. D - i \in 0 .. TokenLen
      BY <1>1
    <3> QED BY <3>1, PowerFacts
  <2> HIDE DEF p
  <2>2. v \div p \in Nat
    BY <2>1, Division
  <2>3. (v \div p) % Base \in 0 .. Base - 1
    BY <1>2, <2>2, Division
  <2> QED BY <1>2, <2>3 DEF p
<1>5. Digits(v) \in [1 .. D -> Nat]
  BY <1>3, <1>4
<1> QED BY <1>5 DEF D

\* One token more.
LEMMA TokenKeeps ==
  ASSUME TokenInv, NextToken
  PROVE  TokenInv'
<1> DEFINE n == Len(issued)
           v == IF Exceeds(counter) THEN counter % TokenCapacity ELSE counter
<1>1. /\ prefix_len \in 0 .. TokenLen /\ counter \in Nat /\ overflowed \in Nat
      /\ issued \in Seq([1 .. Width -> Nat]) /\ n <= counter /\ IssuedInOrder
  BY DEF TokenInv
<1>2. /\ counter < CounterWord - 1
      /\ overflowed' = IF Exceeds(counter) THEN overflowed + 1 ELSE overflowed
      /\ issued' = Append(issued, Digits(v)) /\ counter' = counter + 1 /\ prefix_len' = prefix_len
  BY DEF NextToken
<1>3. TokenCapacity \in Nat /\ (~ Exceeds(counter) => counter + 1 <= Power[Width])
  BY <1>1, <1>2, CapacityFacts
<1>4. v \in Nat
  <2>1. CASE Exceeds(counter)
    <3> DEFINE c == TokenCapacity
    <3>1. c \in Nat \ {0}
      BY <1>3, <2>1 DEF Exceeds
    <3> HIDE DEF c
    <3>2. counter \in Nat
      BY <1>1
    <3>3. counter % c \in 0 .. c - 1
      BY <3>1, <3>2, Division
    <3> QED BY <2>1, <3>1, <3>3 DEF c
  <2>2. CASE ~ Exceeds(counter)
    BY <1>1, <2>2
  <2> QED BY <2>1, <2>2
<1> HIDE DEF v
<1> DEFINE T == [1 .. Width -> Nat]
           d == Digits(v)
<1>5. d \in T
  BY <1>1, <1>4, DigitsType
<1>6. issued \in Seq(T) /\ issued' = Append(issued, d)
  BY <1>1, <1>2
<1> HIDE DEF T, d
<1>7. /\ issued' \in Seq(T) /\ Len(issued') = n + 1 /\ n \in Nat
      /\ issued'[n + 1] = d /\ \A k \in 1 .. n : issued'[k] = issued[k]
  BY <1>5, <1>6, AppendProperties, LenProperties
<1>8. Width' = Width
  BY <1>2 DEF Width
<1>9. \A x : Digits(x)' = Digits(x)
  BY <1>8 DEF Digits
<1>10. IssuedInOrder'
  <2> SUFFICES ASSUME overflowed' = 0
               PROVE  /\ \A i \in 1 .. n + 1 : issued'[i] = Digits((counter + 1) - (n + 1) + i - 1)
                      /\ counter + 1 <= Power[Width]
    BY <1>2, <1>7, <1>8, <1>9 DEF IssuedInOrder
  <2>1. ~ Exceeds(counter) /\ overflowed = 0
    BY <1>1, <1>2
  <2>2. v = counter
    BY <2>1 DEF v
  <2>3. ASSUME NEW i \in 1 .. n + 1
        PROVE  issued'[i] = Digits((counter + 1) - (n + 1) + i - 1)
    <3>0. (counter + 1) - (n + 1) + i - 1 = counter - n + i - 1
      BY <1>1, <1>7
    <3>1. CASE i = n + 1
      <4>1. counter - n + i - 1 = counter
        BY <1>1, <1>7, <3>1
      <4> QED BY <1>7, <2>2, <3>0, <3>1, <4>1 DEF d
    <3>2. CASE i # n + 1
      <4>1. i \in 1 .. n
        BY <1>7, <3>2
      <4>2. issued[i] = Digits(counter - n + i - 1)
        BY <1>1, <2>1, <4>1 DEF IssuedInOrder
      <4> QED BY <1>7, <3>0, <4>1, <4>2
    <3> QED BY <3>1, <3>2
  <2> QED BY <1>3, <2>1, <2>3
<1>11. issued' \in Seq([1 .. Width' -> Nat])
  BY <1>7, <1>8 DEF T
<1>12. counter' \in Nat /\ overflowed' \in Nat /\ Len(issued') <= counter' /\ prefix_len' \in 0 .. TokenLen
  BY <1>1, <1>2, <1>7
<1> QED BY <1>10, <1>11, <1>12 DEF TokenInv

(* The tokens issued spell the values of the counter, one after the other, *)
(* and until one is counted as an overflow all of them fit the digits that *)
(* the prefix leaves (ouch.hpp, TokenGenerator::next).                     *)
THEOREM TokenInvHolds == TokenSpec => []TokenInv
<1>1. TokenInit => TokenInv
  <2> SUFFICES ASSUME TokenInit PROVE TokenInv
    OBVIOUS
  <2>1. issued = <<>> /\ counter \in 0 .. 1 /\ overflowed = 0 /\ prefix_len \in 0 .. TokenLen
    BY DEF TokenInit
  <2>2. issued \in Seq([1 .. Width -> Nat]) /\ Len(issued) = 0
    BY <2>1
  <2>3. IssuedInOrder
    BY <2>1, <2>2 DEF IssuedInOrder
  <2> QED BY <2>1, <2>2, <2>3 DEF TokenInv
<1>2. TokenInv /\ [NextToken]_tokenVars => TokenInv'
  <2>1. ASSUME TokenInv, UNCHANGED tokenVars PROVE TokenInv'
    BY <2>1 DEF TokenInv, IssuedInOrder, Digits, Width, tokenVars
  <2> QED BY <2>1, TokenKeeps
<1> QED BY <1>1, <1>2, PTL DEF TokenSpec

(* Byte by byte every token sorts after the one sent before it, whatever   *)
(* the prefix leaves for the counter, until exhausted() says otherwise: so *)
(* none is sent twice (ouch.hpp, TokenGenerator::next and pow36).          *)
THEOREM TokensAscend == TokenSpec => []TokensAscendUntilExhausted
<1>1. TokenInv => TokensAscendUntilExhausted
  <2> SUFFICES ASSUME TokenInv, overflowed = 0, NEW i \in 1 .. Len(issued) - 1
               PROVE  Less(issued[i], issued[i + 1])
    BY DEF TokensAscendUntilExhausted
  <2> DEFINE n == Len(issued)
             v == counter - n + i - 1
  <2>1. /\ prefix_len \in 0 .. TokenLen /\ counter \in Nat /\ n \in Nat /\ n <= counter
        /\ issued # <<>> => counter <= Power[Width]
        /\ \A k \in 1 .. n : issued[k] = Digits(counter - n + k - 1)
    BY LenProperties DEF TokenInv, IssuedInOrder
  <2>2. issued # <<>> /\ i \in 1 .. n /\ i + 1 \in 1 .. n
    BY <2>1
  <2>3. v \in Nat /\ v + 1 < counter /\ counter - n + (i + 1) - 1 = v + 1
    BY <2>1, <2>2
  <2>4. Power[Width] \in Nat
    <3>1. Width \in 0 .. TokenLen
      BY <2>1, TokenAssumption DEF Width
    <3> QED BY <3>1, PowerFacts
  <2>5. v + 1 < Power[Width]
    BY <2>1, <2>2, <2>3, <2>4
  <2>6. issued[i] = Digits(v) /\ issued[i + 1] = Digits(v + 1)
    BY <2>1, <2>2, <2>3
  <2> HIDE DEF v
  <2>7. Less(Digits(v), Digits(v + 1))
    BY <2>1, <2>3, <2>5, DigitsAscend
  <2> QED BY <2>6, <2>7
<1> QED BY <1>1, TokenInvHolds, PTL

-----------------------------------------------------------------------------
(***************************************************************************)
(* The two layouts of a book side.  The vector is sorted best first and    *)
(* has the levels of the tree, price by price: so a price is where the     *)
(* search stops or in neither, and its place in the vector is the number   *)
(* of levels before it.                                                    *)
(***************************************************************************)
LevelRecord == [price : SidePrices, quantity : Quantities \cup {0}]

\* Levels best first, and no two at a price.
BestFirst(s) == \A i, j \in 1 .. Len(s) : i < j => Before(s[i].price, s[j].price)

\* A map has the levels of a list and no others.
Maps(m, s) ==
  /\ DOMAIN m = {s[i].price : i \in 1 .. Len(s)}
  /\ \A i \in 1 .. Len(s) : m[s[i].price] = s[i].quantity

SideInv ==
  isBid \in BOOLEAN /\ vector \in Seq(LevelRecord) /\ BestFirst(vector) /\ Maps(tree, vector)

\* The order of a side: of two prices one comes before the other.
LEMMA BeforeFacts ==
  ASSUME NEW a \in Int, NEW b \in Int, NEW c \in Int
  PROVE  /\ ~ (Before(a, b) /\ Before(b, a)) /\ ~ Before(a, a)
         /\ Before(a, b) \/ a = b \/ Before(b, a)
         /\ Before(a, b) /\ Before(b, c) => Before(a, c)
<1>1. CASE isBid
  BY <1>1 DEF Before
<1>2. CASE ~ isBid
  BY <1>2 DEF Before
<1> QED BY <1>1, <1>2

\* A search stops at the first level the price does not come after.
LEMMA LocateFacts ==
  ASSUME SideInv, NEW p \in SidePrices, NEW i, i = Locate(p), NEW n, n = Len(vector)
  PROVE  /\ n \in Nat /\ i \in 1 .. n + 1
         /\ \A j \in 1 .. n : j < i => Before(vector[j].price, p)
         /\ \A j \in 1 .. n : i < j => Before(p, vector[j].price)
         /\ i <= n => vector[i].price = p \/ Before(p, vector[i].price)
<1>1. /\ n \in Nat /\ p \in Int
      /\ \A j \in 1 .. n : vector[j] \in LevelRecord
      /\ \A j, k \in 1 .. n : j < k => Before(vector[j].price, vector[k].price)
  BY SideAssumption, LenProperties, ElementOfSeq DEF SideInv, BestFirst
<1>2. \A j \in 1 .. n : vector[j].price \in Int
  BY <1>1, SideAssumption DEF LevelRecord
<1> DEFINE S == {j \in 1 .. n : ~ Before(vector[j].price, p)} \cup {n + 1}
<1>3. i = Min(S)
  BY DEF Locate
<1>4. S \in SUBSET Nat
  BY <1>1
<1>5. S # {}
  OBVIOUS
<1>6. i \in S /\ \A m \in S : i <= m
  <2> HIDE DEF S
  <2> QED BY <1>3, <1>4, <1>5, MinOfNaturals
<1>7. i \in 1 .. n + 1
  BY <1>1, <1>6
<1>8. ASSUME NEW j \in 1 .. n, j < i PROVE Before(vector[j].price, p)
  <2>1. ~ i <= j
    BY <1>7, <1>8
  <2>2. j \notin S
    BY <1>6, <2>1
  <2> QED BY <2>2
<1>9. ASSUME i <= n PROVE vector[i].price = p \/ Before(p, vector[i].price)
  <2>1. i \in 1 .. n /\ i # n + 1
    BY <1>1, <1>7, <1>9
  <2>2. ~ Before(vector[i].price, p)
    BY <1>6, <2>1
  <2> QED BY <1>1, <1>2, <2>1, <2>2, BeforeFacts
<1>10. ASSUME NEW j \in 1 .. n, i < j PROVE Before(p, vector[j].price)
  <2>1. i <= n /\ i \in 1 .. n
    BY <1>1, <1>7, <1>10
  <2>2. Before(vector[i].price, vector[j].price)
    BY <1>1, <1>10, <2>1
  <2>3. vector[i].price \in Int /\ vector[j].price \in Int
    BY <1>2, <2>1
  <2>4. CASE vector[i].price = p
    BY <2>2, <2>4
  <2>5. CASE Before(p, vector[i].price)
    BY <1>1, <2>2, <2>3, <2>5, BeforeFacts
  <2> QED BY <1>9, <2>1, <2>4, <2>5
<1> QED BY <1>1, <1>7, <1>8, <1>9, <1>10

\* A list with an element put in.
LEMMA InsertAtFacts ==
  ASSUME NEW T, NEW s \in Seq(T), NEW n, n = Len(s), NEW i \in 1 .. n + 1, NEW e \in T
  PROVE  /\ n \in Nat /\ InsertAt(s, i, e) \in Seq(T) /\ Len(InsertAt(s, i, e)) = n + 1
         /\ InsertAt(s, i, e)[i] = e
         /\ \A j \in 1 .. n : /\ j < i => InsertAt(s, i, e)[j] = s[j]
                              /\ i <= j => InsertAt(s, i, e)[j + 1] = s[j]
<1>1. n \in Nat /\ \A j \in 1 .. n : s[j] \in T
  BY LenProperties, ElementOfSeq
<1> DEFINE a == SubSeq(s, 1, i - 1)
           b == SubSeq(s, i, n)
           w == (a \o <<e>>) \o b
<1>2. InsertAt(s, i, e) = w
  BY DEF InsertAt
<1>3. i \in Int /\ i - 1 \in Int /\ n \in Int /\ 1 \in Int /\ i >= 1 /\ i <= n + 1
  BY <1>1
<1>4. /\ a \in Seq(T) /\ Len(a) = i - 1
      /\ \A j \in 1 .. i - 1 : a[j] = s[j]
  <2>1. \A j \in 1 .. i - 1 : s[j] \in T
    BY <1>1, <1>3
  <2>2. /\ a \in Seq(T) /\ Len(a) = IF 1 <= i - 1 THEN (i - 1) - 1 + 1 ELSE 0
        /\ \A j \in 1 .. (i - 1) - 1 + 1 : a[j] = s[1 + j - 1]
    BY <1>3, <2>1, SubSeqProperties
  <2> HIDE DEF a
  <2> QED BY <1>3, <2>2
<1>5. /\ b \in Seq(T) /\ Len(b) = n - i + 1
      /\ \A j \in 1 .. n - i + 1 : b[j] = s[i + j - 1]
  <2>1. \A j \in i .. n : s[j] \in T
    BY <1>1, <1>3
  <2>2. /\ b \in Seq(T) /\ Len(b) = IF i <= n THEN n - i + 1 ELSE 0
        /\ \A j \in 1 .. n - i + 1 : b[j] = s[i + j - 1]
    BY <1>3, <2>1, SubSeqProperties
  <2> HIDE DEF b
  <2> QED BY <1>3, <2>2
<1> HIDE DEF a, b
<1> DEFINE c == a \o <<e>>
<1>6. /\ c \in Seq(T) /\ Len(c) = i
      /\ \A j \in 1 .. i : c[j] = IF j <= i - 1 THEN a[j] ELSE e
  <2>1. <<e>> \in Seq(T) /\ Len(<<e>>) = 1 /\ <<e>>[1] = e
    OBVIOUS
  <2>2. /\ c \in Seq(T) /\ Len(c) = Len(a) + Len(<<e>>)
        /\ \A j \in 1 .. Len(a) + Len(<<e>>) : c[j] = IF j <= Len(a) THEN a[j] ELSE <<e>>[j - Len(a)]
    BY <1>4, <2>1, ConcatProperties
  <2> HIDE DEF c
  <2> QED BY <1>3, <1>4, <2>1, <2>2
<1> HIDE DEF c
<1>7. /\ w \in Seq(T) /\ Len(w) = n + 1
      /\ \A j \in 1 .. n + 1 : w[j] = IF j <= i THEN c[j] ELSE b[j - i]
  <2>1. /\ c \o b \in Seq(T) /\ Len(c \o b) = Len(c) + Len(b)
        /\ \A j \in 1 .. Len(c) + Len(b) : (c \o b)[j] = IF j <= Len(c) THEN c[j] ELSE b[j - Len(c)]
    BY <1>5, <1>6, ConcatProperties
  <2>2. w = c \o b
    BY DEF c
  <2>3. Len(c) + Len(b) = n + 1
    BY <1>3, <1>5, <1>6
  <2> HIDE DEF w
  <2> QED BY <1>6, <2>1, <2>2, <2>3
<1> HIDE DEF w
<1>8. w[i] = e
  BY <1>1, <1>3, <1>6, <1>7
<1>9. ASSUME NEW j \in 1 .. n, j < i PROVE w[j] = s[j]
  BY <1>1, <1>3, <1>4, <1>6, <1>7, <1>9
<1>10. ASSUME NEW j \in 1 .. n, i <= j PROVE w[j + 1] = s[j]
  <2>1. w[j + 1] = b[j + 1 - i] /\ j + 1 - i \in 1 .. n - i + 1 /\ i + (j + 1 - i) - 1 = j
    BY <1>1, <1>3, <1>7, <1>10
  <2> QED BY <1>5, <2>1
<1> QED BY <1>1, <1>2, <1>7, <1>8, <1>9, <1>10

\* A list with an element taken out.
LEMMA RemoveAtFacts ==
  ASSUME NEW T, NEW s \in Seq(T), NEW n, n = Len(s), NEW i \in 1 .. n
  PROVE  /\ n \in Nat /\ RemoveAt(s, i) \in Seq(T) /\ Len(RemoveAt(s, i)) = n - 1
         /\ \A j \in 1 .. n - 1 : RemoveAt(s, i)[j] = IF j < i THEN s[j] ELSE s[j + 1]
<1>1. n \in Nat /\ \A j \in 1 .. n : s[j] \in T
  BY LenProperties, ElementOfSeq
<1> DEFINE a == SubSeq(s, 1, i - 1)
           b == SubSeq(s, i + 1, n)
           w == a \o b
<1>2. RemoveAt(s, i) = w
  BY DEF RemoveAt
<1>3. i \in Int /\ i - 1 \in Int /\ i + 1 \in Int /\ n \in Int /\ 1 \in Int /\ i >= 1 /\ i <= n
  BY <1>1
<1>4. /\ a \in Seq(T) /\ Len(a) = i - 1
      /\ \A j \in 1 .. i - 1 : a[j] = s[j]
  <2>1. \A j \in 1 .. i - 1 : s[j] \in T
    BY <1>1, <1>3
  <2>2. /\ a \in Seq(T) /\ Len(a) = IF 1 <= i - 1 THEN (i - 1) - 1 + 1 ELSE 0
        /\ \A j \in 1 .. (i - 1) - 1 + 1 : a[j] = s[1 + j - 1]
    BY <1>3, <2>1, SubSeqProperties
  <2> HIDE DEF a
  <2> QED BY <1>3, <2>2
<1>5. /\ b \in Seq(T) /\ Len(b) = n - i
      /\ \A j \in 1 .. n - i : b[j] = s[i + j]
  <2>1. \A j \in i + 1 .. n : s[j] \in T
    BY <1>1, <1>3
  <2>2. /\ b \in Seq(T) /\ Len(b) = IF i + 1 <= n THEN n - (i + 1) + 1 ELSE 0
        /\ \A j \in 1 .. n - (i + 1) + 1 : b[j] = s[(i + 1) + j - 1]
    BY <1>3, <2>1, SubSeqProperties
  <2>3. ASSUME NEW j \in 1 .. n - i PROVE b[j] = s[i + j]
    <3>1. j \in 1 .. n - (i + 1) + 1 /\ (i + 1) + j - 1 = i + j
      BY <1>3
    <3> HIDE DEF b
    <3> QED BY <2>2, <3>1
  <2> HIDE DEF b
  <2> QED BY <1>3, <2>2, <2>3
<1> HIDE DEF a, b
<1>6. /\ w \in Seq(T) /\ Len(w) = n - 1
      /\ \A j \in 1 .. n - 1 : w[j] = IF j <= i - 1 THEN a[j] ELSE b[j - (i - 1)]
  <2>1. /\ w \in Seq(T) /\ Len(w) = Len(a) + Len(b)
        /\ \A j \in 1 .. Len(a) + Len(b) : w[j] = IF j <= Len(a) THEN a[j] ELSE b[j - Len(a)]
    BY <1>4, <1>5, ConcatProperties
  <2>2. Len(a) + Len(b) = n - 1
    BY <1>3, <1>4, <1>5
  <2> HIDE DEF w
  <2> QED BY <1>4, <2>1, <2>2
<1> HIDE DEF w
<1>7. ASSUME NEW j \in 1 .. n - 1 PROVE w[j] = IF j < i THEN s[j] ELSE s[j + 1]
  <2>1. CASE j < i
    <3>1. j <= i - 1 /\ j \in 1 .. i - 1
      BY <1>3, <2>1
    <3>2. w[j] = a[j] /\ a[j] = s[j]
      BY <1>4, <1>6, <3>1
    <3> QED BY <2>1, <3>2
  <2>2. CASE ~ j < i
    <3>1. w[j] = b[j - (i - 1)] /\ j - (i - 1) \in 1 .. n - i /\ i + (j - (i - 1)) = j + 1
      BY <1>3, <1>6, <2>2
    <3>2. b[j - (i - 1)] = s[j + 1]
      BY <1>5, <3>1
    <3> QED BY <2>2, <3>1, <3>2
  <2> QED BY <2>1, <2>2
<1> QED BY <1>1, <1>2, <1>6, <1>7

\* What a side holds of its levels.
LEMMA SideFacts ==
  ASSUME SideInv, NEW n, n = Len(vector)
  PROVE  /\ n \in Nat /\ vector \in Seq(LevelRecord)
         /\ \A j \in 1 .. n : vector[j] \in LevelRecord
         /\ \A j \in 1 .. n : vector[j].price \in SidePrices /\ vector[j].price \in Int
         /\ \A j, k \in 1 .. n : j < k => Before(vector[j].price, vector[k].price)
         /\ DOMAIN tree = {vector[j].price : j \in 1 .. n}
         /\ \A j \in 1 .. n : tree[vector[j].price] = vector[j].quantity
<1>1. vector \in Seq(LevelRecord) /\ n \in Nat
  BY LenProperties DEF SideInv
<1>2. \A j \in 1 .. n : vector[j] \in LevelRecord
  BY <1>1, ElementOfSeq
<1>3. \A j \in 1 .. n : vector[j].price \in SidePrices /\ vector[j].price \in Int
  BY <1>2, SideAssumption DEF LevelRecord
<1> QED BY <1>1, <1>2, <1>3 DEF SideInv, BestFirst, Maps

\* A list that has the levels of a side around one more at a place.
Opens(v, i) ==
  /\ Len(v) = Len(vector) + 1
  /\ \A j \in 1 .. Len(vector) : j < i => v[j] = vector[j]
  /\ \A j \in 1 .. Len(vector) : i <= j => v[j + 1] = vector[j]

\* A level made where the search stopped keeps the list and the tree one book.
LEMMA MakingKeepsOrder ==
  ASSUME SideInv, NEW p \in SidePrices, NEW q, NEW i, i = Locate(p), ~ Holds(i, p),
         NEW v, Opens(v, i), v[i].price = p, v[i].quantity = q,
         NEW t, t = [x \in DOMAIN tree \cup {p} |-> IF x = p THEN q ELSE tree[x]]
  PROVE  BestFirst(v) /\ Maps(t, v)
<1> DEFINE n == Len(vector)
<1>c. n = Len(vector)
  OBVIOUS
<1>d. /\ Len(v) = n + 1
      /\ \A j \in 1 .. n : j < i => v[j] = vector[j]
      /\ \A j \in 1 .. n : i <= j => v[j + 1] = vector[j]
  BY DEF Opens
<1> HIDE DEF n
<1>1. n \in Nat /\ p \in Int
  BY <1>c, SideFacts, SideAssumption
<1>a. DOMAIN tree = {vector[j].price : j \in 1 .. n}
  BY <1>c, SideFacts
<1>b. \A j \in 1 .. n : tree[vector[j].price] = vector[j].quantity
  BY <1>c, SideFacts
<1>2. \A j \in 1 .. n : vector[j].price \in SidePrices /\ vector[j].price \in Int
  BY <1>c, SideFacts
<1>3. \A j, k \in 1 .. n : j < k => Before(vector[j].price, vector[k].price)
  BY <1>c, SideFacts
<1>4. /\ i \in 1 .. n + 1
      /\ \A j \in 1 .. n : j < i => Before(vector[j].price, p)
      /\ \A j \in 1 .. n : i < j => Before(p, vector[j].price)
      /\ i <= n => vector[i].price = p \/ Before(p, vector[i].price)
  BY <1>c, LocateFacts
<1>5. ASSUME NEW j \in 1 .. n, i <= j PROVE Before(p, vector[j].price)
  <2>1. CASE i < j
    BY <1>4, <2>1
  <2>2. CASE i = j
    <3>1. i <= n
      BY <1>1, <2>2
    <3> QED BY <1>4, <1>c, <2>2, <3>1 DEF Holds
  <2> QED BY <1>1, <1>4, <1>5, <2>1, <2>2
<1>6. \A k \in 1 .. n + 1 : k < i => k \in 1 .. n /\ v[k] = vector[k]
  BY <1>1, <1>4, <1>d
<1>7. ASSUME NEW k \in 1 .. n + 1, i < k
      PROVE  k - 1 \in 1 .. n /\ i <= k - 1 /\ v[k] = vector[k - 1]
  <2>1. k - 1 \in 1 .. n /\ i <= k - 1 /\ (k - 1) + 1 = k
    BY <1>1, <1>4, <1>7
  <2> QED BY <1>d, <2>1
<1>8. ASSUME NEW j \in 1 .. n + 1, NEW k \in 1 .. n + 1, j < k
      PROVE  Before(v[j].price, v[k].price)
  <2>1. CASE k < i
    BY <1>1, <1>3, <1>4, <1>6, <1>8, <2>1
  <2>2. CASE k = i
    BY <1>4, <1>6, <1>8, <2>2
  <2>3. CASE i < k /\ j < i
    <3>1. j \in 1 .. n /\ v[j] = vector[j] /\ k - 1 \in 1 .. n /\ v[k] = vector[k - 1] /\ j < k - 1
      BY <1>1, <1>4, <1>6, <1>7, <2>3
    <3> QED BY <1>3, <3>1
  <2>4. CASE i < k /\ j = i
    BY <1>5, <1>7, <2>4
  <2>5. CASE i < k /\ i < j
    <3>1. j - 1 \in 1 .. n /\ v[j] = vector[j - 1] /\ k - 1 \in 1 .. n /\ v[k] = vector[k - 1]
          /\ j - 1 < k - 1
      BY <1>1, <1>7, <1>8, <2>5
    <3> QED BY <1>3, <3>1
  <2> QED BY <1>1, <1>4, <1>8, <2>1, <2>2, <2>3, <2>4, <2>5
<1>9. BestFirst(v)
  BY <1>8, <1>d DEF BestFirst
<1>10. ASSUME NEW k \in 1 .. n + 1
       PROVE  v[k].price \in DOMAIN t /\ t[v[k].price] = v[k].quantity
  <2>1. CASE k = i
    BY <2>1
  <2>2. CASE k # i
    <3>1. PICK j \in 1 .. n : v[k] = vector[j]
      BY <1>1, <1>4, <1>6, <1>7, <1>10, <2>2
    <3>2. vector[j].price # p
      <4>1. vector[j].price \in Int
        BY <1>2
      <4>2. CASE j < i
        BY <1>1, <1>4, <4>1, <4>2, BeforeFacts
      <4>3. CASE i <= j
        BY <1>1, <1>5, <4>1, <4>3, BeforeFacts
      <4> QED BY <1>1, <1>4, <4>2, <4>3
    <3>3. vector[j].price \in DOMAIN tree /\ tree[vector[j].price] = vector[j].quantity
      BY <1>a, <1>b
    <3> QED BY <3>1, <3>2, <3>3
  <2> QED BY <2>1, <2>2
<1>11. ASSUME NEW x \in DOMAIN t PROVE \E k \in 1 .. n + 1 : v[k].price = x
  <2>1. CASE x = p
    BY <1>4, <2>1
  <2>2. CASE x # p
    <3>1. PICK j \in 1 .. n : vector[j].price = x
      BY <1>a, <2>2
    <3>2. CASE j < i
      <4>1. j \in 1 .. n + 1 /\ v[j] = vector[j]
        BY <1>1, <1>d, <3>2
      <4> QED BY <3>1, <4>1
    <3>3. CASE i <= j
      <4>1. j + 1 \in 1 .. n + 1 /\ v[j + 1] = vector[j]
        BY <1>1, <1>d, <3>3
      <4> QED BY <3>1, <4>1
    <3> QED BY <1>1, <1>4, <3>2, <3>3
  <2> QED BY <2>1, <2>2
<1>12. Maps(t, v)
  <2>1. DOMAIN t = {v[k].price : k \in 1 .. Len(v)}
    <3> QED BY <1>10, <1>d, <1>11
  <2>2. \A k \in 1 .. Len(v) : t[v[k].price] = v[k].quantity
    <3> QED BY <1>10, <1>d
  <2> QED BY <2>1, <2>2 DEF Maps
<1> QED BY <1>9, <1>12

\* v and t are the list and the tree, with q written at the level at i, of price p.
LevelWritten(v, t, i, p, q) ==
  /\ vector[i].price = p
  /\ Len(v) = Len(vector) /\ v[i].price = p /\ v[i].quantity = q
  /\ \A j \in 1 .. Len(vector) : j # i => v[j] = vector[j]
  /\ t = [x \in DOMAIN tree \cup {p} |-> IF x = p THEN q ELSE tree[x]]

\* Writing a level that is there changes its quantity on both sides.
LEMMA WritingKeepsOrder ==
  ASSUME SideInv, NEW p \in SidePrices, NEW q, NEW i \in 1 .. Len(vector),
         NEW v, NEW t, LevelWritten(v, t, i, p, q)
  PROVE  BestFirst(v) /\ Maps(t, v)
<1> DEFINE n == Len(vector)
<1>w. /\ vector[i].price = p
      /\ Len(v) = n /\ v[i].price = p /\ v[i].quantity = q
      /\ \A j \in 1 .. n : j # i => v[j] = vector[j]
      /\ t = [x \in DOMAIN tree \cup {p} |-> IF x = p THEN q ELSE tree[x]]
  BY DEF LevelWritten
<1> HIDE DEF n
<1>1. n \in Nat /\ p \in Int
  BY SideFacts, SideAssumption DEF n
<1>i. n = Len(vector) /\ i \in 1 .. n
  BY DEF n
<1>2. \A j \in 1 .. n : vector[j].price \in SidePrices /\ vector[j].price \in Int
  BY <1>i, SideFacts
<1>3. \A j, k \in 1 .. n : j < k => Before(vector[j].price, vector[k].price)
  BY <1>i, SideFacts
<1>4. \A j \in 1 .. n : v[j].price = vector[j].price
  BY <1>w
<1>5. BestFirst(v)
  BY <1>3, <1>4, <1>w DEF BestFirst
<1>6. DOMAIN tree = {vector[j].price : j \in 1 .. n}
  BY <1>i, SideFacts
<1>10. \A j \in 1 .. n : tree[vector[j].price] = vector[j].quantity
  BY <1>i, SideFacts
<1>7. DOMAIN t = DOMAIN tree
  BY <1>6, <1>i, <1>w
<1>8. ASSUME NEW k \in 1 .. n PROVE t[v[k].price] = v[k].quantity
  <2>1. CASE k = i
    BY <2>1, <1>w
  <2>2. CASE k # i
    <3>1. vector[k].price # p
      <4>1. Before(vector[k].price, p) \/ Before(p, vector[k].price)
        BY <1>1, <1>3, <1>i, <1>w, <2>2
      <4> QED BY <1>1, <4>1, BeforeFacts
    <3>2. vector[k].price \in DOMAIN tree /\ tree[vector[k].price] = vector[k].quantity
      BY <1>6, <1>10
    <3> QED BY <2>2, <3>1, <3>2, <1>w
  <2> QED BY <2>1, <2>2
<1>9. Maps(t, v)
  <2>1. {vector[j].price : j \in 1 .. n} = {v[j].price : j \in 1 .. n}
    BY <1>4
  <2>2. DOMAIN t = {v[j].price : j \in 1 .. Len(v)}
    BY <1>6, <1>7, <1>w, <2>1
  <2>3. \A k \in 1 .. Len(v) : t[v[k].price] = v[k].quantity
    BY <1>8, <1>w
  <2> QED BY <2>2, <2>3 DEF Maps
<1> QED BY <1>5, <1>9

\* A level taken out of the list is the one taken out of the tree.
LEMMA ErasingKeepsOrder ==
  ASSUME SideInv, NEW p \in SidePrices, NEW n, n = Len(vector),
         NEW i \in 1 .. n, vector[i].price = p, NEW v, Len(v) = n - 1,
         \A j \in 1 .. n - 1 : v[j] = IF j < i THEN vector[j] ELSE vector[j + 1],
         NEW t, t = [x \in DOMAIN tree \ {p} |-> tree[x]]
  PROVE  BestFirst(v) /\ Maps(t, v)
<1>1. n \in Nat /\ p \in Int
  BY SideFacts, SideAssumption
<1>3. \A j, k \in 1 .. n : j < k => Before(vector[j].price, vector[k].price)
  BY SideFacts
<1> DEFINE pos(j) == IF j < i THEN j ELSE j + 1
<1>4. \A j \in 1 .. n - 1 : pos(j) \in 1 .. n /\ pos(j) # i /\ v[j] = vector[pos(j)]
  BY <1>1
<1>5. \A j, k \in 1 .. n - 1 : j < k => pos(j) < pos(k)
  BY <1>1
<1>6. \A k \in 1 .. n : k # i => \E j \in 1 .. n - 1 : pos(j) = k
  <2> SUFFICES ASSUME NEW k \in 1 .. n, k # i PROVE \E j \in 1 .. n - 1 : pos(j) = k
    OBVIOUS
  <2>1. CASE k < i
    <3>1. k \in 1 .. n - 1 /\ pos(k) = k
      BY <1>1, <2>1
    <3> QED BY <3>1
  <2>2. CASE i < k
    <3>1. k - 1 \in 1 .. n - 1 /\ pos(k - 1) = k
      BY <1>1, <2>2
    <3> QED BY <3>1
  <2> QED BY <1>1, <2>1, <2>2
<1> HIDE DEF pos
<1>7. \A j \in 1 .. n : j # i => vector[j].price # p
  <2> SUFFICES ASSUME NEW j \in 1 .. n, j # i PROVE vector[j].price # p
    OBVIOUS
  <2>1. Before(vector[j].price, p) \/ Before(p, vector[j].price)
    BY <1>1, <1>3
  <2> QED BY <1>1, <2>1, BeforeFacts
<1>8. BestFirst(v)
  BY <1>3, <1>4, <1>5 DEF BestFirst
<1>9. DOMAIN tree = {vector[j].price : j \in 1 .. n}
  BY SideFacts
<1>10. \A j \in 1 .. n : tree[vector[j].price] = vector[j].quantity
  BY SideFacts
<1>11. ASSUME NEW k \in 1 .. n - 1 PROVE v[k].price \in DOMAIN t /\ t[v[k].price] = v[k].quantity
  <2>1. PICK j \in 1 .. n : j # i /\ v[k] = vector[j]
    BY <1>4
  <2>2. vector[j].price \in DOMAIN tree \ {p} /\ tree[vector[j].price] = vector[j].quantity
    BY <1>7, <1>9, <1>10, <2>1
  <2> QED BY <2>1, <2>2
<1>12. ASSUME NEW x \in DOMAIN t PROVE \E k \in 1 .. n - 1 : v[k].price = x
  <2>1. PICK j \in 1 .. n : vector[j].price = x
    BY <1>9
  <2>2. j # i
    BY <2>1
  <2> QED BY <1>4, <1>6, <2>1, <2>2
<1>13. Maps(t, v)
  <2>1. DOMAIN t = {v[k].price : k \in 1 .. Len(v)}
    <3>1. \A x \in DOMAIN t : x \in {v[k].price : k \in 1 .. Len(v)}
      BY <1>12
    <3>2. \A x \in {v[k].price : k \in 1 .. Len(v)} : x \in DOMAIN t
      BY <1>11
    <3> QED BY <3>1, <3>2
  <2>2. \A k \in 1 .. Len(v) : t[v[k].price] = v[k].quantity
    BY <1>11
  <2> QED BY <2>1, <2>2 DEF Maps
<1> QED BY <1>8, <1>13

\* A step that leaves the list and the tree one book keeps the invariant.
LEMMA SideKept ==
  ASSUME SideInv, UNCHANGED isBid, vector' \in Seq(LevelRecord), NEW v, vector' = v,
         NEW t, tree' = t, BestFirst(v), Maps(t, v)
  PROVE  SideInv'
<1>1. isBid' \in BOOLEAN
  BY DEF SideInv
<1>2. \A a, b : Before(a, b)' = Before(a, b)
  BY DEF Before
<1>3. BestFirst(vector)'
  BY <1>2 DEF BestFirst, Before
<1>4. Maps(tree, vector)'
  BY DEF Maps
<1> QED BY <1>1, <1>3, <1>4 DEF SideInv, LevelRecord

\* A list with the quantity of one level written.
LEMMA WrittenFacts ==
  ASSUME NEW s \in Seq(LevelRecord), NEW i \in 1 .. Len(s), NEW q \in Quantities,
         NEW v, v = [s EXCEPT ![i].quantity = q]
  PROVE  /\ v \in Seq(LevelRecord) /\ Len(v) = Len(s)
         /\ v[i].price = s[i].price /\ v[i].quantity = q
         /\ \A j \in 1 .. Len(s) : j # i => v[j] = s[j]
<1>1. s[i] \in LevelRecord
  BY ElementOfSeq
<1> DEFINE e == [s[i] EXCEPT !.quantity = q]
<1>2. e \in LevelRecord /\ e.price = s[i].price /\ e.quantity = q
  BY <1>1 DEF LevelRecord
<1>3. v = [s EXCEPT ![i] = e]
  OBVIOUS
<1> HIDE DEF e
<1>4. /\ v \in Seq(LevelRecord) /\ Len(v) = Len(s)
      /\ \A j \in 1 .. Len(s) : v[j] = IF j = i THEN e ELSE s[j]
  BY <1>2, <1>3, ExceptSeq
<1> QED BY <1>2, <1>4

\* MapSide::level and VectorSide::level: the level is found or made, then written.
LEMMA LevelKeepsSide ==
  ASSUME SideInv, NEW p \in SidePrices, NEW q \in Quantities, Level(p, q)
  PROVE  SideInv'
<1> DEFINE i == Locate(p)
           n == Len(vector)
           e == [price |-> p, quantity |-> 0]
           found == IF Holds(i, p) THEN vector ELSE InsertAt(vector, i, e)
           v == [found EXCEPT ![i].quantity = q]
           t == [x \in DOMAIN tree \cup {p} |-> IF x = p THEN q ELSE tree[x]]
<1>1. vector' = v /\ tree' = t /\ UNCHANGED isBid
  BY DEF Level
<1>2. n \in Nat /\ vector \in Seq(LevelRecord)
  BY SideFacts
<1>3. i \in 1 .. n + 1
  <2>1. n = Len(vector) /\ i = Locate(p)
    OBVIOUS
  <2> HIDE DEF i, n
  <2> QED BY <2>1, LocateFacts
<1>4. e \in LevelRecord
  BY DEF LevelRecord
<1>5. n = Len(vector) /\ i = Locate(p)
  OBVIOUS
<1>6. CASE Holds(i, p)
  <2>1. i \in 1 .. n /\ vector[i].price = p
    BY <1>2, <1>3, <1>6 DEF Holds
  <2>2. v = [vector EXCEPT ![i].quantity = q]
    BY <1>6
  <2> HIDE DEF i, n, v, found
  <2>3. /\ v \in Seq(LevelRecord) /\ Len(v) = n
        /\ v[i].price = p /\ v[i].quantity = q
        /\ \A j \in 1 .. n : j # i => v[j] = vector[j]
    <3>1. vector \in Seq(LevelRecord)
      BY <1>2
    <3>2. i \in 1 .. Len(vector)
      BY <1>5, <2>1
    <3>3. /\ v \in Seq(LevelRecord) /\ Len(v) = Len(vector)
          /\ v[i].price = vector[i].price /\ v[i].quantity = q
          /\ \A j \in 1 .. Len(vector) : j # i => v[j] = vector[j]
      BY <2>2, <3>1, <3>2, WrittenFacts
    <3> QED BY <1>5, <2>1, <3>3
  <2>4. i \in 1 .. n
    BY <2>1
  <2>5. vector[i].price = p
    BY <2>1
  <2>6. n = Len(vector)
    BY <1>5
  <2>7. Len(v) = n
    BY <2>3
  <2>8. v[i].price = p
    BY <2>3
  <2>9. v[i].quantity = q
    BY <2>3
  <2>10. \A j \in 1 .. n : j # i => v[j] = vector[j]
    BY <2>3
  <2>11. BestFirst(v) /\ Maps(t, v)
    <3>1. t = [x \in DOMAIN tree \cup {p} |-> IF x = p THEN q ELSE tree[x]]
      OBVIOUS
    <3> HIDE DEF t
    <3>2. LevelWritten(v, t, i, p, q)
      BY <2>5, <2>6, <2>7, <2>8, <2>9, <2>10, <3>1 DEF LevelWritten
    <3> QED BY <2>4, <2>6, <3>2, WritingKeepsOrder
  <2> HIDE DEF t
  <2> QED BY <1>1, <2>3, <2>11, SideKept
<1>7. CASE ~ Holds(i, p)
  <2> DEFINE w == InsertAt(vector, i, e)
  <2>1. v = [w EXCEPT ![i].quantity = q]
    BY <1>7
  <2> HIDE DEF i, n, v, found, e
  <2>a. vector \in Seq(LevelRecord)
    BY <1>2
  <2>b. n = Len(vector)
    BY <1>5
  <2>c. i = Locate(p)
    BY <1>5
  <2>2. /\ w \in Seq(LevelRecord) /\ Len(w) = n + 1 /\ w[i] = e
        /\ \A j \in 1 .. n : /\ j < i => w[j] = vector[j]
                             /\ i <= j => w[j + 1] = vector[j]
    BY <2>a, <2>b, <1>3, <1>4, InsertAtFacts
  <2> HIDE DEF w
  <2>3. w[i].price = p
    BY <2>2 DEF e
  <2>4. /\ v \in Seq(LevelRecord) /\ Len(v) = n + 1
        /\ v[i].price = p /\ v[i].quantity = q
        /\ \A j \in 1 .. n + 1 : j # i => v[j] = w[j]
    <3>1. w \in Seq(LevelRecord)
      BY <2>2
    <3>2. i \in 1 .. Len(w)
      BY <1>3, <2>2
    <3>3. /\ v \in Seq(LevelRecord) /\ Len(v) = Len(w)
          /\ v[i].price = w[i].price /\ v[i].quantity = q
          /\ \A j \in 1 .. Len(w) : j # i => v[j] = w[j]
      BY <2>1, <3>1, <3>2, WrittenFacts
    <3> QED BY <2>2, <2>3, <3>3
  <2>5. \A j \in 1 .. n : j < i => v[j] = vector[j]
    <3> SUFFICES ASSUME NEW j \in 1 .. n, j < i PROVE v[j] = vector[j]
      OBVIOUS
    <3>1. j \in 1 .. n + 1 /\ j # i
      BY <1>2, <1>3
    <3> QED BY <2>2, <2>4, <3>1
  <2>6. \A j \in 1 .. n : i <= j => v[j + 1] = vector[j]
    <3> SUFFICES ASSUME NEW j \in 1 .. n, i <= j PROVE v[j + 1] = vector[j]
      OBVIOUS
    <3>1. j + 1 \in 1 .. n + 1 /\ j + 1 # i
      BY <1>2, <1>3
    <3> QED BY <2>2, <2>4, <3>1
  <2>7. BestFirst(v) /\ Maps(t, v)
    <3>1. Len(v) = n + 1
      BY <2>4
    <3>2. v[i].price = p
      BY <2>4
    <3>3. v[i].quantity = q
      BY <2>4
    <3>4. t = [x \in DOMAIN tree \cup {p} |-> IF x = p THEN q ELSE tree[x]]
      OBVIOUS
    <3>5. Opens(v, i)
      BY <2>b, <2>5, <2>6, <3>1 DEF Opens
    <3> HIDE DEF t
    <3> QED BY <1>7, <2>c, <3>2, <3>3, <3>4, <3>5, MakingKeepsOrder
  <2> HIDE DEF t
  <2> QED BY <1>1, <2>4, <2>7, SideKept
<1> QED BY <1>6, <1>7

\* A price the search does not find is in the tree neither.
LEMMA AbsentFromBoth ==
  ASSUME SideInv, NEW p \in SidePrices, NEW i, i = Locate(p), ~ Holds(i, p)
  PROVE  p \notin DOMAIN tree
<1> DEFINE n == Len(vector)
<1>1. n = Len(vector)
  OBVIOUS
<1> HIDE DEF n
<1>2. n \in Nat
  BY <1>1, SideFacts
<1>3. /\ i \in 1 .. n + 1
      /\ \A j \in 1 .. n : j < i => Before(vector[j].price, p)
      /\ \A j \in 1 .. n : i < j => Before(p, vector[j].price)
  BY <1>1, LocateFacts
<1>4. DOMAIN tree = {vector[j].price : j \in 1 .. n}
  BY <1>1, SideFacts
<1>5. \A j \in 1 .. n : vector[j].price \in Int
  BY <1>1, SideFacts
<1>6. ASSUME NEW j \in 1 .. n PROVE vector[j].price # p
  <2>1. p \in Int /\ vector[j].price \in Int
    BY <1>5, SideAssumption
  <2>2. CASE j < i
    BY <1>3, <2>1, <2>2, BeforeFacts
  <2>3. CASE i < j
    BY <1>3, <2>1, <2>3, BeforeFacts
  <2>4. CASE j = i
    BY <1>1, <1>2, <2>4 DEF Holds
  <2> QED BY <1>2, <1>3, <2>2, <2>3, <2>4
<1> QED BY <1>4, <1>6

\* MapSide::erase and VectorSide::erase: the level goes from both, or neither has it.
LEMMA EraseKeepsSide ==
  ASSUME SideInv, NEW p \in SidePrices, EraseLevel(p)
  PROVE  SideInv'
<1> DEFINE i == Locate(p)
           n == Len(vector)
           v == IF Holds(i, p) THEN RemoveAt(vector, i) ELSE vector
           t == [x \in DOMAIN tree \ {p} |-> tree[x]]
<1>1. vector' = v /\ tree' = t /\ UNCHANGED isBid
  BY DEF EraseLevel
<1>2. n \in Nat /\ vector \in Seq(LevelRecord)
  BY SideFacts
<1>3. /\ i \in 1 .. n + 1
      /\ \A j \in 1 .. n : j < i => Before(vector[j].price, p)
      /\ \A j \in 1 .. n : i < j => Before(p, vector[j].price)
  <2>1. n = Len(vector) /\ i = Locate(p)
    OBVIOUS
  <2> HIDE DEF i, n
  <2> QED BY <2>1, LocateFacts
<1>4. n = Len(vector) /\ i = Locate(p)
  OBVIOUS
<1>5. CASE Holds(i, p)
  <2>1. i \in 1 .. n /\ vector[i].price = p
    BY <1>2, <1>3, <1>5 DEF Holds
  <2>2. v = RemoveAt(vector, i)
    BY <1>5
  <2> HIDE DEF i, n, v
  <2>3. /\ v \in Seq(LevelRecord) /\ Len(v) = n - 1
        /\ \A j \in 1 .. n - 1 : v[j] = IF j < i THEN vector[j] ELSE vector[j + 1]
    <3>1. vector \in Seq(LevelRecord)
      BY <1>2
    <3>2. n = Len(vector)
      BY <1>4
    <3>3. i \in 1 .. n
      BY <2>1
    <3> DEFINE w == RemoveAt(vector, i)
    <3>4. w \in Seq(LevelRecord) /\ Len(w) = n - 1
      BY <3>1, <3>2, <3>3, RemoveAtFacts
    <3>5. \A j \in 1 .. n - 1 : w[j] = IF j < i THEN vector[j] ELSE vector[j + 1]
      BY <3>1, <3>2, <3>3, RemoveAtFacts, ZenonT(60)
    <3>6. v = w
      BY <2>2
    <3> HIDE DEF w
    <3> QED BY <3>4, <3>5, <3>6
  <2>4. BestFirst(v) /\ Maps(t, v)
    BY <1>4, <2>1, <2>3, ErasingKeepsOrder
  <2> HIDE DEF t
  <2> QED BY <1>1, <2>3, <2>4, SideKept
<1>6. CASE ~ Holds(i, p)
  <2>1. v = vector
    BY <1>6
  <2>2. p \notin DOMAIN tree
    BY <1>4, <1>6, AbsentFromBoth
  <2>3. \A x \in DOMAIN tree : t[x] = tree[x]
    BY <2>2
  <2>4. DOMAIN t = DOMAIN tree
    BY <2>2
  <2>5. BestFirst(vector) /\ Maps(tree, vector)
    BY DEF SideInv
  <2> HIDE DEF t, i, n, v
  <2>6. Maps(t, vector)
    BY <2>3, <2>4, <2>5 DEF Maps
  <2> QED BY <1>1, <1>2, <2>1, <2>5, <2>6, SideKept
<1> QED BY <1>5, <1>6

\* Whatever levels are made, written and erased, the list is sorted best first and has the
\* levels of the tree.
THEOREM SideInvHolds == SideSpec => []SideInv
<1>1. SideInit => SideInv
  <2> SUFFICES ASSUME SideInit PROVE SideInv
    OBVIOUS
  <2>1. isBid \in BOOLEAN /\ tree = <<>> /\ vector = <<>>
    BY DEF SideInit
  <2>2. vector \in Seq(LevelRecord) /\ Len(vector) = 0
    BY <2>1
  <2>3. BestFirst(vector)
    BY <2>2 DEF BestFirst
  <2>4. Maps(tree, vector)
    <3>1. DOMAIN tree = {}
      BY <2>1
    <3> QED BY <2>2, <3>1 DEF Maps
  <2> QED BY <2>1, <2>2, <2>3, <2>4 DEF SideInv
<1>2. SideInv /\ [SideNext]_sideVars => SideInv'
  <2> SUFFICES ASSUME SideInv, [SideNext]_sideVars PROVE SideInv'
    OBVIOUS
  <2>1. ASSUME NEW p \in SidePrices, NEW q \in Quantities, Level(p, q) PROVE SideInv'
    BY <2>1, LevelKeepsSide
  <2>2. ASSUME NEW p \in SidePrices, EraseLevel(p) PROVE SideInv'
    BY <2>2, EraseKeepsSide
  <2>3. CASE ClearSide
    <3>1. vector' = <<>> /\ tree' = <<>> /\ UNCHANGED isBid
      BY <2>3 DEF ClearSide
    <3>2. <<>> \in Seq(LevelRecord) /\ Len(<<>>) = 0
      OBVIOUS
    <3>3. BestFirst(<<>>)
      BY <3>2 DEF BestFirst
    <3>4. Maps(<<>>, <<>>)
      BY <3>2 DEF Maps
    <3> QED BY <3>1, <3>2, <3>3, <3>4, SideKept
  <2>4. CASE UNCHANGED sideVars
    <3>1. UNCHANGED <<isBid, tree, vector>>
      BY <2>4 DEF sideVars
    <3> QED BY <3>1 DEF SideInv, Before, BestFirst, Maps, LevelRecord
  <2> QED BY <2>1, <2>2, <2>3, <2>4 DEF SideNext
<1> QED BY <1>1, <1>2, PTL DEF SideSpec

\* The prices of the first levels of a side are as many as the levels.
LEMMA FirstPricesCounted ==
  ASSUME SideInv, NEW k \in 0 .. Len(vector)
  PROVE  Cardinality({vector[j].price : j \in 1 .. k}) = k
<1> DEFINE n == Len(vector)
<1>1. n = Len(vector)
  OBVIOUS
<1> HIDE DEF n
<1>2. n \in Nat /\ k \in Nat /\ k <= n
  <2>1. n \in Nat
    BY <1>1, SideFacts
  <2> QED BY <1>1, <2>1
<1>3. \A i, j \in 1 .. n : i < j => Before(vector[i].price, vector[j].price)
  BY <1>1, SideFacts
<1>4. \A j \in 1 .. n : vector[j].price \in Int
  BY <1>1, SideFacts
<1>5. \A j \in 1 .. k : j \in 1 .. n
  BY <1>2
<1> DEFINE S == {vector[j].price : j \in 1 .. k}
           f == [j \in 1 .. k |-> vector[j].price]
<1>6. f \in [1 .. k -> S]
  OBVIOUS
<1>7. \A t \in S : \E j \in 1 .. k : f[j] = t
  OBVIOUS
<1>8. ASSUME NEW i \in 1 .. k, NEW j \in 1 .. k, f[i] = f[j] PROVE i = j
  <2>1. vector[i].price = vector[j].price
    BY <1>8
  <2>2. ~ Before(vector[i].price, vector[j].price) /\ ~ Before(vector[j].price, vector[i].price)
    BY <1>4, <1>5, <2>1, BeforeFacts
  <2>3. ~ i < j /\ ~ j < i
    BY <1>3, <1>5, <2>2
  <2> QED BY <1>2, <2>3
<1> HIDE DEF f
<1>9. ExistsBijection(1 .. k, S)
  <2> HIDE DEF S
  <2>1. \A i, j \in 1 .. k : f[i] = f[j] => i = j
    BY <1>8
  <2> QED BY <1>6, <1>7, <2>1, OneToOne
<1>10. Cardinality(S) = k
  <2> HIDE DEF S
  <2>1. k \in Nat
    BY <1>2
  <2> QED BY <1>9, <2>1, FS_CountingElements
<1> QED BY <1>10

\* The walk of the tree meets the levels in the order of the list.
LEMMA WalkIsTheList ==
  ASSUME SideInv
  PROVE  vector = TreeWalk
<1> DEFINE n == Len(vector)
<1>1. n = Len(vector)
  OBVIOUS
<1> HIDE DEF n
<1>2. n \in Nat /\ vector \in Seq(LevelRecord)
  BY <1>1, SideFacts
<1>3. DOMAIN tree = {vector[j].price : j \in 1 .. n}
  BY <1>1, SideFacts
<1>4. \A j \in 1 .. n : tree[vector[j].price] = vector[j].quantity
  BY <1>1, SideFacts
<1>5. \A i, j \in 1 .. n : i < j => Before(vector[i].price, vector[j].price)
  BY <1>1, SideFacts
<1>6. \A j \in 1 .. n : vector[j].price \in Int
  BY <1>1, SideFacts
<1>7. Cardinality(DOMAIN tree) = n
  BY <1>1, <1>2, <1>3, FirstPricesCounted
<1> DEFINE ahead(x) == {y \in DOMAIN tree : Before(y, x)}
<1>8. ASSUME NEW i \in 1 .. n PROVE Cardinality(ahead(vector[i].price)) = i - 1
  <2> DEFINE x == vector[i].price
             P == {vector[j].price : j \in 1 .. i - 1}
  <2>1. ASSUME NEW y \in P PROVE y \in ahead(x)
    <3>1. PICK j \in 1 .. i - 1 : vector[j].price = y
      OBVIOUS
    <3>2. j \in 1 .. n /\ j < i
      BY <1>2, <3>1
    <3> QED BY <1>3, <1>5, <3>1, <3>2
  <2>2. ASSUME NEW y \in ahead(x) PROVE y \in P
    <3>1. PICK j \in 1 .. n : vector[j].price = y
      BY <1>3, <2>2
    <3>2. Before(vector[j].price, vector[i].price)
      BY <2>2, <3>1
    <3>3. vector[j].price \in Int /\ vector[i].price \in Int
      BY <1>6
    <3>4. ~ Before(vector[i].price, vector[j].price) /\ j # i
      BY <3>2, <3>3, BeforeFacts
    <3>5. ~ i < j
      BY <1>5, <3>4
    <3>6. j \in 1 .. i - 1
      BY <1>2, <3>4, <3>5
    <3> QED BY <3>1, <3>6
  <2>3. ahead(x) = P
    <3> HIDE DEF P, ahead
    <3> QED BY <2>1, <2>2
  <2>4. i - 1 \in 0 .. Len(vector)
    BY <1>1, <1>2
  <2>5. Cardinality(P) = i - 1
    BY <2>4, FirstPricesCounted
  <2> HIDE DEF P, ahead
  <2> QED BY <2>3, <2>5
<1>9. ASSUME NEW i \in 1 .. n
      PROVE  (CHOOSE x \in DOMAIN tree : Cardinality(ahead(x)) = i - 1) = vector[i].price
  <2>1. vector[i].price \in DOMAIN tree
    BY <1>3
  <2>2. ASSUME NEW x \in DOMAIN tree, Cardinality(ahead(x)) = i - 1 PROVE x = vector[i].price
    <3>1. PICK j \in 1 .. n : x = vector[j].price
      BY <1>3
    <3>2. j - 1 = i - 1
      <4> HIDE DEF ahead
      <4> QED BY <1>8, <2>2, <3>1
    <3> QED BY <1>2, <3>1, <3>2
  <2> HIDE DEF ahead
  <2> QED BY <1>8, <2>1, <2>2
<1>10. TreeWalk = [i \in 1 .. n |-> [price |-> vector[i].price, quantity |-> vector[i].quantity]]
  <2> DEFINE pos(i) == CHOOSE x \in DOMAIN tree : Cardinality(ahead(x)) = i - 1
  <2>1. TreeWalk = [i \in 1 .. n |-> [price |-> pos(i), quantity |-> tree[pos(i)]]]
    BY <1>7 DEF TreeWalk
  <2>2. \A i \in 1 .. n : pos(i) = vector[i].price /\ tree[pos(i)] = vector[i].quantity
    BY <1>4, <1>9
  <2> HIDE DEF pos
  <2> QED BY <2>1, <2>2
<1>11. \A i \in 1 .. n : vector[i] = [price |-> vector[i].price, quantity |-> vector[i].quantity]
  <2> SUFFICES ASSUME NEW i \in 1 .. n
      PROVE vector[i] = [price |-> vector[i].price, quantity |-> vector[i].quantity]
    OBVIOUS
  <2>1. vector[i] \in LevelRecord
    BY <1>1, SideFacts
  <2> QED BY <2>1 DEF LevelRecord
<1>12. vector = [i \in 1 .. n |-> vector[i]]
  BY <1>1, <1>2
<1> QED BY <1>10, <1>11, <1>12

\* The two layouts of a side are one book: whatever levels are made, written and erased, both
\* are walked best first over the same levels and find the same level at every price.
THEOREM LayoutsAgreeAlways == SideSpec => []LayoutsAgree
<1>1. SideInv => LayoutsAgree
  <2> SUFFICES ASSUME SideInv PROVE LayoutsAgree
    OBVIOUS
  <2>1. ASSUME NEW p \in SidePrices PROVE VectorFind(p) = TreeFind(p)
    <3> DEFINE i == Locate(p)
    <3>1. i = Locate(p)
      OBVIOUS
    <3>2. VectorFind(p) = IF Holds(i, p) THEN <<vector[i].quantity>> ELSE <<>>
      BY DEF VectorFind
    <3> HIDE DEF i
    <3>3. CASE Holds(i, p)
      <4>1. i \in 1 .. Len(vector) /\ vector[i].price = p
        <5>1. Len(vector) \in Nat /\ i \in 1 .. Len(vector) + 1
          BY <3>1, LocateFacts
        <5> QED BY <3>3, <5>1 DEF Holds
      <4>2. p \in DOMAIN tree /\ tree[p] = vector[i].quantity
        <5>1. DOMAIN tree = {vector[j].price : j \in 1 .. Len(vector)}
          BY SideFacts
        <5>2. \A j \in 1 .. Len(vector) : tree[vector[j].price] = vector[j].quantity
          BY SideFacts
        <5> QED BY <4>1, <5>1, <5>2
      <4> QED BY <3>2, <3>3, <4>2 DEF TreeFind
    <3>4. CASE ~ Holds(i, p)
      <4>1. p \notin DOMAIN tree
        BY <3>1, <3>4, AbsentFromBoth
      <4> QED BY <3>2, <3>4, <4>1 DEF TreeFind
    <3> QED BY <3>3, <3>4
  <2> QED BY <2>1, WalkIsTheList DEF LayoutsAgree
<1> QED BY <1>1, SideInvHolds, PTL
=============================================================================
