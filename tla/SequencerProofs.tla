-------------------------- MODULE SequencerProofs --------------------------
(***************************************************************************)
(* The arbitrator's safety, for every capacity, every timing and whatever  *)
(* the lines do.  The invariant that makes it inductive adds two things to *)
(* the properties: everything handed downstream lies between the start of  *)
(* the session and the front, and a feed that has not started is empty.    *)
(***************************************************************************)
EXTENDS Sequencer, RingLemmas, FunctionTheorems, SequenceTheorems, TLAPS

-----------------------------------------------------------------------------
(***************************************************************************)
(* The window: where a drain stops, what a run of missing sequences is,    *)
(* what Release hands the sink and what Vacate leaves in the ring.         *)
(***************************************************************************)
Deliverable == [seq : Nat, body : Nat]

\* q is in order, intact, and within lo .. hi - 1.
Feed(q, lo, hi) ==
  /\ q \in Seq(Deliverable)
  /\ \A i \in DOMAIN q : q[i].seq \in lo .. hi - 1 /\ q[i].body = q[i].seq
  /\ \A i, j \in DOMAIN q : i < j => q[i].seq < q[j].seq

\* The messages lo .. hi - 1, none missing.
Whole(lo, hi) == [i \in 1 .. hi - lo |-> Message(lo + i - 1, lo + i - 1)]

\* The ring r, with bytes b, holds only what lies within one window ahead of e.
WindowAt(r, b, e) ==
  \A i \in Index : r[i].present =>
    /\ r[i].seq % Cap = i
    /\ r[i].seq > e /\ r[i].seq < e + Cap
    /\ b[i] = r[i].seq

InUse(r) == {i \in Index : r[i].present}

\* What the lemmas below assume of the window.
Window ==
  /\ expected \in Nat
  /\ slots \in [Index -> Slot]
  /\ bytes \in [Index -> Nat]
  /\ WindowAt(slots, bytes, expected)
  /\ pending = Cardinality(InUse(slots))

-----------------------------------------------------------------------------
\* A slot that answers for n holds it, within one window ahead of the front.
LEMMA PresentFacts ==
  ASSUME Window, NEW n \in Nat, Present(n)
  PROVE  /\ n % Cap \in Index
         /\ n > expected /\ n < expected + Cap
         /\ slots[(n % Cap)].present /\ slots[(n % Cap)].seq = n
         /\ bytes[(n % Cap)] = n
         /\ n \in Held
<1>1. n % Cap \in Index
  BY SequencerAssumption, Division DEF Index
<1> QED BY <1>1 DEF Window, WindowAt, Present, Held

\* What a slot in use holds is present.
LEMMA HeldFacts ==
  ASSUME Window, NEW i \in Index, slots[i].present
  PROVE  slots[i].seq \in Nat /\ Present(slots[i].seq)
BY DEF Window, WindowAt, Present, Slot

\* Nothing at or below the front is held.
LEMMA FrontIsAbsent ==
  ASSUME Window, NEW n \in Nat, n <= expected \/ n >= expected + Cap
  PROVE  ~ Present(n)
<1>1. expected \in Nat /\ Cap \in Nat
  BY SequencerAssumption DEF Window
<1> SUFFICES ASSUME Present(n) PROVE FALSE
  OBVIOUS
<1>2. n > expected /\ n < expected + Cap
  BY PresentFacts
<1> QED BY <1>1, <1>2

\* A drain from e passes everything held in a row and stops at the first
\* sequence that is not.
LEMMA DrainEndFacts ==
  ASSUME Window, NEW e \in Nat, e >= expected
  PROVE  /\ DrainEnd(e) \in Nat
         /\ e <= DrainEnd(e)
         /\ ~ Present(DrainEnd(e))
         /\ \A n \in e .. DrainEnd(e) - 1 : Present(n)
         /\ \A m \in Nat : e <= m /\ ~ Present(m) => DrainEnd(e) <= m
<1> DEFINE S == {n \in e .. e + Cap : ~ Present(n)}
           d == Min(S)
<1>0. Cap \in Nat /\ expected \in Nat
  BY SequencerAssumption DEF Window
<1>1. S \in SUBSET Nat /\ e + Cap \in S
  <2>1. ~ Present(e + Cap)
    <3>1. e + Cap \in Nat /\ e + Cap >= expected + Cap
      BY <1>0
    <3> QED BY <3>1, FrontIsAbsent
  <2> QED BY <2>1, <1>0
<1>2. d \in S /\ \A m \in S : d <= m
  <2> HIDE DEF S
  <2> QED BY <1>1, MinOfNaturals
<1>3. d \in Nat /\ e <= d /\ d <= e + Cap /\ ~ Present(d)
  BY <1>2, <1>0
<1>4. ASSUME NEW m \in Nat, e <= m, ~ Present(m) PROVE d <= m
  <2>1. CASE m <= e + Cap
    <3>1. m \in S
      BY <1>4, <2>1, <1>0
    <3> QED BY <3>1, <1>2
  <2>2. CASE m > e + Cap
    <3> HIDE DEF d
    <3> QED BY <2>2, <1>3, <1>0
  <2> QED BY <2>1, <2>2, <1>0
<1>5. d = DrainEnd(e)
  BY DEF DrainEnd
<1> HIDE DEF d, S
<1>6. ASSUME NEW n \in e .. d - 1 PROVE Present(n)
  <2>1. n \in Nat /\ e <= n /\ ~ d <= n
    BY <1>3
  <2> QED BY <2>1, <1>4
<1> QED BY <1>3, <1>4, <1>5, <1>6

\* The run missing at the front is not empty and ends at the next held message.
LEMMA MissingRunFacts ==
  ASSUME Window
  PROVE  /\ MissingRun \in 1 .. Cap
         /\ \A n \in expected .. expected + MissingRun - 1 : ~ Present(n)
         /\ pending # 0 => Present(expected + MissingRun)
<1> DEFINE S == {n \in 0 .. Cap - 1 : Present(expected + n)} \cup {Cap}
           d == Min(S)
<1>0. Cap \in Nat \ {0} /\ expected \in Nat
  BY SequencerAssumption DEF Window
<1>1. S \in SUBSET Nat /\ S # {} /\ \A n \in S : n <= Cap
  BY <1>0
<1>2. d \in S /\ \A m \in S : d <= m
  <2> HIDE DEF S
  <2> QED BY <1>1, MinOfNaturals
<1>3. d \in Nat /\ d <= Cap
  BY <1>1, <1>2
<1>4. d # 0
  <2>1. ~ Present(expected)
    BY <1>0, FrontIsAbsent
  <2>2. expected + 0 = expected
    BY <1>0
  <2>3. 0 \notin S
    BY <1>0, <2>1, <2>2
  <2> QED BY <2>3, <1>2
<1>5. d = MissingRun
  BY DEF MissingRun
<1>6. ASSUME NEW n \in expected .. expected + d - 1 PROVE ~ Present(n)
  <2> DEFINE k == n - expected
  <2>1. k \in 0 .. Cap - 1 /\ ~ d <= k /\ n = expected + k
    <3> HIDE DEF d
    <3> QED BY <1>0, <1>3
  <2>2. k \notin S
    BY <2>1, <1>2
  <2> QED BY <2>1, <2>2
<1>7. ASSUME pending # 0 PROVE Present(expected + d)
  <2>1. PICK i \in Index : slots[i].present
    <3>1. InUse(slots) # {}
      BY <1>7, FS_EmptySet DEF Window
    <3> QED BY <3>1 DEF InUse
  <2> DEFINE k == slots[i].seq - expected
  <2>2. slots[i].seq \in Nat /\ Present(slots[i].seq)
    BY <2>1, HeldFacts
  <2>3. slots[i].seq > expected /\ slots[i].seq < expected + Cap
    BY <2>2, PresentFacts
  <2>4. k \in 0 .. Cap - 1 /\ expected + k = slots[i].seq
    BY <2>2, <2>3, <1>0
  <2>5. k \in S
    BY <2>4, <2>2
  <2>6. d # Cap
    <3>1. d <= k
      BY <2>5, <1>2
    <3> HIDE DEF d, k
    <3> QED BY <3>1, <2>4, <1>3, <1>0
  <2> QED BY <2>6, <1>2
<1> HIDE DEF d, S
<1> QED BY <1>0, <1>3, <1>4, <1>5, <1>6, <1>7

-----------------------------------------------------------------------------
\* What the ring holds of a range is a finite set within the range.
LEMMA BetweenFacts ==
  ASSUME Window, NEW lo \in Nat, NEW hi \in Nat
  PROVE  /\ Between(lo, hi) \in SUBSET Nat
         /\ Between(lo, hi) \in SUBSET (lo .. hi - 1)
         /\ IsFiniteSet(Between(lo, hi))
         /\ Cardinality(Between(lo, hi)) \in Nat
         /\ \A n \in Between(lo, hi) : n <= hi /\ Present(n)
<1>1. Between(lo, hi) \in SUBSET (lo .. hi - 1) /\ Between(lo, hi) \in SUBSET Nat
      /\ \A n \in Between(lo, hi) : n <= hi /\ Present(n)
  BY DEF Between
<1>2. IsFiniteSet(Between(lo, hi))
  BY <1>1, FS_BoundedSetOfNaturals
<1> QED BY <1>1, <1>2, FS_CardinalityType

\* Release hands over what is held of a range, in order and intact.
LEMMA ReleaseFacts ==
  ASSUME Window, NEW lo \in Nat, NEW hi \in Nat
  PROVE  /\ Feed(Release(lo, hi), lo, hi)
         /\ Len(Release(lo, hi)) = Cardinality(Between(lo, hi))
<1> DEFINE S == Between(lo, hi)
           c == Cardinality(S)
           run == InOrderOf(S)
           q == Release(lo, hi)
<1>1. /\ S \in SUBSET Nat /\ S \in SUBSET (lo .. hi - 1) /\ IsFiniteSet(S)
      /\ c \in Nat /\ \A n \in S : n <= hi /\ Present(n)
  BY BetweenFacts
<1>2. q = [i \in 1 .. c |-> Message(run[i], bytes[(run[i] % Cap)])]
  BY DEF Release
<1>3. /\ \A i \in 1 .. c : run[i] \in S
      /\ \A i, j \in 1 .. c : i < j => run[i] < run[j]
  <2> HIDE DEF S
  <2> QED BY <1>1, InOrderOfFacts
<1> HIDE DEF q, run, c
<1>4. ASSUME NEW i \in 1 .. c
      PROVE  q[i] = Message(run[i], run[i]) /\ run[i] \in Nat /\ run[i] \in lo .. hi - 1
  <2>1. run[i] \in Nat /\ Present(run[i]) /\ run[i] \in lo .. hi - 1
    BY <1>1, <1>3
  <2>2. bytes[(run[i] % Cap)] = run[i]
    BY <2>1, PresentFacts
  <2> QED BY <1>2, <2>1, <2>2
<1>5. q \in Seq(Deliverable) /\ Len(q) = c /\ DOMAIN q = 1 .. c
  <2>1. ASSUME NEW i \in 1 .. c PROVE q[i] \in Deliverable
    <3>1. q[i] = Message(run[i], run[i]) /\ run[i] \in Nat
      BY <1>4
    <3> QED BY <3>1 DEF Message, Deliverable
  <2>2. q \in [1 .. c -> Deliverable]
    BY <1>2, <2>1
  <2> QED BY <2>2, <1>1
<1>6. \A i \in DOMAIN q : q[i].seq \in lo .. hi - 1 /\ q[i].body = q[i].seq
  BY <1>4, <1>5 DEF Message
<1>7. \A i, j \in DOMAIN q : i < j => q[i].seq < q[j].seq
  BY <1>3, <1>4, <1>5 DEF Message
<1> QED BY <1>5, <1>6, <1>7 DEF Feed, q, c

\* When everything in the range is held, Release hands over all of it.
LEMMA ReleaseWhole ==
  ASSUME Window, NEW lo \in Nat, NEW hi \in Nat, lo <= hi,
         \A n \in lo .. hi - 1 : Present(n)
  PROVE  Release(lo, hi) = Whole(lo, hi)
<1>1. Between(lo, hi) = lo .. hi - 1
  BY DEF Between
<1>2. /\ Cardinality(lo .. hi - 1) = hi - lo
      /\ \A i \in 1 .. hi - lo : InOrderOf(lo .. hi - 1)[i] = lo + i - 1
  BY InOrderOfInterval
<1>3. ASSUME NEW i \in 1 .. hi - lo
      PROVE  Message(InOrderOf(lo .. hi - 1)[i], bytes[(InOrderOf(lo .. hi - 1)[i] % Cap)])
             = Message(lo + i - 1, lo + i - 1)
  <2> DEFINE n == lo + i - 1
  <2>1. n \in lo .. hi - 1 /\ n \in Nat
    OBVIOUS
  <2>2. InOrderOf(lo .. hi - 1)[i] = n
    BY <1>2
  <2> HIDE DEF n
  <2>3. bytes[(n % Cap)] = n
    BY <2>1, PresentFacts
  <2> QED BY <2>2, <2>3 DEF n
<1> QED BY <1>1, <1>2, <1>3 DEF Release, Whole

\* Two feeds one after the other are a feed.
LEMMA FeedJoins ==
  ASSUME NEW lo \in Nat, NEW mid \in Nat, NEW hi \in Nat, lo <= mid, mid <= hi,
         NEW p, NEW q, Feed(p, lo, mid), Feed(q, mid, hi)
  PROVE  Feed(p \o q, lo, hi)
<1> DEFINE r == p \o q
           m == Len(p)
           n == Len(q)
<1>1. p \in Seq(Deliverable) /\ q \in Seq(Deliverable)
  BY DEF Feed
<1>2. /\ r \in Seq(Deliverable) /\ Len(r) = m + n
      /\ \A i \in 1 .. m + n : r[i] = IF i <= m THEN p[i] ELSE q[i - m]
  BY <1>1, ConcatProperties
<1>3. /\ m \in Nat /\ n \in Nat /\ DOMAIN p = 1 .. m /\ DOMAIN q = 1 .. n
      /\ DOMAIN r = 1 .. m + n
  BY <1>1, <1>2, LenProperties
<1> HIDE DEF r, m, n
<1>4. ASSUME NEW i \in DOMAIN r
      PROVE  r[i].seq \in lo .. hi - 1 /\ r[i].body = r[i].seq
  <2>1. CASE i <= m
    <3>1. i \in DOMAIN p /\ r[i] = p[i]
      BY <1>2, <1>3, <2>1
    <3>2. p[i].seq \in lo .. mid - 1 /\ p[i].body = p[i].seq
      BY <3>1 DEF Feed
    <3> QED BY <3>1, <3>2
  <2>2. CASE i > m
    <3>1. i - m \in DOMAIN q /\ r[i] = q[i - m]
      BY <1>2, <1>3, <2>2
    <3>2. q[i - m].seq \in mid .. hi - 1 /\ q[i - m].body = q[i - m].seq
      BY <3>1 DEF Feed
    <3> QED BY <3>1, <3>2
  <2> QED BY <2>1, <2>2, <1>3
<1>5. ASSUME NEW i \in DOMAIN r, NEW j \in DOMAIN r, i < j
      PROVE  r[i].seq < r[j].seq
  <2>1. CASE j <= m
    <3>1. i \in DOMAIN p /\ j \in DOMAIN p /\ r[i] = p[i] /\ r[j] = p[j]
      BY <1>2, <1>3, <1>5, <2>1
    <3> QED BY <3>1, <1>5 DEF Feed
  <2>2. CASE i > m
    <3>1. /\ i - m \in DOMAIN q /\ j - m \in DOMAIN q /\ i - m < j - m
          /\ r[i] = q[i - m] /\ r[j] = q[j - m]
      BY <1>2, <1>3, <1>5, <2>2, SMTT(30)
    <3> QED BY <3>1 DEF Feed
  <2>3. CASE i <= m /\ j > m
    <3>1. i \in DOMAIN p /\ j - m \in DOMAIN q /\ r[i] = p[i] /\ r[j] = q[j - m]
      BY <1>2, <1>3, <2>3
    <3>2. p[i].seq \in lo .. mid - 1 /\ q[j - m].seq \in mid .. hi - 1
      BY <3>1 DEF Feed
    <3> QED BY <3>1, <3>2
  <2> QED BY <2>1, <2>2, <2>3, <1>3
<1> QED BY <1>2, <1>4, <1>5 DEF Feed, r

\* A range with nothing missing is a feed.
LEMMA WholeIsFeed ==
  ASSUME NEW lo \in Nat, NEW hi \in Nat, lo <= hi
  PROVE  Feed(Whole(lo, hi), lo, hi) /\ Len(Whole(lo, hi)) = hi - lo
<1> DEFINE q == Whole(lo, hi)
<1>1. hi - lo \in Nat
  OBVIOUS
<1>2. q \in [1 .. hi - lo -> Deliverable]
  BY DEF Whole, Message, Deliverable
<1>3. q \in Seq(Deliverable) /\ Len(q) = hi - lo /\ DOMAIN q = 1 .. hi - lo
  BY <1>1, <1>2
<1>4. \A i \in 1 .. hi - lo : q[i].seq = lo + i - 1 /\ q[i].body = lo + i - 1
  BY DEF Whole, Message
<1> HIDE DEF q
<1>5. Feed(q, lo, hi)
  BY <1>3, <1>4 DEF Feed
<1> QED BY <1>3, <1>5 DEF q

\* Nothing is missing from two such ranges end to end.
LEMMA WholeJoins ==
  ASSUME NEW lo \in Nat, NEW mid \in Nat, NEW hi \in Nat, lo <= mid, mid <= hi
  PROVE  Whole(lo, mid) \o Whole(mid, hi) = Whole(lo, hi)
<1> DEFINE p == Whole(lo, mid)
           q == Whole(mid, hi)
           r == Whole(lo, hi)
<1>1. p \in Seq(Deliverable) /\ q \in Seq(Deliverable) /\ r \in Seq(Deliverable)
      /\ Len(p) = mid - lo /\ Len(q) = hi - mid /\ Len(r) = hi - lo
  <2>1. lo <= hi
    OBVIOUS
  <2> QED BY <2>1, WholeIsFeed DEF Feed
<1>2. /\ p \o q \in Seq(Deliverable) /\ Len(p \o q) = hi - lo
      /\ \A i \in 1 .. hi - lo :
            (p \o q)[i] = IF i <= mid - lo THEN p[i] ELSE q[i - (mid - lo)]
  <2>1. /\ p \o q \in Seq(Deliverable) /\ Len(p \o q) = Len(p) + Len(q)
        /\ \A i \in 1 .. Len(p) + Len(q) :
            (p \o q)[i] = IF i <= Len(p) THEN p[i] ELSE q[i - Len(p)]
    <3> HIDE DEF p, q
    <3> QED BY <1>1, ConcatProperties
  <2>2. Len(p) + Len(q) = hi - lo
    BY <1>1
  <2> QED BY <1>1, <2>1, <2>2
<1> HIDE DEF p, q, r
<1>3. ASSUME NEW i \in 1 .. hi - lo PROVE (p \o q)[i] = r[i]
  <2>1. CASE i <= mid - lo
    <3>1. i \in 1 .. mid - lo
      BY <2>1
    <3>2. p[i] = Message(lo + i - 1, lo + i - 1)
      BY <3>1 DEF Whole, p, q
    <3> QED BY <3>2, <1>2, <2>1 DEF Whole, r
  <2>2. CASE i > mid - lo
    <3> DEFINE k == i - (mid - lo)
    <3>1. k \in 1 .. hi - mid /\ mid + k - 1 = lo + i - 1
      BY <2>2
    <3>2. q[k] = Message(mid + k - 1, mid + k - 1)
      BY <3>1 DEF Whole, p, q
    <3> QED BY <3>1, <3>2, <1>2, <2>2 DEF Whole, r
  <2>3. i <= mid - lo \/ i > mid - lo
    OBVIOUS
  <2> QED BY <2>1, <2>2, <2>3
<1>4. p \o q = r
  BY <1>1, <1>2, <1>3, SeqEqual
<1> QED BY <1>4 DEF p, q, r

-----------------------------------------------------------------------------
\* The slots in use are finitely many, as many as pending says.
LEMMA InUseFacts ==
  ASSUME NEW r
  PROVE  /\ IsFiniteSet(InUse(r))
         /\ Cardinality(InUse(r)) \in Nat
         /\ (Cardinality(InUse(r)) = 0) <=> (\A i \in Index : ~ r[i].present)
<1>1. IsFiniteSet(Index)
  BY SequencerAssumption, FS_Interval DEF Index
<1>2. InUse(r) \in SUBSET Index
  BY DEF InUse
<1>3. IsFiniteSet(InUse(r))
  BY <1>1, <1>2, FS_Subset
<1> QED BY <1>3, FS_CardinalityType, FS_EmptySet DEF InUse

\* What a front that moves to hi leaves in the ring lies within one window of
\* hi, and is what lay there beyond hi before.
LEMMA VacateFacts ==
  ASSUME Window, NEW lo \in Nat, NEW hi \in Nat,
         lo <= expected + 1 \/ pending = 0, expected <= hi, ~ Present(hi)
  PROVE  /\ Vacate(lo, hi) \in [Index -> Slot]
         /\ WindowAt(Vacate(lo, hi), bytes, hi)
         /\ \A i \in Index :
              /\ Vacate(lo, hi)[i].seq = slots[i].seq
              /\ Vacate(lo, hi)[i].present <=> slots[i].present /\ slots[i].seq > hi
<1>0. Cap \in Nat \ {0} /\ expected \in Nat
  BY SequencerAssumption DEF Window
<1> DEFINE v == Vacate(lo, hi)
<1>1. ASSUME NEW i \in Index
      PROVE  /\ v[i] \in Slot
             /\ v[i].seq = slots[i].seq
             /\ v[i].present = (slots[i].present /\ slots[i].seq \notin lo .. hi - 1)
  <2>1. slots[i] \in Slot
    BY DEF Window
  <2>2. v[i] = [slots[i] EXCEPT !.present = @ /\ slots[i].seq \notin lo .. hi - 1]
    BY DEF Vacate
  <2> HIDE DEF v
  <2> QED BY <2>1, <2>2 DEF Slot
<1>2. v \in [Index -> Slot]
  BY <1>1 DEF Vacate
<1> HIDE DEF v
<1>3. ASSUME NEW i \in Index
      PROVE  v[i].present <=> slots[i].present /\ slots[i].seq > hi
  <2>1. CASE slots[i].present
    <3>0. lo <= expected + 1
      BY <2>1, InUseFacts DEF Window
    <3>1. slots[i].seq \in Nat /\ Present(slots[i].seq)
      BY <2>1, HeldFacts
    <3>2. slots[i].seq > expected
      BY <3>1, PresentFacts
    <3>3. slots[i].seq # hi
      BY <3>1
    <3>4. (slots[i].seq \notin lo .. hi - 1) <=> slots[i].seq > hi
      BY <1>0, <3>0, <3>1, <3>2, <3>3
    <3> QED BY <3>4, <2>1, <1>1
  <2>2. CASE ~ slots[i].present
    BY <2>2, <1>1
  <2> QED BY <2>1, <2>2
<1>4. ASSUME NEW i \in Index, v[i].present
      PROVE  /\ v[i].seq % Cap = i
             /\ v[i].seq > hi /\ v[i].seq < hi + Cap
             /\ bytes[i] = v[i].seq
  <2>1. slots[i].present /\ slots[i].seq > hi /\ v[i].seq = slots[i].seq
    BY <1>1, <1>3, <1>4
  <2>2. slots[i].seq \in Nat /\ slots[i].seq % Cap = i /\ bytes[i] = slots[i].seq
        /\ slots[i].seq < expected + Cap
    BY <2>1 DEF Window, WindowAt, Slot
  <2> QED BY <2>1, <2>2, <1>0
<1> QED BY <1>1, <1>2, <1>3, <1>4 DEF WindowAt, v

\* It leaves as many fewer slots in use as sequences were held on the way.
LEMMA VacateCount ==
  ASSUME Window, NEW lo \in Nat, NEW hi \in Nat
  PROVE  Cardinality(InUse(Vacate(lo, hi)))
           = pending - Cardinality(Between(lo, hi))
<1> DEFINE P == InUse(slots)
           V == InUse(Vacate(lo, hi))
           Q == {i \in P : slots[i].seq \in lo .. hi - 1}
           B == Between(lo, hi)
           f == [i \in Q |-> slots[i].seq]
<1>1. IsFiniteSet(P) /\ IsFiniteSet(V) /\ Cardinality(V) \in Nat /\ Cardinality(P) \in Nat
  BY InUseFacts
<1>2. IsFiniteSet(Q) /\ Cardinality(Q) \in Nat
  <2>1. Q \in SUBSET P
    OBVIOUS
  <2> HIDE DEF P, Q
  <2> QED BY <1>1, <2>1, FS_Subset, FS_CardinalityType
<1>3. P = V \cup Q /\ V \cap Q = {}
  <2>1. ASSUME NEW i \in Index
        PROVE  Vacate(lo, hi)[i].present
                 = (slots[i].present /\ slots[i].seq \notin lo .. hi - 1)
    <3>1. slots[i] \in Slot
      BY DEF Window
    <3>2. Vacate(lo, hi)[i]
            = [slots[i] EXCEPT !.present = @ /\ slots[i].seq \notin lo .. hi - 1]
      BY DEF Vacate
    <3> QED BY <3>1, <3>2 DEF Slot
  <2> QED BY <2>1 DEF InUse
<1>4. Cardinality(P) = Cardinality(V) + Cardinality(Q)
  <2> HIDE DEF P, V, Q
  <2>1. Cardinality(V \cup Q) = Cardinality(V) + Cardinality(Q) - Cardinality(V \cap Q)
    BY <1>1, <1>2, FS_Union
  <2>2. Cardinality(V \cap Q) = 0
    BY <1>3, FS_EmptySet
  <2> QED BY <1>1, <1>2, <1>3, <2>1, <2>2
<1>5. f \in Bijection(Q, B)
  <2>1. ASSUME NEW i \in Q PROVE f[i] \in B /\ f[i] % Cap = i
    <3>1. i \in Index /\ slots[i].present /\ slots[i].seq \in lo .. hi - 1
          /\ f[i] = slots[i].seq
      BY DEF InUse
    <3>2. Present(slots[i].seq) /\ slots[i].seq % Cap = i
      BY <3>1, HeldFacts DEF Window, WindowAt
    <3> QED BY <3>1, <3>2 DEF Between
  <2>2. f \in [Q -> B]
    BY <2>1
  <2>3. \A a, b \in Q : f[a] = f[b] => a = b
    BY <2>1
  <2>4. ASSUME NEW n \in B PROVE \E i \in Q : f[i] = n
    <3>1. n \in lo .. hi - 1 /\ n \in Nat /\ Present(n)
      BY DEF Between
    <3>2. n % Cap \in Index /\ slots[(n % Cap)].present /\ slots[(n % Cap)].seq = n
      BY <3>1, PresentFacts
    <3>3. (n % Cap) \in Q /\ f[(n % Cap)] = n
      BY <3>1, <3>2 DEF InUse
    <3> QED BY <3>3
  <2> HIDE DEF f, Q, B
  <2> QED BY <2>2, <2>3, <2>4, Fun_IsBij
<1>6. Cardinality(B) = Cardinality(Q)
  <2>1. ExistsBijection(Q, B)
    <3> HIDE DEF f, Q, B
    <3> QED BY <1>5, Fun_ExistsBij
  <2> HIDE DEF Q, B
  <2> QED BY <2>1, <1>2, FS_Bijection
<1>7. pending = Cardinality(P)
  BY DEF Window
<1> HIDE DEF P, V, Q, B
<1> QED BY <1>1, <1>2, <1>4, <1>6, <1>7 DEF V, B

\* A sequence that is new and within the window finds its slot empty.
LEMMA SlotIsFree ==
  ASSUME NEW e \in Nat, NEW s \in Nat, e < s, s < e + Cap,
         NEW r \in [Index -> Slot], NEW b, WindowAt(r, b, e),
         \A i \in Index : r[i].present => r[i].seq # s
  PROVE  s % Cap \in Index /\ ~ r[(s % Cap)].present
<1>0. Cap \in Nat \ {0}
  BY SequencerAssumption
<1> DEFINE k == s % Cap
<1>1. k \in Index
  BY <1>0, Division DEF Index
<1>2. ~ r[k].present
  <2> SUFFICES ASSUME r[k].present PROVE FALSE
    OBVIOUS
  <2> DEFINE t == r[k].seq
  <2>1. t \in Nat /\ t % Cap = k /\ t > e /\ t < e + Cap /\ t # s
    BY <1>1 DEF WindowAt, Slot
  <2> HIDE DEF t
  <2>2. CASE t < s
    <3>1. s < t + Cap
      BY <2>1, <1>0
    <3>2. t % Cap # s % Cap
      BY <2>1, <2>2, <3>1, <1>0, SlotsDiffer
    <3> QED BY <3>2, <2>1
  <2>3. CASE s < t
    <3>1. t < s + Cap
      BY <2>1, <1>0
    <3>2. s % Cap # t % Cap
      BY <2>1, <2>3, <3>1, <1>0, SlotsDiffer
    <3> QED BY <3>2, <2>1
  <2> QED BY <2>1, <2>2, <2>3
<1> QED BY <1>1, <1>2

-----------------------------------------------------------------------------
\* Where nothing is held at the start of a range, the range may start later.
LEMMA BetweenSkips ==
  ASSUME NEW lo \in Nat, NEW mid \in Nat, NEW hi \in Nat, lo <= mid, mid <= hi,
         \A n \in lo .. mid - 1 : ~ Present(n)
  PROVE  Between(lo, hi) = Between(mid, hi)
<1>1. ASSUME NEW n \in Between(lo, hi) PROVE n \in Between(mid, hi)
  <2>1. n \in lo .. hi - 1 /\ n \notin lo .. mid - 1 /\ Present(n)
    BY DEF Between
  <2> QED BY <2>1 DEF Between
<1>2. ASSUME NEW n \in Between(mid, hi) PROVE n \in Between(lo, hi)
  BY DEF Between
<1> QED BY <1>1, <1>2

\* A range with one sequence missing in it holds what its two halves hold.
LEMMA BetweenSplits ==
  ASSUME Window, NEW lo \in Nat, NEW s \in Nat, NEW hi \in Nat, lo <= s, s < hi,
         ~ Present(s)
  PROVE  Cardinality(Between(lo, hi))
           = Cardinality(Between(lo, s)) + Cardinality(Between(s + 1, hi))
<1> DEFINE A == Between(lo, s)
           B == Between(s + 1, hi)
           C == Between(lo, hi)
<1>1. C = A \cup B
  <2>1. ASSUME NEW n \in C PROVE n \in A \cup B
    <3>1. n \in lo .. hi - 1 /\ n # s /\ Present(n)
      BY DEF Between
    <3> QED BY <3>1 DEF Between
  <2>2. ASSUME NEW n \in A \cup B PROVE n \in C
    BY DEF Between
  <2> QED BY <2>1, <2>2
<1>2. A \cap B = {}
  BY DEF Between
<1>3. IsFiniteSet(A) /\ IsFiniteSet(B) /\ Cardinality(A) \in Nat /\ Cardinality(B) \in Nat
  <2>1. s + 1 \in Nat
    OBVIOUS
  <2> QED BY <2>1, BetweenFacts
<1> HIDE DEF A, B, C
<1>4. Cardinality(C) = Cardinality(A) + Cardinality(B) - Cardinality(A \cap B)
  BY <1>1, <1>3, FS_Union
<1>5. Cardinality(A \cap B) = 0
  BY <1>2, FS_EmptySet
<1> QED BY <1>3, <1>4, <1>5 DEF A, B, C

\* A front that moves to hi and vacates what it passed leaves a window at hi.
LEMMA WindowMoves ==
  ASSUME Window, NEW lo \in Nat, NEW hi \in Nat,
         lo <= expected + 1 \/ pending = 0, expected <= hi, ~ Present(hi),
         expected' = hi, slots' = Vacate(lo, hi), bytes' = bytes,
         pending' = pending - Cardinality(Between(lo, hi))
  PROVE  Window' /\ pending' \in Nat
<1>1. /\ Vacate(lo, hi) \in [Index -> Slot]
      /\ WindowAt(Vacate(lo, hi), bytes, hi)
  BY VacateFacts
<1>2. Cardinality(InUse(Vacate(lo, hi))) = pending'
  BY VacateCount
<1>3. pending' \in Nat
  BY <1>2, InUseFacts
<1>4. bytes \in [Index -> Nat]
  BY DEF Window
<1>5. pending' = Cardinality(InUse(slots'))
  BY <1>2
<1>6. /\ expected' \in Nat /\ slots' \in [Index -> Slot] /\ bytes' \in [Index -> Nat]
      /\ WindowAt(slots', bytes', expected')
  BY <1>1, <1>4
<1>7. WindowAt(slots, bytes, expected)' /\ InUse(slots)' = InUse(slots')
  BY <1>6 DEF WindowAt, InUse
<1> QED BY <1>3, <1>5, <1>6, <1>7 DEF Window

\* The two ends of a feed: nothing at all, and one message.
LEMMA SmallFeeds ==
  ASSUME NEW s \in Nat
  PROVE  /\ Feed(<< >>, s, s) /\ Whole(s, s) = << >>
         /\ <<Message(s, s)>> = Whole(s, s + 1)
         /\ Feed(<<Message(s, s)>>, s, s + 1)
<1>1. Feed(<< >>, s, s)
  BY DEF Feed
<1>2. Whole(s, s) \in Seq(Deliverable) /\ Len(Whole(s, s)) = 0
  BY WholeIsFeed DEF Feed
<1>3. Whole(s, s) = << >>
  BY <1>2, EmptySeq
<1>4. Feed(Whole(s, s + 1), s, s + 1) /\ Len(Whole(s, s + 1)) = 1
  <2> DEFINE h == s + 1
  <2>1. h \in Nat /\ s <= h /\ h - s = 1
    OBVIOUS
  <2> HIDE DEF h
  <2>2. Feed(Whole(s, h), s, h) /\ Len(Whole(s, h)) = h - s
    BY <2>1, WholeIsFeed
  <2> QED BY <2>1, <2>2 DEF h
<1>5. <<Message(s, s)>> = Whole(s, s + 1)
  <2> DEFINE p == <<Message(s, s)>>
             q == Whole(s, s + 1)
  <2>1. p \in Seq(Deliverable) /\ Len(p) = 1 /\ p[1] = Message(s, s)
    BY DEF Message, Deliverable
  <2>2. q \in Seq(Deliverable) /\ Len(q) = 1
    BY <1>4 DEF Feed
  <2>3. q[1] = Message(s, s)
    <3>1. 1 \in 1 .. s + 1 - s /\ s + 1 - 1 = s
      OBVIOUS
    <3> QED BY <3>1 DEF Whole
  <2> HIDE DEF p, q
  <2>4. \A i \in 1 .. Len(p) : p[i] = q[i]
    BY <2>1, <2>3
  <2>5. p = q
    BY <2>1, <2>2, <2>4, SeqEqual
  <2> QED BY <2>5 DEF p, q
<1> QED BY <1>1, <1>3, <1>4, <1>5

-----------------------------------------------------------------------------
(***************************************************************************)
(* The invariant, and the steps that keep it.                              *)
(***************************************************************************)
\* What went downstream is in order, intact, and below the front.
Passed == first <= expected /\ Feed(delivered, first, expected)

NotStarted ==
  ~ started => /\ expected = 0 /\ delivered = << >>
               /\ pending = 0 /\ state = "Synced"

IInv ==
  /\ TypeOK
  /\ WindowExact
  /\ Passed
  /\ NotStarted
  /\ CompleteUnlessStale
  /\ StateMatchesWindow
  /\ GapsBalance
  /\ RequestIsExact

-----------------------------------------------------------------------------
\* The window the lemmas speak of is the one of the invariant.
LEMMA WindowIsExact ==
  /\ TypeOK /\ WindowExact => Window
  /\ Window' => WindowExact'
BY DEF TypeOK, WindowExact, Window, WindowAt, InUse

\* A feed that is not Stale has handed over the whole of the session so far.
LEMMA CompleteIsWhole ==
  /\ CompleteUnlessStale => (state # "Stale" => delivered = Whole(first, expected))
  /\ (state' # "Stale" => delivered' = Whole(first', expected')) => CompleteUnlessStale'
BY DEF CompleteUnlessStale, Whole

\* A step that returns no request cannot return a wrong one.
LEMMA NoRequestIsExact == request' = NoRequest => RequestIsExact'
BY DEF RequestIsExact

\* settle() leaves a state that matches the window and counts a gap once.
LEMMA SettleFacts ==
  ASSUME TypeOK, StateMatchesWindow, GapsBalance, NEW source, Settle(source),
         pending' \in Nat, expected' \in Nat,
         pending' <= pending, expected <= expected',
         NEW a \in Nat, stats' = [stats EXCEPT
           !.accepted = @ + 1 + a,
           !.recovered = IF Closed \/ Uncovered THEN @ + 1 ELSE @,
           !.detected = IF Uncovered THEN @ + 1 ELSE @]
  PROVE  /\ state' \in FeedState
         /\ gap_age' \in 0 .. Grace /\ time_left' \in 0 .. Timeout
         /\ attempts' \in 0 .. MaxAttempts /\ recovery_end' \in Nat
         /\ stats' \in [Counter -> Nat]
         /\ StateMatchesWindow' /\ GapsBalance'
         /\ (state' # "Stale") <=> (state # "Stale")
<1> USE SequencerAssumption
<1>0. /\ Grace \in Nat /\ Timeout \in Nat /\ MaxAttempts \in Nat
      /\ state \in FeedState /\ recovery_end \in Nat /\ stats \in [Counter -> Nat]
      /\ gap_age \in 0 .. Grace /\ time_left \in 0 .. Timeout
      /\ attempts \in 0 .. MaxAttempts
  BY DEF TypeOK
<1>1. stats' \in [Counter -> Nat]
  <2>1. stats["accepted"] + 1 + a \in Nat /\ stats["recovered"] + 1 \in Nat
        /\ stats["detected"] + 1 \in Nat
    BY <1>0 DEF Counter
  <2> QED BY <1>0, <2>1 DEF Counter
<1>2. /\ stats'["recovered"] = IF Closed \/ Uncovered THEN stats["recovered"] + 1
                                                      ELSE stats["recovered"]
      /\ stats'["detected"] = IF Uncovered THEN stats["detected"] + 1
                                           ELSE stats["detected"]
      /\ stats["recovered"] \in Nat /\ stats["detected"] \in Nat
  BY <1>0 DEF Counter
<1>3. CASE Closed
  <2>1. state' = "Synced" /\ ClearRecovery /\ gap_age' = gap_age /\ ~ Uncovered
    BY <1>3 DEF Settle, Closed, Uncovered
  <2>2. pending' = 0 /\ state \in {"Gap", "Recovering"}
    BY <1>3 DEF Closed
  <2>3. StateMatchesWindow'
    BY <2>1, <2>2 DEF ClearRecovery, StateMatchesWindow
  <2>4. GapsBalance'
    BY <1>2, <1>3, <2>1, <2>2 DEF GapsBalance
  <2> QED BY <1>0, <1>1, <2>1, <2>2, <2>3, <2>4 DEF FeedState, ClearRecovery
<1>4. CASE Uncovered
  <2>1. state' = "Gap" /\ ClearRecovery /\ gap_age' = 0 /\ ~ Closed
    BY <1>4 DEF Settle, Closed, Uncovered
  <2>2. pending' # 0 /\ state = "Recovering"
    BY <1>4 DEF Uncovered
  <2>3. StateMatchesWindow'
    BY <2>1, <2>2 DEF ClearRecovery, StateMatchesWindow
  <2>4. GapsBalance'
    BY <1>2, <1>4, <2>1, <2>2 DEF GapsBalance
  <2> QED BY <1>0, <1>1, <2>1, <2>2, <2>3, <2>4 DEF FeedState, ClearRecovery
<1>5. CASE ~ Closed /\ ~ Uncovered
  <2>1. /\ UNCHANGED <<state, gap_age, attempts, recovery_end>>
        /\ RestartClock(source)
    BY <1>5 DEF Settle
  <2>2. time_left' \in 0 .. Timeout /\ (state # "Recovering" => time_left' = time_left)
    BY <2>1 DEF RestartClock, TypeOK
  <2>3. state = "Synced" => pending' = 0
    BY SMTT(30) DEF StateMatchesWindow, TypeOK
  <2>4. state \in {"Gap", "Recovering"} => pending' > 0
    BY <1>5 DEF Closed
  <2>5. state = "Recovering" => expected' < recovery_end
    <3>1. state = "Recovering" => pending' # 0 /\ ~ (expected' >= recovery_end)
      BY <1>5, <2>4 DEF Uncovered
    <3> QED BY <3>1, <1>0
  <2>6. StateMatchesWindow'
    BY <2>1, <2>2, <2>3, <2>4, <2>5 DEF StateMatchesWindow
  <2>7. GapsBalance'
    BY <1>2, <1>5, <2>1 DEF GapsBalance
  <2> QED BY <1>1, <2>1, <2>2, <2>6, <2>7 DEF TypeOK
<1> QED BY <1>3, <1>4, <1>5

\* What every step of the proofs below needs of the state it starts from.
LEMMA Facts ==
  ASSUME IInv
  PROVE  /\ Window
         /\ state \in FeedState /\ started \in BOOLEAN
         /\ expected \in Nat /\ first \in Nat /\ first <= expected
         /\ slots \in [Index -> Slot] /\ bytes \in [Index -> Nat]
         /\ pending \in Nat /\ recovery_end \in Nat
         /\ gap_age \in 0 .. Grace /\ time_left \in 0 .. Timeout
         /\ attempts \in 0 .. MaxAttempts
         /\ stats \in [Counter -> Nat]
         /\ stats["accepted"] \in Nat /\ stats["dropped"] \in Nat
         /\ stats["detected"] \in Nat /\ stats["recovered"] \in Nat
         /\ resets \in 0 .. MaxResets
         /\ Feed(delivered, first, expected)
         /\ Cap \in Nat \ {0} /\ Grace \in Nat /\ Timeout \in Nat
         /\ MaxAttempts \in Nat \ {0} /\ MaxRequest \in Nat \ {0}
         /\ \A n \in Numbers : n \in Nat
<1>1. TypeOK /\ WindowExact /\ Passed
  BY DEF IInv
<1>2. Window
  BY <1>1, WindowIsExact
<1>3. stats \in [Counter -> Nat]
  BY <1>1 DEF TypeOK
<1>4. /\ stats["accepted"] \in Nat /\ stats["dropped"] \in Nat
      /\ stats["detected"] \in Nat /\ stats["recovered"] \in Nat
  BY <1>3 DEF Counter
<1> QED BY <1>1, <1>2, <1>3, <1>4, SequencerAssumption DEF TypeOK, Passed

-----------------------------------------------------------------------------
\* The message owed downstream, with all it unblocks.
LEMMA InOrderStep ==
  ASSUME IInv, NEW source, NEW s \in Numbers, InOrder(source, s)
  PROVE  IInv'
<1> DEFINE end == DrainEnd(s + 1)
           out == Release(s + 1, end)
<1>0. /\ s \in Nat /\ s + 1 \in Nat /\ Window /\ expected \in Nat /\ first \in Nat
      /\ pending \in Nat
  BY Facts
<1>1. /\ s = Front(s) /\ started' = TRUE
      /\ first' = (IF started THEN first ELSE s)
      /\ expected' = end /\ slots' = Vacate(s, end)
      /\ pending' = pending - Len(out)
      /\ delivered' = (delivered \o <<Message(s, s)>>) \o out
      /\ Settle(source)
      /\ stats' = [stats EXCEPT
           !.accepted = @ + 1 + Len(out),
           !.recovered = IF Closed \/ Uncovered THEN @ + 1 ELSE @,
           !.detected = IF Uncovered THEN @ + 1 ELSE @]
      /\ request' = NoRequest /\ bytes' = bytes /\ resets' = resets
  BY DEF InOrder
<1>2. /\ started => s = expected
      /\ ~ started => expected = 0 /\ pending = 0 /\ delivered = << >> /\ state = "Synced"
  BY <1>1 DEF Front, IInv, NotStarted
<1>3. s >= expected /\ (s <= expected + 1 \/ pending = 0)
  BY <1>0, <1>2
<1>4. /\ end \in Nat /\ s + 1 <= end /\ ~ Present(end)
      /\ \A n \in s + 1 .. end - 1 : Present(n)
  <2>1. s + 1 >= expected
    BY <1>0, <1>3
  <2> QED BY <1>0, <2>1, DrainEndFacts
<1>5. ~ Present(s)
  <2>1. CASE started
    BY <2>1, <1>0, <1>2, FrontIsAbsent
  <2>2. CASE ~ started
    <3> SUFFICES ASSUME Present(s) PROVE FALSE
      OBVIOUS
    <3>1. s % Cap \in Index /\ slots[(s % Cap)].present
      BY <1>0, PresentFacts
    <3>2. Cardinality(InUse(slots)) = 0
      BY <2>2, <1>0, <1>2 DEF Window
    <3>3. \A i \in Index : ~ slots[i].present
      BY <3>2, InUseFacts
    <3> QED BY <3>1, <3>3
  <2> QED BY <2>1, <2>2
<1> HIDE DEF end
<1>6. /\ Feed(out, s + 1, end)
      /\ Len(out) = Cardinality(Between(s + 1, end)) /\ Len(out) \in Nat
      /\ out = Whole(s + 1, end)
  <2>1. Feed(out, s + 1, end) /\ Len(out) = Cardinality(Between(s + 1, end))
    BY <1>0, <1>4, ReleaseFacts
  <2>2. out = Whole(s + 1, end)
    BY <1>0, <1>4, ReleaseWhole
  <2>3. Cardinality(Between(s + 1, end)) \in Nat
    BY <1>0, <1>4, BetweenFacts
  <2> QED BY <2>1, <2>2, <2>3
<1> HIDE DEF out
<1>7. Window' /\ pending' \in Nat
  <2>1. Between(s, end) = Between(s + 1, end)
    <3>1. \A n \in s .. s + 1 - 1 : ~ Present(n)
      BY <1>0, <1>5
    <3>2. s <= s + 1
      BY <1>0
    <3> QED BY <1>0, <1>4, <3>1, <3>2, BetweenSkips
  <2>2. pending' = pending - Cardinality(Between(s, end))
    BY <1>1, <1>6, <2>1
  <2>3. expected <= end
    BY <1>0, <1>3, <1>4
  <2> QED BY <1>0, <1>1, <1>3, <1>4, <2>2, <2>3, WindowMoves
<1>8. first' \in Nat /\ first' <= s /\ Feed(delivered, first', s)
  <2>1. CASE started
    BY <2>1, <1>1, <1>2, Facts
  <2>2. CASE ~ started
    <3>1. first' = s /\ delivered = << >>
      BY <2>2, <1>1, <1>2
    <3>2. Feed(<< >>, s, s)
      BY <1>0, SmallFeeds
    <3> QED BY <1>0, <3>1, <3>2
  <2> QED BY <2>1, <2>2
<1>9. Passed'
  <2>1. Feed(<<Message(s, s)>>, s, s + 1)
    BY <1>0, SmallFeeds
  <2>2. Feed(delivered \o <<Message(s, s)>>, first', s + 1)
    <3>1. s <= s + 1
      BY <1>0
    <3> QED BY <1>0, <1>8, <2>1, <3>1, FeedJoins
  <2>3. Feed(delivered', first', end) /\ first' <= end
    <3>1. first' <= s + 1 /\ first' <= end
      BY <1>0, <1>4, <1>8
    <3>2. Feed((delivered \o <<Message(s, s)>>) \o out, first', end)
      BY <1>0, <1>4, <1>6, <1>8, <2>2, <3>1, FeedJoins
    <3> QED BY <1>1, <3>1, <3>2
  <2> QED BY <2>3, <1>1 DEF Passed, Feed
<1>10. /\ state' \in FeedState
       /\ gap_age' \in 0 .. Grace /\ time_left' \in 0 .. Timeout
       /\ attempts' \in 0 .. MaxAttempts /\ recovery_end' \in Nat
       /\ stats' \in [Counter -> Nat]
       /\ StateMatchesWindow' /\ GapsBalance'
       /\ (state' # "Stale") <=> (state # "Stale")
  <2>1. TypeOK /\ StateMatchesWindow /\ GapsBalance
    BY DEF IInv
  <2>2. pending' <= pending /\ expected <= expected' /\ expected' \in Nat
    BY <1>0, <1>1, <1>3, <1>4, <1>6, <1>7
  <2> QED BY <1>1, <1>6, <1>7, <2>1, <2>2, SettleFacts
<1>11. CompleteUnlessStale'
  <2> SUFFICES ASSUME state' # "Stale" PROVE delivered' = Whole(first', expected')
    BY CompleteIsWhole
  <2>1. delivered = Whole(first', s)
    <3>1. CASE started
      BY <3>1, <1>1, <1>2, <1>10, CompleteIsWhole DEF IInv
    <3>2. CASE ~ started
      <4>1. first' = s /\ delivered = << >>
        BY <3>2, <1>1, <1>2
      <4>2. Whole(s, s) = << >>
        BY <1>0, SmallFeeds
      <4> QED BY <4>1, <4>2
    <3> QED BY <3>1, <3>2
  <2>2. delivered \o <<Message(s, s)>> = Whole(first', s + 1)
    <3>0. s <= s + 1
      BY <1>0
    <3>1. <<Message(s, s)>> = Whole(s, s + 1)
      BY <1>0, SmallFeeds
    <3>2. Whole(first', s) \o Whole(s, s + 1) = Whole(first', s + 1)
      BY <1>0, <1>8, <3>0, WholeJoins
    <3> QED BY <2>1, <3>1, <3>2
  <2>3. Whole(first', s + 1) \o Whole(s + 1, end) = Whole(first', end)
    <3>1. first' <= s + 1
      BY <1>0, <1>8
    <3> QED BY <1>0, <1>4, <1>8, <3>1, WholeJoins
  <2> QED BY <1>1, <1>6, <2>2, <2>3
<1>12. TypeOK'
  <2>1. resets' \in 0 .. MaxResets
    BY <1>1, Facts
  <2>2. request' \in [seq : Nat, count : 0 .. MaxRequest]
    BY <1>1, SequencerAssumption DEF NoRequest
  <2>3. delivered' \in Seq([seq : Nat, body : Nat])
    BY <1>9 DEF Passed, Feed, Deliverable
  <2> QED BY <1>1, <1>4, <1>7, <1>8, <1>10, <2>1, <2>2, <2>3 DEF TypeOK, Window
<1> QED BY <1>1, <1>7, <1>9, <1>10, <1>11, <1>12, WindowIsExact, NoRequestIsExact
        DEF IInv, NotStarted

-----------------------------------------------------------------------------
\* Going Stale settles the state, whatever else the step does.
LEMMA StaleStep ==
  ASSUME IInv, EnterStale, stats' \in [Counter -> Nat],
         stats'["recovered"] = stats["recovered"],
         stats'["detected"] >= stats["detected"]
  PROVE  /\ state' = "Stale" /\ state' \in FeedState
         /\ time_left' \in 0 .. Timeout /\ attempts' \in 0 .. MaxAttempts
         /\ recovery_end' \in Nat
         /\ StateMatchesWindow' /\ GapsBalance' /\ CompleteUnlessStale'
<1>1. state' = "Stale" /\ time_left' = 0 /\ attempts' = 0 /\ recovery_end' = 0
  BY DEF EnterStale, ClearRecovery
<1>2. stats'["recovered"] <= stats'["detected"]
  <2>1. stats["recovered"] <= stats["detected"]
    <3>1. GapsBalance
      BY DEF IInv
    <3> QED BY <3>1, Facts DEF GapsBalance
  <2>2. stats'["detected"] \in Nat
    BY DEF Counter
  <2> QED BY <2>1, <2>2, Facts
<1>3. GapsBalance'
  <2>1. stats'["recovered"] \in Nat
    BY DEF Counter
  <2> QED BY <1>1, <1>2, <2>1 DEF GapsBalance
<1>4. StateMatchesWindow' /\ CompleteUnlessStale'
  BY <1>1 DEF StateMatchesWindow, CompleteUnlessStale
<1> QED BY <1>1, <1>3, <1>4, Facts DEF FeedState

\* Where the front slides for a message that is ahead of it: no further than
\* the message, and far enough for it to fit in the window.
LEMMA SlideFacts ==
  ASSUME IInv, NEW s \in Nat, Ahead(s), ~ Jumps(s)
  PROVE  /\ Target(s) \in Nat /\ expected <= Target(s) /\ Target(s) <= Slid(s)
         /\ Slid(s) \in Nat /\ expected <= Slid(s) /\ Slid(s) <= s
         /\ s < Slid(s) + Cap
         /\ ~ Present(Slid(s))
         /\ ~ Overflows(s) => Slid(s) = expected
<1>0. Window /\ expected \in Nat /\ Cap \in Nat \ {0}
  BY Facts
<1>1. s > expected /\ ~ Present(s)
  BY DEF Ahead
<1>2. CASE Overflows(s)
  <2> DEFINE m == s - (Cap - 1)
  <2>1. Target(s) = m /\ Slid(s) = DrainEnd(m)
    BY <1>2 DEF Target, Slid
  <2>2. s - expected >= Cap
    BY <1>2 DEF Overflows
  <2>3. m \in Nat /\ m >= expected /\ m <= s /\ s < m + Cap
    BY <1>0, <2>2
  <2> HIDE DEF m
  <2>4. /\ DrainEnd(m) \in Nat /\ m <= DrainEnd(m) /\ ~ Present(DrainEnd(m))
        /\ DrainEnd(m) <= s
    BY <1>0, <1>1, <2>3, DrainEndFacts
  <2> QED BY <1>0, <1>2, <2>1, <2>3, <2>4
<1>3. CASE ~ Overflows(s)
  <2>1. Target(s) = expected /\ Slid(s) = expected
    BY <1>3 DEF Target, Slid
  <2>2. s - expected < Cap
    BY <1>0, <1>3 DEF Overflows
  <2>3. ~ Present(expected)
    BY <1>0, FrontIsAbsent
  <2> QED BY <1>0, <1>1, <2>1, <2>2, <2>3
<1> QED BY <1>2, <1>3

\* What the slide hands over, and what it leaves.
LEMMA SlideReleases ==
  ASSUME IInv, NEW s \in Nat, Ahead(s), ~ Jumps(s)
  PROVE  /\ Feed(Release(expected, Slid(s)), expected, Slid(s))
         /\ Len(Release(expected, Slid(s))) = Cardinality(Between(expected, Slid(s)))
         /\ Cardinality(Between(expected, Slid(s))) \in Nat
         /\ Feed(delivered \o Release(expected, Slid(s)), first, Slid(s))
         /\ first <= Slid(s)
         /\ Cardinality(Missing(expected, Target(s))) \in Nat
         /\ ~ Overflows(s) => /\ Cardinality(Between(expected, Slid(s))) = 0
                              /\ delivered \o Release(expected, Slid(s)) = delivered
<1> DEFINE e == Slid(s)
           out == Release(expected, e)
<1>0. /\ Window /\ expected \in Nat /\ first \in Nat /\ first <= expected
      /\ Feed(delivered, first, expected)
  BY Facts
<1>1. /\ e \in Nat /\ expected <= e /\ Target(s) \in Nat
      /\ ~ Overflows(s) => e = expected
  BY SlideFacts
<1> HIDE DEF e
<1>2. Feed(out, expected, e) /\ Len(out) = Cardinality(Between(expected, e))
      /\ Cardinality(Between(expected, e)) \in Nat
  BY <1>0, <1>1, ReleaseFacts, BetweenFacts
<1> HIDE DEF out
<1>3. Feed(delivered \o out, first, e) /\ first <= e
  BY <1>0, <1>1, <1>2, FeedJoins
<1>4. Cardinality(Missing(expected, Target(s))) \in Nat
  <2> DEFINE M == Missing(expected, Target(s))
  <2>1. M \in SUBSET Nat /\ \A n \in M : n <= Target(s)
    BY <1>0, <1>1 DEF Missing
  <2> HIDE DEF M
  <2>2. IsFiniteSet(M)
    BY <1>1, <2>1, FS_BoundedSetOfNaturals
  <2>3. Cardinality(M) \in Nat
    BY <2>2, FS_CardinalityType
  <2> QED BY <2>3 DEF M
<1>5. ASSUME ~ Overflows(s)
      PROVE  Cardinality(Between(expected, e)) = 0 /\ delivered \o out = delivered
  <2>1. Between(expected, e) = {}
    BY <1>0, <1>1, <1>5 DEF Between
  <2>2. Cardinality(Between(expected, e)) = 0
    BY <2>1, FS_EmptySet
  <2>3. out \in Seq(Deliverable) /\ delivered \in Seq(Deliverable) /\ Len(out) = 0
    BY <1>0, <1>2, <2>2 DEF Feed
  <2>4. out = << >>
    BY <2>3, EmptySeq
  <2> QED BY <2>2, <2>3, <2>4, ConcatEmptySeq
<1> QED BY <1>2, <1>3, <1>4, <1>5 DEF e, out

-----------------------------------------------------------------------------
\* A payload too wide to hold.
LEMMA TooWideStep ==
  ASSUME IInv, NEW s \in Numbers, TooWide(s)
  PROVE  IInv'
<1> DEFINE e == Slid(s)
           out == Release(expected, e)
           lost == Cardinality(Missing(expected, Target(s)))
<1>0. s \in Nat /\ Window /\ expected \in Nat /\ first \in Nat /\ pending \in Nat
  BY Facts
<1>1. /\ Ahead(s) /\ ~ Jumps(s)
      /\ expected' = e /\ slots' = Vacate(expected, e)
      /\ pending' = pending - Len(out) /\ delivered' = delivered \o out
      /\ stats' = [stats EXCEPT !.accepted = @ + Len(out),
                                !.dropped = @ + lost + 1]
      /\ IF Overflows(s) THEN EnterStale ELSE UNCHANGED <<state, recovery>>
      /\ request' = NoRequest
      /\ UNCHANGED <<started, bytes, gap_age, first, resets>>
  BY DEF TooWide
<1>2. /\ e \in Nat /\ expected <= e /\ ~ Present(e)
      /\ ~ Overflows(s) => e = expected
  BY <1>0, <1>1, SlideFacts
<1>3. /\ Len(out) = Cardinality(Between(expected, e)) /\ Len(out) \in Nat
      /\ Feed(delivered \o out, first, e) /\ first <= e /\ lost \in Nat
      /\ ~ Overflows(s) => Len(out) = 0 /\ delivered \o out = delivered
  BY <1>0, <1>1, SlideReleases
<1> HIDE DEF e, out, lost
<1>4. Window' /\ pending' \in Nat
  <2>1. expected <= expected + 1 /\ bytes' = bytes
    BY <1>0, <1>1
  <2> QED BY <1>0, <1>1, <1>2, <1>3, <2>1, WindowMoves
<1>5. Passed'
  BY <1>1, <1>3 DEF Passed, Feed
<1>6. /\ stats' \in [Counter -> Nat]
      /\ stats'["recovered"] = stats["recovered"]
      /\ stats'["detected"] = stats["detected"]
  <2>1. /\ stats \in [Counter -> Nat]
        /\ stats["accepted"] \in Nat /\ stats["dropped"] \in Nat
    BY Facts
  <2>2. stats["accepted"] + Len(out) \in Nat /\ stats["dropped"] + lost + 1 \in Nat
    BY <1>3, <2>1
  <2> QED BY <1>1, <2>1, <2>2 DEF Counter
<1>7. /\ state' \in FeedState
      /\ time_left' \in 0 .. Timeout /\ attempts' \in 0 .. MaxAttempts
      /\ recovery_end' \in Nat
      /\ StateMatchesWindow' /\ GapsBalance' /\ CompleteUnlessStale'
  <2>1. CASE Overflows(s)
    <3>1. EnterStale
      BY <1>1, <2>1
    <3>2. stats'["detected"] >= stats["detected"]
      BY <1>6, Facts
    <3> QED BY <1>6, <3>1, <3>2, StaleStep
  <2>2. CASE ~ Overflows(s)
    <3>1. /\ state' = state /\ time_left' = time_left /\ attempts' = attempts
          /\ recovery_end' = recovery_end
          /\ pending' = pending /\ delivered' = delivered /\ first' = first
          /\ expected' = expected
      BY <1>0, <1>1, <1>2, <1>3, <2>2 DEF recovery
    <3>2. StateMatchesWindow /\ GapsBalance /\ CompleteUnlessStale
      BY DEF IInv
    <3>3. StateMatchesWindow'
      BY <3>1, <3>2 DEF StateMatchesWindow
    <3>4. GapsBalance'
      BY <1>6, <3>1, <3>2 DEF GapsBalance
    <3>5. CompleteUnlessStale'
      BY <3>1, <3>2 DEF CompleteUnlessStale
    <3> QED BY <3>1, <3>3, <3>4, <3>5, Facts
  <2> QED BY <2>1, <2>2
<1>8. TypeOK' /\ NotStarted'
  <2>1. request' \in [seq : Nat, count : 0 .. MaxRequest]
    BY <1>1, SequencerAssumption DEF NoRequest
  <2>2. delivered' \in Seq([seq : Nat, body : Nat])
    BY <1>5 DEF Passed, Feed, Deliverable
  <2>3. /\ started' \in BOOLEAN /\ first' \in Nat /\ resets' \in 0 .. MaxResets
        /\ gap_age' \in 0 .. Grace /\ started'
    BY <1>1, Facts DEF Ahead
  <2> QED BY <1>4, <1>6, <1>7, <2>1, <2>2, <2>3 DEF TypeOK, NotStarted, Window
<1> QED BY <1>1, <1>4, <1>5, <1>7, <1>8, WindowIsExact, NoRequestIsExact DEF IInv

\* The slide drains up to a message that was ahead.
LEMMA CatchUpStep ==
  ASSUME IInv, NEW s \in Numbers, CatchUp(s)
  PROVE  IInv'
<1> DEFINE end == DrainEnd(s + 1)
           before == Release(expected, s)
           after == Release(s + 1, end)
           lost == Cardinality(Missing(expected, Target(s)))
           one == <<Message(s, s)>>
<1>0. /\ s \in Nat /\ s + 1 \in Nat /\ s <= s + 1 /\ Window /\ expected \in Nat
      /\ first \in Nat /\ pending \in Nat
  BY Facts
<1>1. /\ Ahead(s) /\ ~ Jumps(s) /\ Slid(s) = s
      /\ expected' = end /\ slots' = Vacate(expected, end)
      /\ pending' = pending - Len(before) - Len(after)
      /\ delivered' = ((delivered \o before) \o one) \o after
      /\ stats' = [stats EXCEPT !.accepted = @ + Len(before) + 1 + Len(after),
                                !.dropped = @ + lost]
      /\ EnterStale
      /\ request' = NoRequest
      /\ UNCHANGED <<started, bytes, gap_age, first, resets>>
  BY DEF CatchUp
<1>2. expected < s /\ ~ Present(s)
  BY <1>1 DEF Ahead
<1>3. /\ end \in Nat /\ s + 1 <= end /\ ~ Present(end)
  <2>1. s + 1 >= expected
    BY <1>0, <1>2
  <2> QED BY <1>0, <2>1, DrainEndFacts
<1>4. /\ Len(before) = Cardinality(Between(expected, s)) /\ Len(before) \in Nat
      /\ Feed(delivered \o before, first, s) /\ first <= s /\ lost \in Nat
  BY <1>0, <1>1, SlideReleases
<1> HIDE DEF end
<1>5. /\ Feed(after, s + 1, end)
      /\ Len(after) = Cardinality(Between(s + 1, end)) /\ Len(after) \in Nat
  BY <1>0, <1>3, ReleaseFacts, BetweenFacts
<1>6. Feed(one, s, s + 1)
  BY <1>0, SmallFeeds
<1> HIDE DEF before, after, lost, one
<1>7. Window' /\ pending' \in Nat
  <2>1. Cardinality(Between(expected, end)) = Len(before) + Len(after)
    <3>1. expected <= s /\ s < end
      BY <1>0, <1>2, <1>3
    <3> QED BY <1>0, <1>2, <1>3, <1>4, <1>5, <3>1, BetweenSplits
  <2>2. pending' = pending - Cardinality(Between(expected, end))
    BY <1>0, <1>1, <1>4, <1>5, <2>1
  <2>3. expected <= expected + 1 /\ bytes' = bytes /\ expected <= end
    BY <1>0, <1>1, <1>2, <1>3
  <2> QED BY <1>0, <1>1, <1>3, <2>2, <2>3, WindowMoves
<1>8. Passed'
  <2>1. Feed((delivered \o before) \o one, first, s + 1)
    BY <1>0, <1>4, <1>6, FeedJoins
  <2>2. first <= s + 1 /\ first <= end
    BY <1>0, <1>3, <1>4
  <2>3. Feed(((delivered \o before) \o one) \o after, first, end)
    BY <1>0, <1>3, <1>5, <2>1, <2>2, FeedJoins
  <2> QED BY <1>1, <2>2, <2>3 DEF Passed, Feed
<1>9. /\ stats' \in [Counter -> Nat]
      /\ stats'["recovered"] = stats["recovered"]
      /\ stats'["detected"] >= stats["detected"]
  <2>1. /\ stats \in [Counter -> Nat] /\ stats["detected"] \in Nat
        /\ stats["accepted"] \in Nat /\ stats["dropped"] \in Nat
    BY Facts
  <2>2. stats["accepted"] + Len(before) + 1 + Len(after) \in Nat
        /\ stats["dropped"] + lost \in Nat
    BY <1>4, <1>5, <2>1, SMTT(30)
  <2>3. /\ stats' \in [Counter -> Nat]
        /\ stats'["recovered"] = stats["recovered"]
        /\ stats'["detected"] = stats["detected"]
    BY <1>1, <2>1, <2>2 DEF Counter
  <2> QED BY <2>1, <2>3
<1>10. /\ state' \in FeedState
       /\ time_left' \in 0 .. Timeout /\ attempts' \in 0 .. MaxAttempts
       /\ recovery_end' \in Nat
       /\ StateMatchesWindow' /\ GapsBalance' /\ CompleteUnlessStale'
  BY <1>1, <1>9, StaleStep
<1>11. TypeOK' /\ NotStarted'
  <2>1. request' \in [seq : Nat, count : 0 .. MaxRequest]
    BY <1>1, SequencerAssumption DEF NoRequest
  <2>2. delivered' \in Seq([seq : Nat, body : Nat])
    BY <1>8 DEF Passed, Feed, Deliverable
  <2>3. /\ started' \in BOOLEAN /\ first' \in Nat /\ resets' \in 0 .. MaxResets
        /\ gap_age' \in 0 .. Grace /\ started'
    BY <1>1, Facts DEF Ahead
  <2> QED BY <1>7, <1>9, <1>10, <2>1, <2>2, <2>3 DEF TypeOK, NotStarted, Window
<1> QED BY <1>1, <1>7, <1>8, <1>10, <1>11, WindowIsExact, NoRequestIsExact DEF IInv

\* A message two windows ahead: nothing held survives.
LEMMA JumpStep ==
  ASSUME IInv, NEW s \in Numbers, Jump(s)
  PROVE  IInv'
<1> DEFINE one == <<Message(s, s)>>
<1>0. /\ s \in Nat /\ s + 1 \in Nat /\ s <= s + 1 /\ Window /\ expected \in Nat
      /\ first \in Nat /\ first <= expected /\ Feed(delivered, first, expected)
      /\ slots \in [Index -> Slot] /\ bytes \in [Index -> Nat]
  BY Facts
<1>1. /\ Ahead(s) /\ expected' = s + 1 /\ slots' = EmptyRing /\ pending' = 0
      /\ delivered' = Append(delivered, Message(s, s))
      /\ stats' = [stats EXCEPT !.accepted = @ + 1, !.dropped = @ + (s - expected)]
      /\ EnterStale
      /\ request' = NoRequest
      /\ UNCHANGED <<started, bytes, gap_age, first, resets>>
  BY DEF Jump
<1>2. expected < s
  BY <1>1 DEF Ahead
<1>3. Window'
  <2>1. EmptyRing \in [Index -> Slot] /\ \A i \in Index : ~ EmptyRing[i].present
    BY <1>0 DEF EmptyRing, Slot
  <2> HIDE DEF EmptyRing
  <2>2. Cardinality(InUse(slots')) = 0
    BY <1>1, <2>1, InUseFacts
  <2>3. WindowAt(slots, bytes, expected)' /\ InUse(slots)' = InUse(slots')
    BY <1>1, <2>1 DEF WindowAt, InUse
  <2> QED BY <1>0, <1>1, <2>1, <2>2, <2>3 DEF Window
<1>4. Passed'
  <2>1. Feed(one, s, s + 1)
    BY <1>0, SmallFeeds
  <2>2. Feed(delivered, first, s)
    <3>1. \A n \in first .. expected - 1 : n \in first .. s - 1
      BY <1>0, <1>2
    <3> QED BY <1>0, <3>1 DEF Feed
  <2>3. first <= s /\ first <= s + 1
    BY <1>0, <1>2
  <2> HIDE DEF one
  <2>4. Feed(delivered \o one, first, s + 1)
    BY <1>0, <2>1, <2>2, <2>3, FeedJoins
  <2>5. Append(delivered, Message(s, s)) = delivered \o one
    BY <1>0 DEF Feed, one, Message, Deliverable
  <2> QED BY <1>1, <2>3, <2>4, <2>5 DEF Passed, Feed
<1>5. /\ stats' \in [Counter -> Nat]
      /\ stats'["recovered"] = stats["recovered"]
      /\ stats'["detected"] >= stats["detected"]
  <2>1. /\ stats \in [Counter -> Nat] /\ stats["detected"] \in Nat
        /\ stats["accepted"] \in Nat /\ stats["dropped"] \in Nat
    BY Facts
  <2>2. stats["accepted"] + 1 \in Nat /\ stats["dropped"] + (s - expected) \in Nat
    BY <1>0, <1>2, <2>1
  <2>3. /\ stats' \in [Counter -> Nat]
        /\ stats'["recovered"] = stats["recovered"]
        /\ stats'["detected"] = stats["detected"]
    BY <1>1, <2>1, <2>2 DEF Counter
  <2> QED BY <2>1, <2>3
<1>6. /\ state' \in FeedState
      /\ time_left' \in 0 .. Timeout /\ attempts' \in 0 .. MaxAttempts
      /\ recovery_end' \in Nat
      /\ StateMatchesWindow' /\ GapsBalance' /\ CompleteUnlessStale'
  BY <1>1, <1>5, StaleStep
<1>7. TypeOK' /\ NotStarted'
  <2>1. request' \in [seq : Nat, count : 0 .. MaxRequest]
    BY <1>1, SequencerAssumption DEF NoRequest
  <2>2. delivered' \in Seq([seq : Nat, body : Nat])
    BY <1>4 DEF Passed, Feed, Deliverable
  <2>3. /\ started' \in BOOLEAN /\ first' \in Nat /\ resets' \in 0 .. MaxResets
        /\ gap_age' \in 0 .. Grace /\ started' /\ pending' \in Nat
    BY <1>1, Facts DEF Ahead
  <2> QED BY <1>3, <1>5, <1>6, <2>1, <2>2, <2>3 DEF TypeOK, NotStarted, Window
<1> QED BY <1>1, <1>3, <1>4, <1>6, <1>7, WindowIsExact, NoRequestIsExact DEF IInv

\* A message there is room for.
LEMMA HoldStep ==
  ASSUME IInv, NEW source, NEW s \in Numbers, Hold(source, s)
  PROVE  IInv'
<1> DEFINE e == Slid(s)
           out == Release(expected, e)
           v == Vacate(expected, e)
           lost == Cardinality(Missing(expected, Target(s)))
           alone == pending = Len(out)
<1>0. /\ s \in Nat /\ Window /\ expected \in Nat /\ first \in Nat /\ pending \in Nat
      /\ bytes \in [Index -> Nat] /\ Cap \in Nat
  BY Facts
<1>1. /\ Ahead(s) /\ ~ Jumps(s) /\ e # s
      /\ expected' = e
      /\ slots' = [v EXCEPT ![s % Cap] = [seq |-> s, present |-> TRUE]]
      /\ bytes' = [bytes EXCEPT ![s % Cap] = s]
      /\ pending' = pending - Len(out) + 1 /\ delivered' = delivered \o out
      /\ gap_age' = (IF alone THEN 0 ELSE gap_age)
      /\ stats' = [stats EXCEPT !.accepted = @ + Len(out), !.dropped = @ + lost,
                                !.detected = IF alone THEN @ + 1 ELSE @]
      /\ IF Overflows(s)
           THEN EnterStale
           ELSE /\ state' = (IF state = "Synced" THEN "Gap" ELSE state)
                /\ RestartClock(source)
                /\ UNCHANGED <<attempts, recovery_end>>
      /\ request' = NoRequest
      /\ UNCHANGED <<started, first, resets>>
  BY DEF Hold
<1>2. /\ e \in Nat /\ expected <= e /\ ~ Present(e) /\ e <= s /\ s < e + Cap
      /\ ~ Overflows(s) => e = expected
  BY <1>0, <1>1, SlideFacts
<1>3. /\ Len(out) = Cardinality(Between(expected, e)) /\ Len(out) \in Nat
      /\ Feed(delivered \o out, first, e) /\ first <= e /\ lost \in Nat
      /\ ~ Overflows(s) => Len(out) = 0 /\ delivered \o out = delivered
  BY <1>0, <1>1, SlideReleases
<1> HIDE DEF e, out, lost
<1>4. Window' /\ pending' \in Nat /\ pending' > 0
  <2>0. expected <= expected + 1
    BY <1>0
  <2>1. /\ v \in [Index -> Slot] /\ WindowAt(v, bytes, e)
        /\ \A i \in Index : v[i].seq = slots[i].seq
                            /\ (v[i].present => slots[i].present)
    BY <1>0, <1>2, <2>0, VacateFacts
  <2>2. Cardinality(InUse(v)) = pending - Len(out)
    BY <1>0, <1>2, <1>3, VacateCount
  <2>3. \A i \in Index : v[i].present => v[i].seq # s
    <3>1. ~ Present(s)
      BY <1>1 DEF Ahead
    <3> QED BY <1>0, <2>1, <3>1, HeldFacts
  <2> HIDE DEF v
  <2>4. /\ slots' \in [Index -> Slot] /\ bytes' \in [Index -> Nat]
        /\ WindowAt(slots', bytes', e)
        /\ Cardinality(InUse(slots')) = Cardinality(InUse(v)) + 1
    <3> DEFINE k == s % Cap
    <3>1. k \in Index /\ ~ v[k].present
      <4>1. e < s
        BY <1>0, <1>1, <1>2
      <4> QED BY <1>0, <1>2, <2>1, <2>3, <4>1, SlotIsFree
    <3>2. /\ slots' = [v EXCEPT ![k] = [seq |-> s, present |-> TRUE]]
          /\ bytes' = [bytes EXCEPT ![k] = s]
      BY <1>1
    <3>3. s % Cap = k
      OBVIOUS
    <3> HIDE DEF k
    <3>4. slots' \in [Index -> Slot] /\ bytes' \in [Index -> Nat]
      BY <1>0, <2>1, <3>1, <3>2 DEF Slot
    <3>5. /\ slots'[k].seq = s /\ slots'[k].present /\ bytes'[k] = s
          /\ \A i \in Index : i # k => slots'[i] = v[i] /\ bytes'[i] = bytes[i]
      BY <1>0, <2>1, <3>1, <3>2
    <3>6. WindowAt(slots', bytes', e)
      <4>1. e < s
        BY <1>0, <1>1, <1>2
      <4> QED BY <1>2, <2>1, <3>3, <3>5, <4>1 DEF WindowAt
    <3>7. InUse(slots') = InUse(v) \cup {k} /\ k \notin InUse(v)
      BY <3>1, <3>5 DEF InUse
    <3>8. Cardinality(InUse(slots')) = Cardinality(InUse(v)) + 1
      BY <3>7, InUseFacts, FS_AddElement
    <3> QED BY <3>4, <3>6, <3>8
  <2>5. Cardinality(InUse(v)) \in Nat
    BY InUseFacts
  <2>6. pending' = Cardinality(InUse(slots')) /\ pending' \in Nat /\ pending' > 0
    BY <1>1, <2>2, <2>4, <2>5
  <2>7. WindowAt(slots, bytes, expected)' /\ InUse(slots)' = InUse(slots')
    BY <1>1, <2>4 DEF WindowAt, InUse
  <2> QED BY <1>1, <1>2, <2>4, <2>6, <2>7 DEF Window
<1>5. Passed'
  BY <1>1, <1>3 DEF Passed, Feed
<1>6. /\ stats' \in [Counter -> Nat]
      /\ stats'["recovered"] = stats["recovered"]
      /\ stats'["detected"] = (IF alone THEN stats["detected"] + 1 ELSE stats["detected"])
      /\ stats'["detected"] >= stats["detected"]
      /\ stats["recovered"] \in Nat /\ stats["detected"] \in Nat
  <2>1. /\ stats \in [Counter -> Nat]
        /\ stats["accepted"] \in Nat /\ stats["dropped"] \in Nat
        /\ stats["detected"] \in Nat /\ stats["recovered"] \in Nat
    BY Facts
  <2>2. /\ stats["accepted"] + Len(out) \in Nat /\ stats["dropped"] + lost \in Nat
        /\ stats["detected"] + 1 \in Nat
    BY <1>3, <2>1
  <2> HIDE DEF alone
  <2>3. /\ stats' \in [Counter -> Nat]
        /\ stats'["recovered"] = stats["recovered"]
        /\ stats'["detected"] = (IF alone THEN stats["detected"] + 1 ELSE stats["detected"])
    BY <1>1, <2>1, <2>2 DEF Counter
  <2> QED BY <2>1, <2>3
<1>7. /\ state' \in FeedState
      /\ time_left' \in 0 .. Timeout /\ attempts' \in 0 .. MaxAttempts
      /\ recovery_end' \in Nat
      /\ StateMatchesWindow' /\ GapsBalance' /\ CompleteUnlessStale'
  <2>1. CASE Overflows(s)
    BY <1>1, <1>6, <2>1, StaleStep
  <2>2. CASE ~ Overflows(s)
    <3>1. /\ state' = (IF state = "Synced" THEN "Gap" ELSE state)
          /\ RestartClock(source)
          /\ attempts' = attempts /\ recovery_end' = recovery_end
          /\ delivered' = delivered /\ first' = first /\ expected' = expected
          /\ alone <=> pending = 0
      BY <1>0, <1>1, <1>2, <1>3, <2>2
    <3>2. StateMatchesWindow /\ GapsBalance /\ CompleteUnlessStale
      BY DEF IInv
    <3>3. /\ state \in FeedState /\ time_left \in 0 .. Timeout /\ Timeout \in Nat
          /\ attempts \in 0 .. MaxAttempts /\ recovery_end \in Nat
      BY Facts
    <3>4. time_left' \in 0 .. Timeout /\ (state # "Recovering" => time_left' = time_left)
      BY <3>1, <3>3 DEF RestartClock
    <3>5. state' \in FeedState
      BY <3>1, <3>3 DEF FeedState
    <3>6. StateMatchesWindow'
      <4> HIDE DEF alone
      <4> QED BY <1>4, <3>1, <3>2, <3>3, <3>4 DEF StateMatchesWindow, FeedState
    <3>7. GapsBalance'
      <4>1. CASE state = "Synced"
        <5>1. alone /\ state' = "Gap"
          BY <3>1, <3>2, <4>1 DEF StateMatchesWindow
        <5>2. stats["recovered"] <= stats["detected"]
          BY <3>2, <4>1, <1>6 DEF GapsBalance
        <5> QED BY <1>6, <5>1, <5>2 DEF GapsBalance
      <4>2. CASE state # "Synced"
        <5>1. state' = state
          BY <3>1, <4>2
        <5> HIDE DEF alone
        <5> QED BY <1>6, <3>2, <5>1 DEF GapsBalance
      <4> QED BY <4>1, <4>2
    <3>8. CompleteUnlessStale'
      BY <3>1, <3>2 DEF CompleteUnlessStale
    <3> QED BY <3>1, <3>3, <3>4, <3>5, <3>6, <3>7, <3>8
  <2> QED BY <2>1, <2>2
<1>8. TypeOK' /\ NotStarted'
  <2>1. request' \in [seq : Nat, count : 0 .. MaxRequest]
    BY <1>1, SequencerAssumption DEF NoRequest
  <2>2. delivered' \in Seq([seq : Nat, body : Nat])
    BY <1>5 DEF Passed, Feed, Deliverable
  <2>3. gap_age' \in 0 .. Grace
    <3>1. gap_age \in 0 .. Grace /\ Grace \in Nat
      BY Facts
    <3> HIDE DEF alone
    <3> QED BY <1>1, <3>1
  <2>4. /\ started' \in BOOLEAN /\ first' \in Nat /\ resets' \in 0 .. MaxResets
        /\ started'
    BY <1>1, Facts DEF Ahead
  <2> QED BY <1>4, <1>6, <1>7, <2>1, <2>2, <2>3, <2>4 DEF TypeOK, NotStarted, Window
<1> QED BY <1>1, <1>4, <1>5, <1>7, <1>8, WindowIsExact, NoRequestIsExact DEF IInv

-----------------------------------------------------------------------------
\* Stepping over the hole at the front hands over what was stuck behind it.
LEMMA SkipHoleFacts ==
  ASSUME IInv, SkipHole
  PROVE  /\ Window' /\ Passed'
         /\ pending' \in Nat
         /\ stats' \in [Counter -> Nat]
         /\ stats'["recovered"] = stats["recovered"]
         /\ stats'["detected"] = stats["detected"]
         /\ started' = started /\ request' = NoRequest
         /\ first' = first /\ resets' = resets
<1> DEFINE run == MissingRun
           target == expected + run
           end == DrainEnd(target)
           out == Release(target, end)
<1>0. /\ Window /\ expected \in Nat /\ first \in Nat /\ first <= expected
      /\ pending \in Nat /\ Feed(delivered, first, expected) /\ Cap \in Nat
  BY Facts
<1>1. /\ expected' = end /\ slots' = Vacate(expected, end)
      /\ pending' = pending - Len(out) /\ delivered' = delivered \o out
      /\ stats' = [stats EXCEPT !.accepted = @ + Len(out), !.dropped = @ + run]
      /\ request' = NoRequest
      /\ UNCHANGED <<started, bytes, first, resets>>
  BY DEF SkipHole
<1>2. run \in Nat /\ run >= 1 /\ \A n \in expected .. expected + run - 1 : ~ Present(n)
  BY <1>0, MissingRunFacts
<1> HIDE DEF run
<1>3. target \in Nat /\ expected <= target
  BY <1>0, <1>2
<1>4. end \in Nat /\ target <= end /\ ~ Present(end)
  <2>1. target >= expected
    BY <1>0, <1>3
  <2> HIDE DEF target
  <2> QED BY <1>0, <1>3, <2>1, DrainEndFacts
<1> HIDE DEF end
<1>5. \A n \in expected .. target - 1 : ~ Present(n)
  BY <1>0, <1>2 DEF target
<1> HIDE DEF target
<1>6. /\ Feed(out, target, end) /\ Len(out) \in Nat
      /\ Len(out) = Cardinality(Between(target, end))
  BY <1>0, <1>3, <1>4, ReleaseFacts, BetweenFacts
<1> HIDE DEF out
<1>7. Window' /\ pending' \in Nat
  <2>1. Between(expected, end) = Between(target, end)
    BY <1>0, <1>3, <1>4, <1>5, BetweenSkips
  <2>2. pending' = pending - Cardinality(Between(expected, end))
    BY <1>1, <1>6, <2>1
  <2>3. expected <= expected + 1 /\ bytes' = bytes /\ expected <= end
    BY <1>0, <1>1, <1>3, <1>4
  <2> QED BY <1>0, <1>1, <1>4, <2>2, <2>3, WindowMoves
<1>8. Passed'
  <2>1. Feed(delivered, first, target)
    <3>1. \A n \in first .. expected - 1 : n \in first .. target - 1
      BY <1>0, <1>3
    <3> QED BY <1>0, <3>1 DEF Feed
  <2>2. first <= target /\ first <= end
    BY <1>0, <1>3, <1>4
  <2>3. Feed(delivered \o out, first, end)
    BY <1>0, <1>3, <1>4, <1>6, <2>1, <2>2, FeedJoins
  <2> QED BY <1>1, <2>2, <2>3 DEF Passed, Feed
<1>9. /\ stats' \in [Counter -> Nat]
      /\ stats'["recovered"] = stats["recovered"]
      /\ stats'["detected"] = stats["detected"]
  <2>1. /\ stats \in [Counter -> Nat]
        /\ stats["accepted"] \in Nat /\ stats["dropped"] \in Nat
    BY Facts
  <2>2. stats["accepted"] + Len(out) \in Nat /\ stats["dropped"] + run \in Nat
    BY <1>2, <1>6, <2>1
  <2> QED BY <1>1, <2>1, <2>2 DEF Counter
<1> QED BY <1>1, <1>7, <1>8, <1>9

\* The last attempt has run out: give the hole up and go Stale.
LEMMA PollGiveUpStep == ASSUME IInv, PollGiveUp PROVE IInv'
<1>1. SkipHole /\ EnterStale /\ gap_age' = gap_age /\ state = "Recovering"
  BY DEF PollGiveUp
<1>2. /\ Window' /\ Passed' /\ pending' \in Nat
      /\ stats' \in [Counter -> Nat]
      /\ stats'["recovered"] = stats["recovered"]
      /\ stats'["detected"] = stats["detected"]
      /\ started' = started /\ request' = NoRequest /\ first' = first /\ resets' = resets
  BY <1>1, SkipHoleFacts
<1>3. /\ state' \in FeedState
      /\ time_left' \in 0 .. Timeout /\ attempts' \in 0 .. MaxAttempts
      /\ recovery_end' \in Nat
      /\ StateMatchesWindow' /\ GapsBalance' /\ CompleteUnlessStale'
  <2>1. stats'["detected"] >= stats["detected"]
    BY <1>2, Facts
  <2> QED BY <1>1, <1>2, <2>1, StaleStep
<1>4. started
  BY <1>1 DEF IInv, NotStarted
<1>5. TypeOK' /\ NotStarted'
  <2>1. request' \in [seq : Nat, count : 0 .. MaxRequest]
    BY <1>2, SequencerAssumption DEF NoRequest
  <2>2. delivered' \in Seq([seq : Nat, body : Nat])
    BY <1>2 DEF Passed, Feed, Deliverable
  <2>3. /\ started' \in BOOLEAN /\ first' \in Nat /\ resets' \in 0 .. MaxResets
        /\ gap_age' \in 0 .. Grace
    BY <1>1, <1>2, Facts
  <2> QED BY <1>2, <1>3, <1>4, <2>1, <2>2, <2>3 DEF TypeOK, NotStarted, Window
<1> QED BY <1>2, <1>3, <1>5, WindowIsExact, NoRequestIsExact DEF IInv

\* A Stale feed steps over a hole once the other line has had its time.
LEMMA PollStepOverStep == ASSUME IInv, PollStepOver PROVE IInv'
<1>1. SkipHole /\ state = "Stale" /\ gap_age' = 0 /\ state' = state
      /\ time_left' = time_left /\ attempts' = attempts /\ recovery_end' = recovery_end
  BY DEF PollStepOver, recovery
<1>2. /\ Window' /\ Passed' /\ pending' \in Nat
      /\ stats' \in [Counter -> Nat]
      /\ stats'["recovered"] = stats["recovered"]
      /\ stats'["detected"] = stats["detected"]
      /\ started' = started /\ request' = NoRequest /\ first' = first /\ resets' = resets
  BY <1>1, SkipHoleFacts
<1>3. StateMatchesWindow' /\ GapsBalance' /\ CompleteUnlessStale'
  <2>1. StateMatchesWindow /\ GapsBalance
    BY DEF IInv
  <2> QED BY <1>1, <1>2, <2>1 DEF StateMatchesWindow, GapsBalance, CompleteUnlessStale
<1>4. started
  BY <1>1 DEF IInv, NotStarted
<1>5. TypeOK' /\ NotStarted'
  <2>1. request' \in [seq : Nat, count : 0 .. MaxRequest]
    BY <1>2, SequencerAssumption DEF NoRequest
  <2>2. delivered' \in Seq([seq : Nat, body : Nat])
    BY <1>2 DEF Passed, Feed, Deliverable
  <2>3. /\ started' \in BOOLEAN /\ first' \in Nat /\ resets' \in 0 .. MaxResets
        /\ gap_age' \in 0 .. Grace /\ state' \in FeedState
        /\ time_left' \in 0 .. Timeout /\ attempts' \in 0 .. MaxAttempts
        /\ recovery_end' \in Nat
    BY <1>1, <1>2, Facts
  <2> QED BY <1>2, <1>4, <2>1, <2>2, <2>3 DEF TypeOK, NotStarted, Window
<1> QED BY <1>2, <1>3, <1>5, WindowIsExact, NoRequestIsExact DEF IInv

-----------------------------------------------------------------------------
\* A request names the run missing at the front and nothing else.
LEMMA RequestFacts ==
  ASSUME IInv, pending # 0, IssueRequest, expected' = expected, slots' = slots
  PROVE  /\ request' \in [seq : Nat, count : 0 .. MaxRequest]
         /\ RequestIsExact'
         /\ time_left' = Timeout
         /\ recovery_end' \in Nat /\ expected < recovery_end'
<1> DEFINE run == MissingRun
           n == IF run > MaxRequest THEN MaxRequest ELSE run
<1>0. /\ Window /\ expected \in Nat /\ Cap \in Nat /\ MaxRequest \in Nat \ {0}
  BY Facts
<1>1. /\ request' = [seq |-> expected, count |-> n]
      /\ recovery_end' = expected + n /\ time_left' = Timeout
  BY DEF IssueRequest
<1>2. /\ run \in Nat /\ run >= 1
      /\ \A m \in expected .. expected + run - 1 : ~ Present(m)
      /\ Present(expected + run)
  BY <1>0, MissingRunFacts
<1> HIDE DEF run
<1>3. n \in Nat /\ n >= 1 /\ n <= MaxRequest /\ n <= run
      /\ (n = MaxRequest \/ n = run)
  BY <1>0, <1>2
<1> HIDE DEF n
<1>4. request'.seq = expected /\ request'.count = n
      /\ request' \in [seq : Nat, count : 0 .. MaxRequest]
  BY <1>0, <1>1, <1>3
<1>5. ASSUME NEW m \in expected .. expected + n - 1 PROVE m \notin Held
  <2>1. m \in expected .. expected + run - 1
    BY <1>0, <1>2, <1>3
  <2>2. ~ Present(m)
    BY <1>2, <2>1
  <2> QED BY <1>0, <2>2, HeldFacts DEF Held
<1>6. n = MaxRequest \/ expected + n \in Held
  <2>1. CASE n = run
    <3>1. expected + run \in Nat
      BY <1>0, <1>2
    <3>2. expected + run \in Held
      BY <1>0, <1>2, <3>1, PresentFacts
    <3> QED BY <2>1, <3>2
  <2> QED BY <1>3, <2>1
<1>7. Held' = Held
  BY DEF Held
<1>8. RequestIsExact'
  BY <1>0, <1>3, <1>4, <1>5, <1>6, <1>7 DEF RequestIsExact
<1> QED BY <1>0, <1>1, <1>3, <1>4, <1>8

\* The grace period is over, or the window is filling up: ask.
LEMMA PollAskStep == ASSUME IInv, PollAsk PROVE IInv'
<1>1. /\ state = "Gap" /\ state' = "Recovering" /\ attempts' = 1 /\ IssueRequest
      /\ UNCHANGED <<started, expected, slots, bytes, pending, gap_age, stats>>
      /\ UNCHANGED <<first, delivered, resets>>
  BY DEF PollAsk, history
<1>2. pending \in Nat /\ pending # 0 /\ MaxAttempts \in Nat \ {0} /\ Timeout \in Nat
      /\ attempts' \in 0 .. MaxAttempts
  <2>1. StateMatchesWindow
    BY DEF IInv
  <2> QED BY <1>1, <2>1, Facts DEF StateMatchesWindow
<1>3. /\ request' \in [seq : Nat, count : 0 .. MaxRequest]
      /\ RequestIsExact' /\ time_left' = Timeout
      /\ recovery_end' \in Nat /\ expected < recovery_end'
  BY <1>1, <1>2, RequestFacts
<1>4. StateMatchesWindow'
  BY <1>1, <1>2, <1>3 DEF StateMatchesWindow
<1>5. TypeOK' /\ NotStarted' /\ WindowExact' /\ Passed' /\ CompleteUnlessStale'
      /\ GapsBalance'
  <2>1. /\ TypeOK /\ NotStarted /\ WindowExact /\ Passed /\ CompleteUnlessStale
        /\ GapsBalance
    BY DEF IInv
  <2>2. TypeOK'
    BY <1>1, <1>2, <1>3, <2>1 DEF TypeOK, FeedState
  <2>3. NotStarted' /\ WindowExact' /\ Passed'
    BY <1>1, <2>1 DEF NotStarted, WindowExact, Passed
  <2>4. CompleteUnlessStale' /\ GapsBalance'
    BY <1>1, <2>1 DEF CompleteUnlessStale, GapsBalance
  <2> QED BY <2>2, <2>3, <2>4
<1> QED BY <1>3, <1>4, <1>5 DEF IInv

\* The request timed out and another attempt is left.
LEMMA PollRetryStep == ASSUME IInv, PollRetry PROVE IInv'
<1>1. /\ state = "Recovering" /\ attempts < MaxAttempts /\ attempts' = attempts + 1
      /\ IssueRequest /\ state' = state
      /\ UNCHANGED <<started, expected, slots, bytes, pending, gap_age, stats>>
      /\ UNCHANGED <<first, delivered, resets>>
  BY DEF PollRetry, history
<1>2. pending \in Nat /\ pending # 0 /\ MaxAttempts \in Nat \ {0} /\ Timeout \in Nat
      /\ attempts' \in 0 .. MaxAttempts /\ attempts' >= 1
  <2>1. StateMatchesWindow
    BY DEF IInv
  <2>2. attempts \in 0 .. MaxAttempts /\ MaxAttempts \in Nat \ {0}
    BY Facts
  <2>3. attempts' \in 0 .. MaxAttempts /\ attempts' >= 1
    BY <1>1, <2>2
  <2> QED BY <1>1, <2>1, <2>3, Facts DEF StateMatchesWindow
<1>3. /\ request' \in [seq : Nat, count : 0 .. MaxRequest]
      /\ RequestIsExact' /\ time_left' = Timeout
      /\ recovery_end' \in Nat /\ expected < recovery_end'
  BY <1>1, <1>2, RequestFacts
<1>4. StateMatchesWindow'
  BY <1>1, <1>2, <1>3 DEF StateMatchesWindow
<1>5. TypeOK' /\ NotStarted' /\ WindowExact' /\ Passed' /\ CompleteUnlessStale'
      /\ GapsBalance'
  <2>1. /\ TypeOK /\ NotStarted /\ WindowExact /\ Passed /\ CompleteUnlessStale
        /\ GapsBalance
    BY DEF IInv
  <2>2. TypeOK'
    BY <1>1, <1>2, <1>3, <2>1 DEF TypeOK, FeedState
  <2>3. NotStarted' /\ WindowExact' /\ Passed'
    BY <1>1, <2>1 DEF NotStarted, WindowExact, Passed
  <2>4. CompleteUnlessStale' /\ GapsBalance'
    BY <1>1, <2>1 DEF CompleteUnlessStale, GapsBalance
  <2> QED BY <2>2, <2>3, <2>4
<1> QED BY <1>3, <1>4, <1>5 DEF IInv

-----------------------------------------------------------------------------
\* A new session.
LEMMA ResetStep == ASSUME IInv, NEW f \in Numbers, Reset(f) PROVE IInv'
<1>0. /\ f \in Nat /\ slots \in [Index -> Slot] /\ bytes \in [Index -> Nat]
      /\ resets \in 0 .. MaxResets /\ MaxResets \in Nat
      /\ Grace \in Nat /\ Timeout \in Nat /\ MaxAttempts \in Nat
      /\ stats \in [Counter -> Nat]
  BY Facts, SequencerAssumption
<1>1. /\ resets < MaxResets /\ resets' = resets + 1 /\ slots' = EmptyRing
      /\ pending' = 0 /\ expected' = f /\ state' = "Synced" /\ started' = TRUE
      /\ gap_age' = Grace /\ time_left' = 0 /\ attempts' = 0 /\ recovery_end' = 0
      /\ first' = f /\ delivered' = << >> /\ request' = NoRequest
      /\ bytes' = bytes /\ stats' = stats
  BY DEF Reset, ClearRecovery
<1>2. Window'
  <2>1. EmptyRing \in [Index -> Slot] /\ \A i \in Index : ~ EmptyRing[i].present
    BY <1>0 DEF EmptyRing, Slot
  <2> HIDE DEF EmptyRing
  <2>2. Cardinality(InUse(slots')) = 0
    BY <1>1, <2>1, InUseFacts
  <2>3. WindowAt(slots, bytes, expected)' /\ InUse(slots)' = InUse(slots')
    BY <1>1, <2>1 DEF WindowAt, InUse
  <2> QED BY <1>0, <1>1, <2>1, <2>2, <2>3 DEF Window
<1>3. Passed' /\ CompleteUnlessStale'
  <2>1. Feed(<< >>, f, f) /\ Whole(f, f) = << >>
    BY <1>0, SmallFeeds
  <2> QED BY <1>0, <1>1, <2>1, CompleteIsWhole DEF Passed, Feed
<1>4. StateMatchesWindow'
  BY <1>1 DEF StateMatchesWindow
<1>5. GapsBalance'
  <2>1. stats["recovered"] <= stats["detected"]
    <3>1. GapsBalance
      BY DEF IInv
    <3>2. stats["recovered"] \in Nat /\ stats["detected"] \in Nat
      BY Facts
    <3> QED BY <3>1, <3>2 DEF GapsBalance
  <2>2. stats["recovered"] \in Nat
    BY Facts
  <2> QED BY <1>1, <2>1, <2>2 DEF GapsBalance
<1>6. TypeOK' /\ NotStarted'
  <2>1. request' \in [seq : Nat, count : 0 .. MaxRequest]
    BY <1>1, SequencerAssumption DEF NoRequest
  <2>2. delivered' \in Seq([seq : Nat, body : Nat])
    BY <1>3 DEF Passed, Feed, Deliverable
  <2>3. resets' \in 0 .. MaxResets
    BY <1>0, <1>1
  <2> QED BY <1>0, <1>1, <1>2, <2>1, <2>2, <2>3
        DEF TypeOK, NotStarted, Window, FeedState
<1> QED BY <1>1, <1>2, <1>3, <1>4, <1>5, <1>6, WindowIsExact, NoRequestIsExact DEF IInv

\* Time passes.
LEMMA TickStep == ASSUME IInv, Tick PROVE IInv'
<1>1. /\ gap_age' = (IF gap_age < Grace THEN gap_age + 1 ELSE gap_age)
      /\ time_left' = (IF time_left > 0 THEN time_left - 1 ELSE 0)
      /\ request' = NoRequest
      /\ UNCHANGED <<state, started, expected, slots, bytes, pending, attempts,
                     recovery_end, stats>>
      /\ UNCHANGED <<first, delivered, resets>>
  BY DEF Tick, history
<1>2. /\ gap_age \in 0 .. Grace /\ time_left \in 0 .. Timeout
      /\ Grace \in Nat /\ Timeout \in Nat
  BY Facts
<1>3. /\ gap_age' \in 0 .. Grace /\ time_left' \in 0 .. Timeout
      /\ (time_left = 0 => time_left' = 0)
  BY <1>1, <1>2
<1>4. /\ TypeOK /\ NotStarted /\ WindowExact /\ Passed /\ CompleteUnlessStale
      /\ GapsBalance /\ StateMatchesWindow
  BY DEF IInv
<1>5. TypeOK'
  <2>1. request' \in [seq : Nat, count : 0 .. MaxRequest]
    BY <1>1, SequencerAssumption DEF NoRequest
  <2> QED BY <1>1, <1>3, <1>4, <2>1 DEF TypeOK
<1>6. NotStarted' /\ WindowExact' /\ Passed'
  BY <1>1, <1>4 DEF NotStarted, WindowExact, Passed
<1>7. CompleteUnlessStale' /\ GapsBalance' /\ StateMatchesWindow'
  BY <1>1, <1>3, <1>4 DEF CompleteUnlessStale, GapsBalance, StateMatchesWindow
<1> QED BY <1>1, <1>5, <1>6, <1>7, NoRequestIsExact DEF IInv

-----------------------------------------------------------------------------
\* The invariant holds of a new arbitrator.
LEMMA InitHolds == Init => IInv
<1> SUFFICES ASSUME Init PROVE IInv
  OBVIOUS
<1>1. /\ state = "Synced" /\ started = FALSE /\ expected = 0 /\ pending = 0
      /\ slots = [i \in Index |-> [seq |-> 0, present |-> FALSE]]
      /\ bytes = [i \in Index |-> 0]
      /\ gap_age = Grace /\ time_left = 0 /\ attempts = 0 /\ recovery_end = 0
      /\ stats = [c \in Counter |-> 0] /\ request = NoRequest
      /\ first = 0 /\ delivered = << >> /\ resets = 0
  BY DEF Init
<1>2. TypeOK
  <2>1. /\ state \in FeedState /\ started \in BOOLEAN /\ expected \in Nat
        /\ slots \in [Index -> Slot] /\ bytes \in [Index -> Nat] /\ pending \in Nat
    BY <1>1 DEF FeedState, Slot
  <2>2. /\ gap_age \in 0 .. Grace /\ time_left \in 0 .. Timeout
        /\ attempts \in 0 .. MaxAttempts /\ recovery_end \in Nat
        /\ resets \in 0 .. MaxResets
    BY <1>1, SequencerAssumption
  <2>3. stats \in [Counter -> Nat] /\ first \in Nat
    BY <1>1
  <2>4. request \in [seq : Nat, count : 0 .. MaxRequest]
    BY <1>1, SequencerAssumption DEF NoRequest
  <2>5. delivered \in Seq([seq : Nat, body : Nat])
    BY <1>1, EmptySeq
  <2> QED BY <2>1, <2>2, <2>3, <2>4, <2>5 DEF TypeOK
<1>3. WindowExact
  <2>1. \A i \in Index : ~ slots[i].present
    BY <1>1
  <2>2. Cardinality(InUse(slots)) = 0
    BY <2>1, InUseFacts
  <2> QED BY <1>1, <2>1, <2>2 DEF WindowExact, InUse
<1>4. Passed /\ CompleteUnlessStale
  <2>1. Feed(<< >>, 0, 0) /\ Whole(0, 0) = << >>
    BY SmallFeeds
  <2> QED BY <1>1, <2>1 DEF Passed, CompleteUnlessStale, Whole
<1>5. NotStarted /\ StateMatchesWindow
  BY <1>1 DEF NotStarted, StateMatchesWindow
<1>6. GapsBalance /\ RequestIsExact
  BY <1>1 DEF GapsBalance, RequestIsExact, Counter
<1> QED BY <1>2, <1>3, <1>4, <1>5, <1>6 DEF IInv

\* Every step preserves it.
LEMMA StepHolds == IInv /\ [Next]_vars => IInv'
<1> SUFFICES ASSUME IInv, [Next]_vars PROVE IInv'
  OBVIOUS
<1>1. CASE \E source \in Source, s \in Numbers : Ingest(source, s)
  <2>1. PICK source \in Source, s \in Numbers : Ingest(source, s)
    BY <1>1
  <2>2. CASE InOrder(source, s)
    BY <2>2, InOrderStep
  <2>3. CASE Hold(source, s)
    BY <2>3, HoldStep
  <2>4. CASE TooWide(s)
    BY <2>4, TooWideStep
  <2>5. CASE CatchUp(s)
    BY <2>5, CatchUpStep
  <2>6. CASE Jump(s)
    BY <2>6, JumpStep
  <2> QED BY <2>1, <2>2, <2>3, <2>4, <2>5, <2>6 DEF Ingest
<1>2. CASE Poll
  <2>1. CASE PollAsk
    BY <2>1, PollAskStep
  <2>2. CASE PollRetry
    BY <2>2, PollRetryStep
  <2>3. CASE PollGiveUp
    BY <2>3, PollGiveUpStep
  <2>4. CASE PollStepOver
    BY <2>4, PollStepOverStep
  <2> QED BY <1>2, <2>1, <2>2, <2>3, <2>4 DEF Poll
<1>3. CASE \E f \in Numbers : Reset(f)
  BY <1>3, ResetStep
<1>4. CASE Tick
  BY <1>4, TickStep
<1>5. CASE UNCHANGED vars
  <2>1. /\ UNCHANGED <<state, started, expected, slots, bytes, pending, gap_age,
                       time_left, attempts, recovery_end, stats, request>>
        /\ UNCHANGED <<first, delivered, resets>>
    BY <1>5 DEF vars, recovery, history
  <2>2. /\ TypeOK /\ NotStarted /\ WindowExact /\ Passed /\ CompleteUnlessStale
        /\ GapsBalance /\ StateMatchesWindow /\ RequestIsExact
    BY DEF IInv
  <2>3. TypeOK' /\ NotStarted' /\ WindowExact' /\ Passed'
    BY <2>1, <2>2 DEF TypeOK, NotStarted, WindowExact, Passed
  <2>4. CompleteUnlessStale' /\ GapsBalance' /\ StateMatchesWindow' /\ RequestIsExact'
    BY <2>1, <2>2
      DEF CompleteUnlessStale, GapsBalance, StateMatchesWindow, RequestIsExact, Held
  <2> QED BY <2>3, <2>4 DEF IInv
<1> QED BY <1>1, <1>2, <1>3, <1>4, <1>5 DEF Next

\* IInv holds of every behaviour of the arbitrator.
THEOREM InductiveInvariant == Spec => []IInv
BY InitHolds, StepHolds, PTL DEF Spec

\* Every variable keeps its type: in particular pending_ never wraps below
\* zero and no more than max_recovery_attempts requests are made for a hole.
THEOREM TypeCorrect == Spec => []TypeOK
<1>1. IInv => TypeOK
  BY DEF IInv
<1> QED BY <1>1, InductiveInvariant, PTL

\* Downstream sees strictly increasing sequences, each with its own payload.
THEOREM StreamIsOrdered == Spec => [](StrictlyIncreasing /\ Intact)
<1>1. IInv => StrictlyIncreasing /\ Intact
  BY DEF IInv, Passed, Feed, StrictlyIncreasing, Intact
<1> QED BY <1>1, InductiveInvariant, PTL

\* The ring holds exactly what pending_ counts, within one window of the front.
THEOREM WindowIsExactAlways == Spec => []WindowExact
<1>1. IInv => WindowExact
  BY DEF IInv
<1> QED BY <1>1, InductiveInvariant, PTL

\* A feed that does not say Stale has lost nothing.
THEOREM NothingIsLostSilently == Spec => []CompleteUnlessStale
<1>1. IInv => CompleteUnlessStale
  BY DEF IInv
<1> QED BY <1>1, InductiveInvariant, PTL

\* The state the feed reports is the state its window is in, and a gap is
\* counted recovered no more often than it was counted detected.
THEOREM StateIsTrue == Spec => [](StateMatchesWindow /\ GapsBalance)
<1>1. IInv => StateMatchesWindow /\ GapsBalance
  BY DEF IInv
<1> QED BY <1>1, InductiveInvariant, PTL

\* A request names exactly the run that is missing at the front.
THEOREM RequestsAreExact == Spec => []RequestIsExact
<1>1. IInv => RequestIsExact
  BY DEF IInv
<1> QED BY <1>1, InductiveInvariant, PTL

-----------------------------------------------------------------------------
(***************************************************************************)
(* What the steps do, which no invariant says: none throws away a message  *)
(* the window holds, none moves the front past a sequence no counter       *)
(* accounts for, and each is a step of the ordered feed the order book is  *)
(* promised (OrderedFeed, through the mapping of Downstream), or changes   *)
(* nothing there.                                                          *)
(***************************************************************************)

\* The sequences a feed names.
Named(q) == {q[i].seq : i \in DOMAIN q}

\* What is handed over includes everything held of the range.
LEMMA ReleaseCovers ==
  ASSUME Window, NEW lo \in Nat, NEW hi \in Nat
  PROVE  Between(lo, hi) \subseteq Named(Release(lo, hi))
<1> DEFINE S == Between(lo, hi)
           run == InOrderOf(S)
<1>1. /\ S \in SUBSET Nat /\ IsFiniteSet(S) /\ Cardinality(S) \in Nat
      /\ \A n \in S : n <= hi
  BY BetweenFacts
<1>2. /\ DOMAIN Release(lo, hi) = 1 .. Cardinality(S)
      /\ \A i \in 1 .. Cardinality(S) : Release(lo, hi)[i].seq = run[i]
  BY DEF Release, Message
<1> HIDE DEF S
<1>3. ASSUME NEW n \in S PROVE \E i \in 1 .. Cardinality(S) : run[i] = n
  <2> DEFINE i == Rank(n, S)
             U == {m \in S : m <= n}
  <2>1. /\ IsFiniteSet(U) /\ i \in Nat /\ i <= Cardinality(S)
    BY <1>1, RankFacts
  <2>2. n \in U
    BY <1>1
  <2>3. i # 0
    BY <2>1, <2>2, FS_EmptySet DEF Rank
  <2>4. i \in 1 .. Cardinality(S)
    BY <1>1, <2>1, <2>3
  <2>5. run[i] \in S /\ Rank(run[i], S) = i
    BY <1>1, <2>4, InOrderOfFacts
  <2> HIDE DEF i
  <2>6. ~ (run[i] < n) /\ ~ (n < run[i])
    <3>1. run[i] < n => Rank(run[i], S) < Rank(n, S)
      BY <1>1, <2>5, RankGrows
    <3>2. n < run[i] => Rank(n, S) < Rank(run[i], S)
      BY <1>1, <2>5, RankGrows
    <3> QED BY <2>1, <2>5, <3>1, <3>2 DEF i
  <2>7. run[i] \in Nat /\ n \in Nat
    BY <1>1, <2>5
  <2> QED BY <2>4, <2>6, <2>7
<1>4. ASSUME NEW n \in S PROVE n \in Named(Release(lo, hi))
  <2>1. PICK i \in 1 .. Cardinality(S) : run[i] = n
    BY <1>3
  <2> HIDE DEF run
  <2>2. i \in DOMAIN Release(lo, hi) /\ Release(lo, hi)[i].seq = n
    BY <1>2, <2>1
  <2> QED BY <2>2 DEF Named
<1> QED BY <1>4 DEF S

\* Two feeds end to end name what each of them names.
LEMMA NamedJoins ==
  ASSUME NEW p \in Seq(Deliverable), NEW q \in Seq(Deliverable)
  PROVE  /\ p \o q \in Seq(Deliverable)
         /\ Len(p \o q) = Len(p) + Len(q)
         /\ Named(p) \subseteq Named(p \o q) /\ Named(q) \subseteq Named(p \o q)
<1> DEFINE r == p \o q
<1>1. /\ r \in Seq(Deliverable) /\ Len(r) = Len(p) + Len(q)
      /\ Len(p) \in Nat /\ Len(q) \in Nat
      /\ DOMAIN p = 1 .. Len(p) /\ DOMAIN q = 1 .. Len(q) /\ DOMAIN r = 1 .. Len(r)
  OBVIOUS
<1>2. /\ \A i \in 1 .. Len(p) : r[i] = p[i]
      /\ \A i \in 1 .. Len(q) : r[Len(p) + i] = q[i]
  OBVIOUS
<1> HIDE DEF r
<1>3. ASSUME NEW i \in DOMAIN p PROVE i \in DOMAIN r /\ r[i].seq = p[i].seq
  BY <1>1, <1>2
<1>4. ASSUME NEW i \in DOMAIN q
      PROVE  Len(p) + i \in DOMAIN r /\ r[Len(p) + i].seq = q[i].seq
  BY <1>1, <1>2
<1>5. Named(p) \subseteq Named(r) /\ Named(q) \subseteq Named(r)
  BY <1>3, <1>4, ZenonT(30) DEF Named
<1> QED BY <1>1, <1>5 DEF r

\* A message held when the front moves to hi is passed on the way, or stays.
LEMMA PassedOrKept ==
  ASSUME Window, NEW lo \in Nat, NEW hi \in Nat,
         lo <= expected + 1 \/ pending = 0, expected <= hi, ~ Present(hi),
         NEW h \in Held
  PROVE  \/ h \in Between(lo, hi)
         \/ \E i \in Index : /\ slots[i].present /\ slots[i].seq = h
                             /\ Vacate(lo, hi)[i].present
                             /\ Vacate(lo, hi)[i].seq = h
<1>1. PICK i \in Index : slots[i].present /\ slots[i].seq = h
  BY DEF Held
<1>2. h \in Nat /\ Present(h)
  BY <1>1, HeldFacts
<1>3. expected \in Nat /\ h > expected
  BY <1>2, PresentFacts DEF Window
<1>4. pending # 0
  <2>1. Cardinality(InUse(slots)) # 0
    BY <1>1, InUseFacts
  <2> QED BY <2>1 DEF Window
<1>5. CASE h > hi
  BY <1>1, <1>5, VacateFacts
<1>6. CASE ~ (h > hi)
  <2>1. h # hi
    BY <1>2
  <2>2. h \in lo .. hi - 1
    BY <1>2, <1>3, <1>4, <1>6, <2>1
  <2> QED BY <1>2, <2>2 DEF Between
<1> QED BY <1>5, <1>6

\* The same for the ring as the step leaves it.
LEMMA MovedOrKept ==
  ASSUME Window, NEW lo \in Nat, NEW hi \in Nat,
         lo <= expected + 1 \/ pending = 0, expected <= hi, ~ Present(hi),
         slots' = Vacate(lo, hi), Between(lo, hi) \subseteq Delivered'
  PROVE  Held \subseteq Held' \cup Delivered'
<1> SUFFICES ASSUME NEW h \in Held, h \notin Between(lo, hi) PROVE h \in Held'
  OBVIOUS
<1>1. PICK i \in Index : Vacate(lo, hi)[i].present /\ Vacate(lo, hi)[i].seq = h
  BY PassedOrKept
<1> QED BY <1>1 DEF Held

\* The sequences delivered, read off the stream.
LEMMA DeliveredIsNamed == Delivered = Named(delivered) /\ Delivered' = Named(delivered')
BY DEF Delivered, Named

\* What went downstream is a sequence of messages.
LEMMA DeliveredIsSequence ==
  ASSUME IInv
  PROVE  delivered \in Seq(Deliverable)
<1>1. Feed(delivered, first, expected)
  BY Facts
<1> QED BY <1>1 DEF Feed

\* What HeldIsDelivered asks of a step.
HeldOrDelivered == Held \subseteq Held' \cup Delivered'

\* A message at the front, and the drain behind it, lose nothing that was held.
LEMMA InOrderKeeps ==
  ASSUME IInv, NEW source, NEW s \in Numbers, InOrder(source, s)
  PROVE  HeldOrDelivered
<1> DEFINE end == DrainEnd(s + 1)
           out == Release(s + 1, end)
           one == <<Message(s, s)>>
<1> HIDE DEF end, out, one
<1>0. /\ s \in Nat /\ s + 1 \in Nat /\ Window /\ expected \in Nat
      /\ delivered \in Seq(Deliverable)
  <2>1. s \in Nat
    BY Facts
  <2>2. Window /\ expected \in Nat
    BY Facts
  <2> QED BY <2>1, <2>2, DeliveredIsSequence
<1> USE DEF end, out, one
<1>1. /\ s = Front(s) /\ slots' = Vacate(s, end)
      /\ delivered' = (delivered \o one) \o out
  BY DEF InOrder
<1>2. (s = expected \/ pending = 0) /\ s >= expected
  BY <1>0, <1>1 DEF Front, IInv, NotStarted
<1>3. end \in Nat /\ s + 1 <= end /\ ~ Present(end)
  <2>1. s + 1 >= expected
    BY <1>0, <1>2
  <2> QED BY <1>0, <2>1, DrainEndFacts
<1> HIDE DEF end
<1>4. out \in Seq(Deliverable) /\ one \in Seq(Deliverable)
  BY <1>0, <1>3, ReleaseFacts, SmallFeeds DEF Feed
<1>5. Between(s + 1, end) \subseteq Named(out)
  BY <1>0, <1>3, ReleaseCovers
<1>6. ~ Present(s)
  <2>1. CASE s = expected
    BY <2>1, <1>0, FrontIsAbsent
  <2>2. CASE pending = 0
    <3>1. Cardinality(InUse(slots)) = 0
      BY <2>2, <1>0 DEF Window
    <3>2. \A i \in Index : ~ slots[i].present
      BY <3>1, InUseFacts
    <3> QED BY <1>0, <3>2, PresentFacts
  <2> QED BY <1>2, <2>1, <2>2
<1>7. Between(s, end) = Between(s + 1, end)
  <2>1. \A n \in s .. (s + 1) - 1 : ~ Present(n)
    BY <1>0, <1>6
  <2>2. s <= s + 1
    BY <1>0
  <2> QED BY <1>0, <1>3, <2>1, <2>2, BetweenSkips
<1> HIDE DEF out, one
<1>8. Between(s, end) \subseteq Delivered'
  <2>1. delivered \o one \in Seq(Deliverable)
    BY <1>0, <1>4, NamedJoins
  <2>2. Named(out) \subseteq Named(delivered')
    BY <1>1, <1>4, <2>1, NamedJoins
  <2> QED BY <1>5, <1>7, <2>2, DeliveredIsNamed
<1>9. s <= expected + 1 \/ pending = 0
  BY <1>0, <1>2
<1>10. expected <= end
  BY <1>0, <1>2, <1>3
<1> QED BY <1>0, <1>1, <1>3, <1>8, <1>9, <1>10, MovedOrKept DEF HeldOrDelivered

\* A message that is held, after a slide if it overflows the window, loses nothing.
LEMMA HoldKeeps ==
  ASSUME IInv, NEW source, NEW s \in Numbers, Hold(source, s)
  PROVE  HeldOrDelivered
<1> DEFINE e == Slid(s)
           out == Release(expected, e)
           v == Vacate(expected, e)
           k == s % Cap
<1>0. /\ s \in Nat /\ Window /\ expected \in Nat /\ delivered \in Seq(Deliverable)
      /\ expected <= expected + 1
  BY Facts, DeliveredIsSequence
<1>1. /\ Ahead(s) /\ ~ Jumps(s) /\ e # s
      /\ slots' = [v EXCEPT ![k] = [seq |-> s, present |-> TRUE]]
      /\ delivered' = delivered \o out
  BY DEF Hold
<1>2. e \in Nat /\ expected <= e /\ ~ Present(e) /\ e <= s /\ s < e + Cap
  BY <1>0, <1>1, SlideFacts
<1> HIDE DEF e
<1>3. out \in Seq(Deliverable) /\ Between(expected, e) \subseteq Named(out)
  BY <1>0, <1>2, ReleaseFacts, ReleaseCovers DEF Feed
<1>4. Between(expected, e) \subseteq Delivered'
  <2> HIDE DEF out
  <2>1. Named(out) \subseteq Named(delivered')
    BY <1>0, <1>1, <1>3, NamedJoins
  <2> QED BY <1>3, <2>1, DeliveredIsNamed
<1>5. k \in Index /\ ~ v[k].present
  <2>1. /\ v \in [Index -> Slot] /\ WindowAt(v, bytes, e)
        /\ \A i \in Index : v[i].seq = slots[i].seq
                            /\ (v[i].present => slots[i].present)
    BY <1>0, <1>2, VacateFacts
  <2>2. \A i \in Index : v[i].present => v[i].seq # s
    <3>1. ~ Present(s)
      BY <1>1 DEF Ahead
    <3> QED BY <1>0, <2>1, <3>1, HeldFacts
  <2>3. e < s
    BY <1>0, <1>1, <1>2
  <2> HIDE DEF v
  <2> QED BY <1>0, <1>2, <2>1, <2>2, <2>3, SlotIsFree
<1>6. v \in [Index -> Slot]
  BY <1>0, <1>2, VacateFacts
<1> SUFFICES ASSUME NEW h \in Held, h \notin Between(expected, e)
             PROVE  h \in Held'
  BY <1>4 DEF HeldOrDelivered
<1>7. PICK i \in Index : v[i].present /\ v[i].seq = h
  BY <1>0, <1>2, PassedOrKept
<1> HIDE DEF v
<1>8. slots'[i] = v[i]
  BY <1>1, <1>5, <1>6, <1>7
<1> QED BY <1>7, <1>8 DEF Held

\* A payload that no slot can hold takes nothing else with it.
LEMMA TooWideKeeps ==
  ASSUME IInv, NEW s \in Numbers, TooWide(s)
  PROVE  HeldOrDelivered
<1> DEFINE e == Slid(s)
           out == Release(expected, e)
<1>0. /\ s \in Nat /\ Window /\ expected \in Nat /\ delivered \in Seq(Deliverable)
      /\ expected <= expected + 1
  BY Facts, DeliveredIsSequence
<1>1. /\ Ahead(s) /\ ~ Jumps(s) /\ slots' = Vacate(expected, e)
      /\ delivered' = delivered \o out
  BY DEF TooWide
<1>2. e \in Nat /\ expected <= e /\ ~ Present(e)
  BY <1>0, <1>1, SlideFacts
<1> HIDE DEF e
<1>3. out \in Seq(Deliverable) /\ Between(expected, e) \subseteq Named(out)
  BY <1>0, <1>2, ReleaseFacts, ReleaseCovers DEF Feed
<1> HIDE DEF out
<1>4. Between(expected, e) \subseteq Delivered'
  <2>1. Named(out) \subseteq Named(delivered')
    BY <1>0, <1>1, <1>3, NamedJoins
  <2> QED BY <1>3, <2>1, DeliveredIsNamed
<1> QED BY <1>0, <1>1, <1>2, <1>4, MovedOrKept DEF HeldOrDelivered

\* A message the slide drained up to loses nothing that was held.
LEMMA CatchUpKeeps ==
  ASSUME IInv, NEW s \in Numbers, CatchUp(s)
  PROVE  HeldOrDelivered
<1> DEFINE end == DrainEnd(s + 1)
           before == Release(expected, s)
           after == Release(s + 1, end)
           one == <<Message(s, s)>>
<1>0. /\ s \in Nat /\ s + 1 \in Nat /\ Window /\ expected \in Nat
      /\ delivered \in Seq(Deliverable) /\ expected <= expected + 1
  <2>1. s \in Nat /\ Window /\ expected \in Nat /\ delivered \in Seq(Deliverable)
    BY Facts, DeliveredIsSequence
  <2> QED BY <2>1
<1>1. /\ Ahead(s) /\ slots' = Vacate(expected, end)
      /\ delivered' = ((delivered \o before) \o one) \o after
  BY DEF CatchUp
<1>2. expected < s /\ ~ Present(s)
  BY <1>1 DEF Ahead
<1>3. end \in Nat /\ s + 1 <= end /\ ~ Present(end) /\ expected <= end
  <2>1. s + 1 >= expected
    BY <1>0, <1>2
  <2>2. end \in Nat /\ s + 1 <= end /\ ~ Present(end)
    BY <1>0, <2>1, DrainEndFacts
  <2> HIDE DEF end
  <2> QED BY <1>0, <1>2, <2>2
<1> HIDE DEF end
<1>4. /\ before \in Seq(Deliverable) /\ after \in Seq(Deliverable) /\ one \in Seq(Deliverable)
      /\ Between(expected, s) \subseteq Named(before)
      /\ Between(s + 1, end) \subseteq Named(after)
  BY <1>0, <1>3, ReleaseFacts, ReleaseCovers, SmallFeeds DEF Feed
<1> HIDE DEF before, after, one
<1>5. Between(expected, end) \subseteq Between(expected, s) \cup Between(s + 1, end)
  <2> SUFFICES ASSUME NEW n \in Between(expected, end), n \notin Between(s + 1, end)
               PROVE  n \in Between(expected, s)
    OBVIOUS
  <2>1. n \in expected .. end - 1 /\ Present(n) /\ n # s
    BY <1>2 DEF Between
  <2>2. n \notin s + 1 .. end - 1
    BY <2>1 DEF Between
  <2> QED BY <1>0, <1>3, <2>1, <2>2 DEF Between
<1>6. Between(expected, end) \subseteq Delivered'
  <2>1. /\ delivered \o before \in Seq(Deliverable)
        /\ Named(before) \subseteq Named(delivered \o before)
    BY <1>0, <1>4, NamedJoins
  <2>2. /\ (delivered \o before) \o one \in Seq(Deliverable)
        /\ Named(delivered \o before) \subseteq Named((delivered \o before) \o one)
    BY <1>4, <2>1, NamedJoins
  <2>3. /\ Named((delivered \o before) \o one) \subseteq Named(delivered')
        /\ Named(after) \subseteq Named(delivered')
    BY <1>1, <1>4, <2>2, NamedJoins
  <2> QED BY <1>4, <1>5, <2>1, <2>2, <2>3, DeliveredIsNamed
<1> QED BY <1>0, <1>1, <1>3, <1>6, MovedOrKept DEF HeldOrDelivered

\* Giving up a gap loses nothing that was held behind it.
LEMMA SkipHoleKeeps ==
  ASSUME IInv, SkipHole
  PROVE  HeldOrDelivered
<1> DEFINE run == MissingRun
           target == expected + run
           end == DrainEnd(target)
           out == Release(target, end)
<1>0. /\ Window /\ expected \in Nat /\ delivered \in Seq(Deliverable)
      /\ expected <= expected + 1 /\ Cap \in Nat
  BY Facts, DeliveredIsSequence
<1>1. slots' = Vacate(expected, end) /\ delivered' = delivered \o out
  BY DEF SkipHole
<1>2. run \in Nat /\ \A n \in expected .. expected + run - 1 : ~ Present(n)
  BY <1>0, MissingRunFacts
<1> HIDE DEF run
<1>3. target \in Nat /\ expected <= target
  BY <1>0, <1>2
<1> HIDE DEF target
<1>4. \A n \in expected .. target - 1 : ~ Present(n)
  BY <1>0, <1>2 DEF target
<1>5. end \in Nat /\ target <= end /\ ~ Present(end)
  <2>1. target >= expected
    BY <1>0, <1>3
  <2> QED BY <1>0, <1>3, <2>1, DrainEndFacts
<1> HIDE DEF end
<1>6. out \in Seq(Deliverable) /\ Between(target, end) \subseteq Named(out)
  BY <1>0, <1>3, <1>5, ReleaseFacts, ReleaseCovers DEF Feed
<1> HIDE DEF out
<1>7. Between(expected, end) = Between(target, end)
  BY <1>0, <1>3, <1>4, <1>5, BetweenSkips
<1>8. Between(expected, end) \subseteq Delivered'
  <2>1. Named(out) \subseteq Named(delivered')
    BY <1>0, <1>1, <1>6, NamedJoins
  <2> QED BY <1>6, <1>7, <2>1, DeliveredIsNamed
<1>9. expected <= end
  BY <1>0, <1>3, <1>5
<1> QED BY <1>0, <1>1, <1>5, <1>8, <1>9, MovedOrKept DEF HeldOrDelivered

\* A jump is a message that moves the front by two windows or more.
LEMMA JumpIsFar ==
  ASSUME IInv, NEW s \in Numbers, Jump(s)
  PROVE  expected' - expected >= 2 * Cap
<1>0. s \in Nat /\ expected \in Nat /\ Cap \in Nat \ {0}
  BY Facts
<1>1. Ahead(s) /\ Jumps(s) /\ expected' = s + 1
  BY DEF Jump
<1>2. Overflows(s)
  BY <1>0, <1>1 DEF Jumps, Target
<1>3. s - (Cap - 1) - expected >= Cap
  BY <1>1, <1>2 DEF Jumps, Target
<1> QED BY <1>0, <1>1, <1>3

\* No step short of a resynchronisation loses what was held.
LEMMA NothingHeldIsLost ==
  ASSUME IInv, [Next]_vars, resets' = resets, expected' - expected < 2 * Cap
  PROVE  HeldOrDelivered
<1>1. CASE slots' = slots
  BY <1>1 DEF HeldOrDelivered, Held
<1>2. ASSUME NEW source \in Source, NEW s \in Numbers, Ingest(source, s) PROVE HeldOrDelivered
  <2>1. ~ Jump(s)
    <3> SUFFICES ASSUME Jump(s) PROVE FALSE
      OBVIOUS
    <3>1. expected' - expected >= 2 * Cap
      BY JumpIsFar
    <3>2. s + 1 \in Nat /\ expected \in Nat /\ Cap \in Nat
      <4>1. s \in Nat /\ expected \in Nat /\ Cap \in Nat
        BY Facts
      <4> QED BY <4>1
    <3>3. expected' = s + 1
      BY DEF Jump
    <3> QED BY <3>1, <3>2, <3>3
  <2> QED BY <1>2, <2>1, InOrderKeeps, HoldKeeps, TooWideKeeps, CatchUpKeeps DEF Ingest
<1>3. CASE PollGiveUp \/ PollStepOver
  BY <1>3, SkipHoleKeeps DEF PollGiveUp, PollStepOver
<1>4. ASSUME NEW f \in Numbers, Reset(f) PROVE FALSE
  <2>1. resets \in Nat /\ resets' = resets + 1
    BY <1>4, Facts, SequencerAssumption DEF Reset
  <2> QED BY <2>1
<1> QED BY <1>1, <1>2, <1>3, <1>4
    DEF Next, Poll, PollAsk, PollRetry, Tick, vars

\* "Skipping the least possible is what keeps a message that was already
\* received from being thrown away": skip_to and skip_hole drop only what was
\* never received, unless one message moves the front by two windows.
THEOREM ReceivedIsNotDropped == Spec => HeldIsDelivered
<1>1. IInv /\ [Next]_vars
        => [resets' = resets /\ expected' - expected < 2 * Cap
              => Held \subseteq Held' \cup Delivered']_vars
  BY NothingHeldIsLost DEF HeldOrDelivered
<1> QED BY <1>1, InductiveInvariant, PTL DEF Spec, HeldIsDelivered

-----------------------------------------------------------------------------
\* What a sliding front passes was either held, and is handed over, or missing,
\* and is counted.
LEMMA SlideCount ==
  ASSUME IInv, NEW s \in Nat, Ahead(s), ~ Jumps(s)
  PROVE  /\ Cardinality(Between(expected, Slid(s))) \in Nat
         /\ Cardinality(Missing(expected, Target(s))) \in Nat
         /\ Cardinality(Between(expected, Slid(s)))
              + Cardinality(Missing(expected, Target(s))) = Slid(s) - expected
<1> DEFINE e == Slid(s)
           t == Target(s)
           B == Between(expected, e)
           M == Missing(expected, t)
<1>0. Window /\ expected \in Nat
  BY Facts
<1>1. e \in Nat /\ t \in Nat /\ expected <= t /\ t <= e /\ expected <= e
  BY SlideFacts
<1>2. \A n \in t .. e - 1 : Present(n)
  <2>1. CASE Overflows(s)
    <3>1. e = DrainEnd(t)
      BY <2>1 DEF Slid
    <3>2. t >= expected
      BY <1>0, <1>1
    <3> HIDE DEF t
    <3> QED BY <1>0, <1>1, <3>1, <3>2, DrainEndFacts
  <2>2. CASE ~ Overflows(s)
    <3>1. e = expected
      BY <2>2 DEF Slid
    <3> QED BY <1>0, <1>1, <3>1
  <2> QED BY <2>1, <2>2
<1> HIDE DEF e, t
<1>3. IsFiniteSet(B) /\ Cardinality(B) \in Nat
  BY <1>0, <1>1, BetweenFacts
<1>4. IsFiniteSet(M) /\ Cardinality(M) \in Nat
  <2>1. M \in SUBSET Nat /\ \A n \in M : n <= t
    BY <1>0, <1>1 DEF Missing
  <2> HIDE DEF M
  <2>2. IsFiniteSet(M)
    BY <1>1, <2>1, FS_BoundedSetOfNaturals
  <2> QED BY <2>2, FS_CardinalityType
<1>5. B \cup M = expected .. e - 1 /\ B \cap M = {}
  BY <1>0, <1>1, <1>2 DEF Between, Missing
<1> HIDE DEF B, M
<1>6. Cardinality(B \cup M) = Cardinality(B) + Cardinality(M)
  <2>1. Cardinality(B \cup M) = Cardinality(B) + Cardinality(M) - Cardinality(B \cap M)
    BY <1>3, <1>4, FS_Union
  <2>2. Cardinality(B \cap M) = 0
    BY <1>5, FS_EmptySet
  <2> QED BY <1>3, <1>4, <2>1, <2>2
<1>7. Cardinality(expected .. e - 1) = e - expected
  BY <1>0, <1>1, InOrderOfInterval
<1> QED BY <1>3, <1>4, <1>5, <1>6, <1>7 DEF B, M, e, t

\* Length of what the step appended downstream, and what the counters say beyond
\* the progress of the front.
Accounted(extra) ==
  /\ stats'.accepted - stats.accepted = Len(delivered') - Len(delivered)
  /\ (stats'.accepted + stats'.dropped) - (stats.accepted + stats.dropped)
       - (expected' - expected) = extra

\* It suffices to count what was handed over and what was given up.
LEMMA AccountFacts ==
  ASSUME IInv, NEW a \in Nat, NEW d \in Nat, NEW extra \in Nat,
         NEW q \in Seq(Deliverable), Len(q) = a, delivered' = delivered \o q,
         stats'.accepted = stats.accepted + a,
         stats'.dropped = stats.dropped + d,
         expected' \in Nat, expected' - expected = a + d - extra
  PROVE  Accounted(extra)
<1>1. /\ stats.accepted \in Nat /\ stats.dropped \in Nat /\ expected \in Nat
      /\ delivered \in Seq(Deliverable)
  BY Facts, DeliveredIsSequence
<1>2. Len(delivered') = Len(delivered) + a /\ Len(delivered) \in Nat
  BY <1>1, NamedJoins
<1>3. stats'.accepted - stats.accepted = Len(delivered') - Len(delivered)
  BY <1>1, <1>2
<1>4. (stats'.accepted + stats'.dropped) - (stats.accepted + stats.dropped) = a + d
  BY <1>1
<1>5. (a + d) - (expected' - expected) = extra
  <2> DEFINE moved == expected' - expected
  <2>1. moved = a + d - extra
    OBVIOUS
  <2> HIDE DEF moved
  <2>2. (a + d) - moved = extra
    BY <2>1
  <2> QED BY <2>2 DEF moved
<1> QED BY <1>3, <1>4, <1>5 DEF Accounted

\* Three streams joined one after the other.
LEMMA JoinedTwice ==
  ASSUME NEW p \in Seq(Deliverable), NEW q \in Seq(Deliverable), NEW r \in Seq(Deliverable)
  PROVE  (p \o q) \o r = p \o (q \o r)
BY ConcatAssociative, SMTT(30)

\* A message at the front counts as the one delivery it is, and the drain as its own.
LEMMA InOrderCounts ==
  ASSUME IInv, started, NEW source, NEW s \in Numbers, InOrder(source, s)
  PROVE  Accounted(0)
<1> DEFINE end == DrainEnd(s + 1)
           out == Release(s + 1, end)
           one == <<Message(s, s)>>
<1>0. /\ s \in Nat /\ s + 1 \in Nat /\ Window /\ expected \in Nat
      /\ stats \in [Counter -> Nat] /\ delivered \in Seq(Deliverable)
  <2>1. /\ s \in Nat /\ Window /\ expected \in Nat
        /\ stats \in [Counter -> Nat] /\ delivered \in Seq(Deliverable)
    BY Facts, DeliveredIsSequence
  <2> QED BY <2>1
<1>1. /\ s = expected /\ expected' = end
      /\ delivered' = (delivered \o one) \o out
      /\ stats' = [stats EXCEPT
           !.accepted = @ + 1 + Len(out),
           !.recovered = IF Closed \/ Uncovered THEN @ + 1 ELSE @,
           !.detected = IF Uncovered THEN @ + 1 ELSE @]
  BY DEF InOrder, Front
<1>2. end \in Nat /\ s + 1 <= end /\ \A n \in s + 1 .. end - 1 : Present(n)
  <2>1. s + 1 >= expected
    BY <1>0, <1>1
  <2> QED BY <1>0, <2>1, DrainEndFacts
<1> HIDE DEF end
<1>3. /\ out = Whole(s + 1, end) /\ out \in Seq(Deliverable) /\ one \in Seq(Deliverable)
  BY <1>0, <1>2, ReleaseWhole, ReleaseFacts, SmallFeeds DEF Feed
<1>4. Len(out) = end - (s + 1) /\ Len(one) = 1
  BY <1>0, <1>2, <1>3, WholeIsFeed
<1>5. /\ stats'.accepted = stats.accepted + 1 + Len(out)
      /\ stats'.dropped = stats.dropped
      /\ stats.accepted \in Nat /\ stats.dropped \in Nat
  BY <1>0, <1>1 DEF Counter
<1> HIDE DEF out, one
<1>6. /\ one \o out \in Seq(Deliverable) /\ Len(one \o out) = 1 + Len(out)
      /\ delivered' = delivered \o (one \o out)
  <2>1. one \o out \in Seq(Deliverable) /\ Len(one \o out) = Len(one) + Len(out)
    BY <1>3, NamedJoins
  <2>2. (delivered \o one) \o out = delivered \o (one \o out)
    BY <1>0, <1>3, JoinedTwice
  <2> QED BY <1>1, <1>4, <2>1, <2>2
<1> DEFINE a == 1 + Len(out)
           q == one \o out
<1>7. /\ a \in Nat /\ stats'.accepted = stats.accepted + a
      /\ stats'.dropped = stats.dropped + 0
      /\ expected' \in Nat /\ expected' - expected = a + 0 - 0
  <2> DEFINE k == Len(out)
  <2>1. k = end - (s + 1) /\ end \in Nat /\ s \in Nat /\ s + 1 <= end
    BY <1>0, <1>2, <1>4
  <2>2. expected' = end /\ expected = s
    BY <1>1
  <2>3. stats'.accepted = stats.accepted + 1 + k /\ stats.accepted \in Nat
    BY <1>5
  <2>4. stats'.dropped = stats.dropped + 0
    BY <1>5
  <2>5. a = 1 + k
    OBVIOUS
  <2> HIDE DEF a, k
  <2> QED BY <2>1, <2>2, <2>3, <2>4, <2>5
<1>8. q \in Seq(Deliverable) /\ Len(q) = a /\ delivered' = delivered \o q
  BY <1>6
<1> HIDE DEF a, q
<1> QED BY <1>7, <1>8, AccountFacts

\* A message that is held counts what its slide gives up.
LEMMA HoldCounts ==
  ASSUME IInv, NEW source, NEW s \in Numbers, Hold(source, s)
  PROVE  Accounted(0)
<1> DEFINE e == Slid(s)
           out == Release(expected, e)
           lost == Cardinality(Missing(expected, Target(s)))
           alone == pending = Len(out)
<1>0. /\ s \in Nat /\ Window /\ expected \in Nat /\ stats \in [Counter -> Nat]
  BY Facts
<1>1. /\ Ahead(s) /\ ~ Jumps(s) /\ expected' = e /\ delivered' = delivered \o out
      /\ stats' = [stats EXCEPT !.accepted = @ + Len(out), !.dropped = @ + lost,
                                !.detected = IF alone THEN @ + 1 ELSE @]
  BY DEF Hold
<1>2. e \in Nat
  BY <1>0, <1>1, SlideFacts
<1>3. /\ Len(out) = Cardinality(Between(expected, e)) /\ out \in Seq(Deliverable)
  BY <1>0, <1>2, ReleaseFacts DEF Feed
<1>4. Len(out) \in Nat /\ lost \in Nat /\ Len(out) + lost = e - expected
  BY <1>0, <1>1, <1>3, SlideCount
<1> HIDE DEF e, out, lost
<1>5. stats'.accepted = stats.accepted + Len(out) /\ stats'.dropped = stats.dropped + lost
  BY <1>0, <1>1 DEF Counter
<1>6. expected' \in Nat /\ expected' - expected = Len(out) + lost - 0
  BY <1>1, <1>2, <1>4
<1> QED BY <1>1, <1>3, <1>4, <1>5, <1>6, AccountFacts

\* A payload that no slot can hold is counted besides what the front passes.
LEMMA TooWideCounts ==
  ASSUME IInv, NEW s \in Numbers, TooWide(s)
  PROVE  Accounted(1)
<1> DEFINE e == Slid(s)
           out == Release(expected, e)
           lost == Cardinality(Missing(expected, Target(s)))
<1>0. /\ s \in Nat /\ Window /\ expected \in Nat /\ stats \in [Counter -> Nat]
  BY Facts
<1>1. /\ Ahead(s) /\ ~ Jumps(s) /\ expected' = e /\ delivered' = delivered \o out
      /\ stats' = [stats EXCEPT !.accepted = @ + Len(out), !.dropped = @ + lost + 1]
      /\ s \in Wide
  BY DEF TooWide
<1>2. e \in Nat
  BY <1>0, <1>1, SlideFacts
<1>3. /\ Len(out) = Cardinality(Between(expected, e)) /\ out \in Seq(Deliverable)
  BY <1>0, <1>2, ReleaseFacts DEF Feed
<1>4. Len(out) \in Nat /\ lost \in Nat /\ Len(out) + lost = e - expected
  BY <1>0, <1>1, <1>3, SlideCount
<1> HIDE DEF e, out, lost
<1>5. /\ stats'.accepted = stats.accepted + Len(out)
      /\ stats'.dropped = stats.dropped + lost + 1
      /\ stats.dropped \in Nat
  BY <1>0, <1>1 DEF Counter
<1> DEFINE d == lost + 1
<1>6. /\ d \in Nat /\ stats'.dropped = stats.dropped + d
      /\ expected' \in Nat /\ expected' - expected = Len(out) + d - 1
  BY <1>0, <1>1, <1>2, <1>4, <1>5, SMTT(30)
<1> HIDE DEF d
<1> QED BY <1>1, <1>3, <1>4, <1>5, <1>6, AccountFacts

\* Catching up counts both of its releases and what lay between.
LEMMA CatchUpCounts ==
  ASSUME IInv, NEW s \in Numbers, CatchUp(s)
  PROVE  Accounted(0)
<1> DEFINE end == DrainEnd(s + 1)
           before == Release(expected, s)
           after == Release(s + 1, end)
           one == <<Message(s, s)>>
           lost == Cardinality(Missing(expected, Target(s)))
<1>0. /\ s \in Nat /\ s + 1 \in Nat /\ Window /\ expected \in Nat
      /\ stats \in [Counter -> Nat] /\ delivered \in Seq(Deliverable)
  <2>1. /\ s \in Nat /\ Window /\ expected \in Nat
        /\ stats \in [Counter -> Nat] /\ delivered \in Seq(Deliverable)
    BY Facts, DeliveredIsSequence
  <2> QED BY <2>1
<1>1. /\ Ahead(s) /\ ~ Jumps(s) /\ Slid(s) = s /\ expected' = end
      /\ delivered' = ((delivered \o before) \o one) \o after
      /\ stats' = [stats EXCEPT !.accepted = @ + Len(before) + 1 + Len(after),
                                !.dropped = @ + lost]
  BY DEF CatchUp
<1>2. expected < s
  BY <1>1 DEF Ahead
<1>3. end \in Nat /\ s + 1 <= end /\ \A n \in s + 1 .. end - 1 : Present(n)
  <2>1. s + 1 >= expected
    BY <1>0, <1>2
  <2> QED BY <1>0, <2>1, DrainEndFacts
<1> HIDE DEF end
<1>4. /\ before \in Seq(Deliverable) /\ Len(before) = Cardinality(Between(expected, s))
      /\ after \in Seq(Deliverable) /\ after = Whole(s + 1, end) /\ one \in Seq(Deliverable)
  BY <1>0, <1>3, ReleaseFacts, ReleaseWhole, SmallFeeds DEF Feed
<1>5. Len(after) = end - (s + 1) /\ Len(one) = 1
  BY <1>0, <1>3, <1>4, WholeIsFeed
<1>6. Len(before) \in Nat /\ lost \in Nat /\ Len(before) + lost = s - expected
  <2>1. /\ Cardinality(Between(expected, Slid(s))) \in Nat /\ lost \in Nat
        /\ Cardinality(Between(expected, Slid(s))) + lost = Slid(s) - expected
    BY <1>0, <1>1, SlideCount
  <2> QED BY <1>1, <1>4, <2>1
<1> HIDE DEF before, after, one, lost
<1>7. /\ stats'.accepted = stats.accepted + Len(before) + 1 + Len(after)
      /\ stats'.dropped = stats.dropped + lost
      /\ stats.accepted \in Nat
  BY <1>0, <1>1 DEF Counter
<1> DEFINE q == (before \o one) \o after
           a == Len(before) + 1 + Len(after)
<1>8. q \in Seq(Deliverable) /\ Len(q) = a
  <2>1. before \o one \in Seq(Deliverable) /\ Len(before \o one) = Len(before) + 1
    <3>1. before \o one \in Seq(Deliverable) /\ Len(before \o one) = Len(before) + Len(one)
      BY <1>4, NamedJoins
    <3> QED BY <1>5, <3>1
  <2>2. q \in Seq(Deliverable) /\ Len(q) = Len(before \o one) + Len(after)
    BY <1>4, <2>1, NamedJoins
  <2> QED BY <2>1, <2>2
<1>9. delivered' = delivered \o q
  <2>1. (delivered \o before) \o one = delivered \o (before \o one)
    BY <1>0, <1>4, JoinedTwice, ZenonT(30)
  <2>2. before \o one \in Seq(Deliverable)
    BY <1>4, NamedJoins
  <2>3. (delivered \o (before \o one)) \o after = delivered \o q
    BY <1>0, <1>4, <2>2, JoinedTwice, ZenonT(30)
  <2> QED BY <1>1, <2>1, <2>3
<1>10. /\ a \in Nat /\ stats'.accepted = stats.accepted + a
       /\ expected' \in Nat /\ expected' - expected = a + lost - 0
  <2>1. Len(after) \in Nat
    BY <1>0, <1>3, <1>5
  <2>2. a \in Nat /\ stats'.accepted = stats.accepted + a
    BY <1>6, <1>7, <2>1
  <2>3. a + lost = end - expected
    BY <1>0, <1>3, <1>5, <1>6
  <2> HIDE DEF a
  <2> QED BY <1>0, <1>1, <1>3, <1>6, <2>2, <2>3
<1> HIDE DEF q, a
<1> QED BY <1>6, <1>7, <1>8, <1>9, <1>10, AccountFacts

\* A jump counts everything it passes over.
LEMMA JumpCounts ==
  ASSUME IInv, NEW s \in Numbers, Jump(s)
  PROVE  Accounted(0)
<1> DEFINE one == <<Message(s, s)>>
           d == s - expected
<1>0. /\ s \in Nat /\ expected \in Nat /\ stats \in [Counter -> Nat]
      /\ delivered \in Seq(Deliverable)
  BY Facts, DeliveredIsSequence
<1>1. /\ expected < s /\ expected' = s + 1 /\ delivered' = Append(delivered, Message(s, s))
      /\ stats' = [stats EXCEPT !.accepted = @ + 1, !.dropped = @ + (s - expected)]
  BY DEF Jump, Ahead
<1>2. one \in Seq(Deliverable) /\ Len(one) = 1 /\ delivered' = delivered \o one
  <2>1. one \in Seq(Deliverable)
    BY <1>0, SmallFeeds DEF Feed
  <2>2. Message(s, s) \in Deliverable
    BY <1>0 DEF Message, Deliverable
  <2> QED BY <1>0, <1>1, <2>1, <2>2
<1>3. /\ stats'.accepted = stats.accepted + 1 /\ stats'.dropped = stats.dropped + d
  BY <1>0, <1>1 DEF Counter
<1>4. /\ d \in Nat /\ expected' \in Nat /\ expected' - expected = 1 + d - 0
  BY <1>0, <1>1
<1> HIDE DEF d, one
<1> QED BY <1>2, <1>3, <1>4, AccountFacts

\* Giving up a gap counts the run that is missing.
LEMMA SkipHoleCounts ==
  ASSUME IInv, SkipHole
  PROVE  Accounted(0)
<1> DEFINE run == MissingRun
           target == expected + run
           end == DrainEnd(target)
           out == Release(target, end)
<1>0. /\ Window /\ expected \in Nat /\ stats \in [Counter -> Nat] /\ Cap \in Nat
  BY Facts
<1>1. /\ expected' = end /\ delivered' = delivered \o out
      /\ stats' = [stats EXCEPT !.accepted = @ + Len(out), !.dropped = @ + run]
  BY DEF SkipHole
<1>2. run \in Nat
  BY <1>0, MissingRunFacts
<1> HIDE DEF run
<1>3. target \in Nat /\ expected <= target /\ target - expected = run
  BY <1>0, <1>2
<1> HIDE DEF target
<1>4. end \in Nat /\ target <= end /\ \A n \in target .. end - 1 : Present(n)
  <2>1. target >= expected
    BY <1>0, <1>3
  <2> QED BY <1>0, <1>3, <2>1, DrainEndFacts
<1> HIDE DEF end
<1>5. out \in Seq(Deliverable) /\ out = Whole(target, end)
  BY <1>0, <1>3, <1>4, ReleaseFacts, ReleaseWhole DEF Feed
<1>6. Len(out) = end - target
  BY <1>3, <1>4, <1>5, WholeIsFeed
<1> HIDE DEF out
<1>7. stats'.accepted = stats.accepted + Len(out) /\ stats'.dropped = stats.dropped + run
  BY <1>0, <1>1 DEF Counter
<1>8. /\ Len(out) \in Nat /\ expected' \in Nat
      /\ expected' - expected = Len(out) + run - 0
  BY <1>0, <1>1, <1>2, <1>3, <1>4, <1>6
<1> QED BY <1>1, <1>2, <1>5, <1>7, <1>8, AccountFacts

\* Every step accounts for the front's progress, one more when it throws a wide
\* payload away.
LEMMA EveryStepAccounts ==
  ASSUME IInv, [Next]_vars, resets' = resets, started
  PROVE  Accounted(IF \E s \in Wide : TooWide(s) THEN 1 ELSE 0)
<1>0. ASSUME NEW s \in Wide, TooWide(s) PROVE Accounted(1)
  BY <1>0, TooWideCounts, SequencerAssumption
<1> SUFFICES ASSUME ~ \E s \in Wide : TooWide(s) PROVE Accounted(0)
  BY <1>0
<1>1. CASE stats' = stats /\ delivered' = delivered /\ expected' = expected
  <2>1. /\ stats.accepted \in Nat /\ stats.dropped \in Nat /\ expected \in Nat
        /\ delivered \in Seq(Deliverable)
    BY Facts, DeliveredIsSequence
  <2>2. Len(delivered) \in Nat
    BY <2>1
  <2> QED BY <1>1, <2>1, <2>2 DEF Accounted
<1>2. ASSUME NEW source \in Source, NEW s \in Numbers, Ingest(source, s)
      PROVE  Accounted(0)
  <2>1. ~ TooWide(s)
    BY DEF TooWide
  <2> QED BY <1>2, <2>1, InOrderCounts, HoldCounts, CatchUpCounts, JumpCounts
      DEF Ingest
<1>3. CASE PollGiveUp \/ PollStepOver
  BY <1>3, SkipHoleCounts DEF PollGiveUp, PollStepOver
<1>4. ASSUME NEW f \in Numbers, Reset(f) PROVE FALSE
  <2>1. resets \in Nat /\ resets' = resets + 1
    BY <1>4, Facts, SequencerAssumption DEF Reset
  <2> QED BY <2>1
<1> QED BY <1>1, <1>2, <1>3, <1>4
    DEF Next, Poll, PollAsk, PollRetry, Tick, vars, history

-----------------------------------------------------------------------------
\* The abstract module lays a whole range out as the lemmas do.
LEMMA SameWhole ==
  ASSUME NEW lo, NEW hi
  PROVE  Downstream!Whole(lo, hi) = Whole(lo, hi)
BY DEF Downstream!Whole, Downstream!Message, Whole, Message

\* A feed may be seen within a wider range.
LEMMA FeedWidens ==
  ASSUME NEW lo \in Nat, NEW mid \in Nat, NEW hi \in Nat, lo <= mid,
         NEW q, Feed(q, mid, hi)
  PROVE  Feed(q, lo, hi)
<1>1. \A n \in mid .. hi - 1 : n \in lo .. hi - 1
  OBVIOUS
<1> QED BY <1>1 DEF Feed

\* Handing over part of a range and owning up to the rest is GiveUp.
LEMMA GiveUpStep ==
  ASSUME IInv, NEW q, Feed(q, expected, expected'), delivered' = delivered \o q,
         expected' \in Nat, expected <= expected', state' = "Stale",
         started, started' = started
  PROVE  Downstream!GiveUp
<1> DEFINE m == Len(delivered)
           n == Len(q)
           rest == SubSeq(delivered', m + 1, Len(delivered'))
<1>1. delivered \in Seq(Deliverable) /\ q \in Seq(Deliverable) /\ expected \in Nat
  BY Facts, DeliveredIsSequence DEF Feed
<1>2. /\ delivered' \in Seq(Deliverable) /\ Len(delivered') = m + n
      /\ m \in Nat /\ n \in Nat
      /\ \A i \in 1 .. m + n : delivered'[i] = IF i <= m THEN delivered[i] ELSE q[i - m]
  BY <1>1, ConcatProperties, LenProperties
<1>3. SubSeq(delivered', 1, m) = delivered
  <2> DEFINE p == SubSeq(delivered', 1, m)
  <2>1. \A i \in 1 .. m : delivered'[i] \in Deliverable
    BY <1>2, ElementOfSeq
  <2>2. /\ p \in Seq(Deliverable) /\ Len(p) = m
        /\ \A i \in 1 .. m : p[i] = delivered'[i]
    <3>1. Len(p) = m /\ p \in Seq(Deliverable)
      BY <1>2, <2>1
    <3>2. \A i \in 1 .. m : p[i] = delivered'[i]
      BY <1>2
    <3> QED BY <3>1, <3>2
  <2> HIDE DEF p
  <2>3. \A i \in 1 .. Len(p) : p[i] = delivered[i]
    BY <1>2, <2>2
  <2>4. p = delivered
    BY <1>1, <2>2, <2>3, SeqEqual
  <2> QED BY <2>4 DEF p
<1>4. rest = q
  <2>1. \A i \in m + 1 .. m + n : delivered'[i] \in Deliverable
    BY <1>2, ElementOfSeq
  <2>2. rest \in Seq(Deliverable) /\ Len(rest) = n
    BY <1>2, <2>1
  <2>3. \A i \in 1 .. n : rest[i] = delivered'[m + 1 + i - 1]
    BY <1>2
  <2> HIDE DEF rest
  <2>4. ASSUME NEW i \in 1 .. Len(rest) PROVE rest[i] = q[i]
    <3>1. i \in 1 .. n /\ m + 1 + i - 1 = m + i /\ m + i \in 1 .. m + n
          /\ ~ m + i <= m /\ m + i - m = i
      BY <1>2, <2>2
    <3>2. delivered'[m + i] = q[i]
      BY <1>2, <3>1
    <3> QED BY <2>3, <3>1, <3>2
  <2> QED BY <1>1, <2>2, <2>4, SeqEqual
<1>5. Downstream!Partial(rest, expected, expected')
  BY <1>4 DEF Downstream!Partial, Feed
<1>6. Len(delivered') >= m /\ expected' >= expected
  BY <1>1, <1>2
<1> QED BY <1>3, <1>5, <1>6 DEF Downstream!GiveUp

\* A step that leaves the front, the stream and the claim alone is no step.
LEMMA StutterStep ==
  ASSUME started' = started, expected' = expected, delivered' = delivered,
         (state' # "Stale") = (state # "Stale")
  PROVE  UNCHANGED Downstream!vars
BY DEF Downstream!vars

-----------------------------------------------------------------------------
\* The message owed downstream opens a session or continues one.
LEMMA InOrderRefines ==
  ASSUME IInv, NEW source, NEW s \in Numbers, InOrder(source, s)
  PROVE  IF started THEN Downstream!Deliver ELSE Downstream!Join(s)
<1> DEFINE end == DrainEnd(s + 1)
           out == Release(s + 1, end)
           one == <<Message(s, s)>>
<1>0. s \in Nat /\ s + 1 \in Nat /\ Window /\ expected \in Nat /\ started \in BOOLEAN
      /\ delivered \in Seq(Deliverable)
  <2>1. s \in Nat /\ Window /\ expected \in Nat /\ started \in BOOLEAN
        /\ Feed(delivered, first, expected)
    BY Facts
  <2> QED BY <2>1 DEF Feed
<1>1. /\ s = Front(s) /\ first' = (IF started THEN first ELSE s)
      /\ expected' = end /\ delivered' = (delivered \o one) \o out
      /\ Settle(source) /\ started' = TRUE
  BY DEF InOrder
<1>2. (state' # "Stale") = (state # "Stale")
  BY <1>1 DEF Settle, Closed, Uncovered
<1>3. /\ started => s = expected
      /\ ~ started => expected = 0 /\ pending = 0 /\ delivered = << >>
  BY <1>1 DEF Front, IInv, NotStarted
<1>4. /\ end \in Nat /\ s + 1 <= end
      /\ \A n \in s + 1 .. end - 1 : Present(n)
      /\ \A m \in Nat : s + 1 <= m /\ ~ Present(m) => end <= m
  <2>1. s + 1 >= expected
    BY <1>0, <1>3
  <2> QED BY <1>0, <2>1, DrainEndFacts
<1> HIDE DEF end
<1>5. out = Whole(s + 1, end)
  BY <1>0, <1>4, ReleaseWhole
<1>6. one = Whole(s, s + 1)
  BY <1>0, SmallFeeds
<1> HIDE DEF out, one
<1>7. Whole(s, s + 1) \o Whole(s + 1, end) = Whole(s, end)
  <2>1. s <= s + 1
    BY <1>0
  <2> QED BY <1>0, <1>4, <2>1, WholeJoins
<1>8. delivered' = delivered \o Whole(s, end)
  <2>1. one \in Seq(Deliverable) /\ out \in Seq(Deliverable)
    <3>1. s <= s + 1
      BY <1>0
    <3>2. Feed(Whole(s, s + 1), s, s + 1) /\ Feed(Whole(s + 1, end), s + 1, end)
      BY <1>0, <1>4, <3>1, WholeIsFeed
    <3> QED BY <1>5, <1>6, <3>2 DEF Feed
  <2>2. (delivered \o one) \o out = delivered \o (one \o out)
    BY <1>0, <2>1, ConcatAssociative
  <2> QED BY <1>1, <1>5, <1>6, <1>7, <2>2
<1>9. CASE started
  <2>1. s = expected /\ expected' > expected
    BY <1>0, <1>1, <1>3, <1>4, <1>9
  <2>2. delivered' = delivered \o Downstream!Whole(expected, expected')
    BY <1>1, <1>8, <2>1, SameWhole
  <2>3. Downstream!Deliver
    BY <1>1, <1>2, <1>9, <2>1, <2>2 DEF Downstream!Deliver
  <2> QED BY <1>9, <2>3
<1>10. CASE ~ started
  <2>1. ~ Present(s + 1)
    <3> SUFFICES ASSUME Present(s + 1) PROVE FALSE
      OBVIOUS
    <3> DEFINE n == s + 1
    <3>1. n \in Nat /\ Present(n)
      BY <1>0
    <3> HIDE DEF n
    <3>2. (n % Cap) \in Index /\ slots[(n % Cap)].present
      BY <1>0, <3>1, PresentFacts
    <3>3. Cardinality(InUse(slots)) = 0
      BY <1>0, <1>3, <1>10 DEF Window
    <3>4. \A i \in Index : ~ slots[i].present
      BY <3>3, InUseFacts
    <3> QED BY <3>2, <3>4
  <2>2. end = s + 1
    BY <1>0, <1>4, <2>1
  <2>3. delivered = << >> /\ expected = 0
    BY <1>3, <1>10
  <2>4. Whole(s, s + 1) \in Seq(Deliverable)
    <3>1. s <= s + 1
      BY <1>0
    <3> QED BY <1>0, <3>1, WholeIsFeed DEF Feed
  <2>5. delivered' = Downstream!Whole(s, s + 1) /\ expected' = s + 1
    BY <1>1, <1>8, <2>2, <2>3, <2>4, ConcatEmptySeq, SameWhole
  <2>6. Downstream!Join(s)
    BY <1>1, <1>2, <1>10, <2>5 DEF Downstream!Join
  <2> QED BY <1>10, <2>6
<1> QED BY <1>0, <1>9, <1>10

\* What a slide hands over is part of what it gives up.
LEMMA SlideRefines ==
  ASSUME IInv, NEW s \in Numbers, Ahead(s), ~ Jumps(s), expected' = Slid(s),
         started' = started,
         delivered' = delivered \o Release(expected, Slid(s)),
         IF Overflows(s) THEN EnterStale ELSE (state' # "Stale") = (state # "Stale")
  PROVE  Downstream!GiveUp \/ UNCHANGED Downstream!vars
<1>0. s \in Nat /\ expected \in Nat
  BY Facts
<1>1. /\ Slid(s) \in Nat /\ expected <= Slid(s)
      /\ ~ Overflows(s) => Slid(s) = expected
  BY <1>0, SlideFacts
<1>2. /\ Feed(Release(expected, Slid(s)), expected, Slid(s))
      /\ ~ Overflows(s) => delivered \o Release(expected, Slid(s)) = delivered
  BY <1>0, SlideReleases
<1>3. CASE Overflows(s)
  <2>1. state' = "Stale" /\ started
    BY <1>3 DEF EnterStale, Ahead
  <2>2. Downstream!GiveUp
    BY <1>1, <1>2, <2>1, GiveUpStep
  <2> QED BY <2>2
<1>4. CASE ~ Overflows(s)
  <2>1. started' = started /\ expected' = expected /\ delivered' = delivered
        /\ (state' # "Stale") = (state # "Stale")
    BY <1>1, <1>2, <1>4
  <2> QED BY <2>1, StutterStep
<1> QED BY <1>3, <1>4

\* Holding a message hands over only what the slide passes.
LEMMA HoldRefines ==
  ASSUME IInv, NEW source, NEW s \in Numbers, Hold(source, s)
  PROVE  Downstream!GiveUp \/ UNCHANGED Downstream!vars
<1>1. /\ Ahead(s) /\ ~ Jumps(s) /\ expected' = Slid(s) /\ started' = started
      /\ delivered' = delivered \o Release(expected, Slid(s))
      /\ IF Overflows(s) THEN EnterStale
                         ELSE state' = (IF state = "Synced" THEN "Gap" ELSE state)
  BY DEF Hold
<1>2. IF Overflows(s) THEN EnterStale ELSE (state' # "Stale") = (state # "Stale")
  BY <1>1
<1> QED BY <1>1, <1>2, SlideRefines

\* A payload too wide to hold hands over only what the slide passes.
LEMMA TooWideRefines ==
  ASSUME IInv, NEW s \in Numbers, TooWide(s)
  PROVE  Downstream!GiveUp \/ UNCHANGED Downstream!vars
<1>1. /\ Ahead(s) /\ ~ Jumps(s) /\ expected' = Slid(s) /\ started' = started
      /\ delivered' = delivered \o Release(expected, Slid(s))
      /\ IF Overflows(s) THEN EnterStale ELSE state' = state
  BY DEF TooWide
<1>2. IF Overflows(s) THEN EnterStale ELSE (state' # "Stale") = (state # "Stale")
  BY <1>1
<1> QED BY <1>1, <1>2, SlideRefines

\* A slide that drains up to the message gives up what was missing before it.
LEMMA CatchUpRefines ==
  ASSUME IInv, NEW s \in Numbers, CatchUp(s)
  PROVE  Downstream!GiveUp
<1> DEFINE end == DrainEnd(s + 1)
           before == Release(expected, s)
           after == Release(s + 1, end)
           one == <<Message(s, s)>>
<1>0. s \in Nat /\ s + 1 \in Nat /\ s <= s + 1 /\ Window /\ expected \in Nat
      /\ Feed(delivered, first, expected)
  BY Facts
<1>1. /\ expected' = end /\ delivered' = ((delivered \o before) \o one) \o after
      /\ state' = "Stale" /\ expected < s /\ started /\ started' = started
  BY DEF CatchUp, Ahead, EnterStale
<1>2. end \in Nat /\ s + 1 <= end
  <2>1. s + 1 >= expected
    BY <1>0, <1>1
  <2> QED BY <1>0, <2>1, DrainEndFacts
<1> HIDE DEF end
<1>3. /\ Feed(before, expected, s) /\ Feed(one, s, s + 1) /\ Feed(after, s + 1, end)
  BY <1>0, <1>2, ReleaseFacts, SmallFeeds
<1> HIDE DEF before, after, one
<1>4. Feed((before \o one) \o after, expected, end)
  <2>1. expected <= s /\ expected <= s + 1
    BY <1>0, <1>1
  <2>2. Feed(before \o one, expected, s + 1)
    BY <1>0, <1>3, <2>1, FeedJoins
  <2> QED BY <1>0, <1>2, <1>3, <2>1, <2>2, FeedJoins
<1>5. delivered' = delivered \o ((before \o one) \o after)
  <2>1. /\ delivered \in Seq(Deliverable) /\ before \in Seq(Deliverable)
        /\ one \in Seq(Deliverable) /\ after \in Seq(Deliverable)
    BY <1>0, <1>3 DEF Feed
  <2>2. (delivered \o before) \o one = delivered \o (before \o one)
    BY <2>1, ConcatAssociative
  <2> DEFINE q == before \o one
  <2>3. q \in Seq(Deliverable)
    BY <2>1, ConcatProperties
  <2> HIDE DEF q
  <2>4. (delivered \o q) \o after = delivered \o (q \o after)
    BY <2>1, <2>3, ConcatAssociative, SMTT(30)
  <2> QED BY <1>1, <2>2, <2>4 DEF q
<1>6. expected <= end
  BY <1>0, <1>1, <1>2
<1>7. Downstream!GiveUp
  BY <1>1, <1>2, <1>4, <1>5, <1>6, GiveUpStep
<1> QED BY <1>7

\* A jump gives up everything up to the message but what was held.
LEMMA JumpRefines ==
  ASSUME IInv, NEW s \in Numbers, Jump(s)
  PROVE  Downstream!GiveUp
<1> DEFINE one == <<Message(s, s)>>
<1>0. s \in Nat /\ s + 1 \in Nat /\ expected \in Nat /\ Feed(delivered, first, expected)
  BY Facts
<1>1. /\ expected' = s + 1 /\ delivered' = Append(delivered, Message(s, s))
      /\ state' = "Stale" /\ expected < s /\ started /\ started' = started
  BY DEF Jump, Ahead, EnterStale
<1>2. Feed(one, s, s + 1)
  BY <1>0, SmallFeeds
<1>3. delivered' = delivered \o one
  BY <1>0, <1>1 DEF Feed, Message, Deliverable
<1> HIDE DEF one
<1>4. expected <= s /\ expected <= s + 1
  BY <1>0, <1>1
<1>5. Feed(one, expected, s + 1)
  BY <1>0, <1>2, <1>4, FeedWidens
<1>6. Downstream!GiveUp
  BY <1>0, <1>1, <1>3, <1>4, <1>5, GiveUpStep
<1> QED BY <1>6

\* Stepping over a hole hands over what was stuck behind it and owns up.
LEMMA SkipHoleRefines ==
  ASSUME IInv, SkipHole, state' = "Stale", started
  PROVE  Downstream!GiveUp
<1> DEFINE run == MissingRun
           target == expected + run
           end == DrainEnd(target)
           out == Release(target, end)
<1>0. Window /\ expected \in Nat /\ Cap \in Nat
  BY Facts
<1>1. expected' = end /\ delivered' = delivered \o out /\ started' = started
  BY DEF SkipHole
<1>2. run \in Nat
  BY <1>0, MissingRunFacts
<1> HIDE DEF run
<1>3. target \in Nat /\ expected <= target /\ target >= expected
  BY <1>0, <1>2
<1> HIDE DEF target
<1>4. end \in Nat /\ target <= end
  BY <1>0, <1>3, DrainEndFacts
<1> HIDE DEF end
<1>5. Feed(out, target, end)
  BY <1>0, <1>3, <1>4, ReleaseFacts
<1> HIDE DEF out
<1>6. Feed(out, expected, end) /\ expected <= end
  BY <1>0, <1>3, <1>4, <1>5, FeedWidens
<1>7. Downstream!GiveUp
  BY <1>0, <1>1, <1>4, <1>6, GiveUpStep
<1> QED BY <1>7

\* A poll gives up the hole at the front, or changes nothing downstream sees.
LEMMA PollRefines ==
  ASSUME IInv, Poll
  PROVE  Downstream!GiveUp \/ UNCHANGED Downstream!vars
<1>1. CASE PollAsk
  <2>1. started' = started /\ expected' = expected /\ delivered' = delivered
        /\ (state' # "Stale") = (state # "Stale")
    BY <1>1 DEF PollAsk, history
  <2> QED BY <2>1, StutterStep
<1>2. CASE PollRetry
  <2>1. started' = started /\ expected' = expected /\ delivered' = delivered
        /\ (state' # "Stale") = (state # "Stale")
    BY <1>2 DEF PollRetry, history
  <2> QED BY <2>1, StutterStep
<1>3. CASE PollGiveUp
  <2>1. SkipHole /\ state' = "Stale" /\ started
    BY <1>3 DEF PollGiveUp, EnterStale, IInv, NotStarted, TypeOK
  <2> QED BY <2>1, SkipHoleRefines
<1>4. CASE PollStepOver
  <2>1. SkipHole /\ state' = "Stale" /\ started
    BY <1>4 DEF PollStepOver, IInv, NotStarted, TypeOK
  <2> QED BY <2>1, SkipHoleRefines
<1> QED BY <1>1, <1>2, <1>3, <1>4 DEF Poll

-----------------------------------------------------------------------------
\* Every step of the arbitrator opens a session, hands over what is owed, gives
\* something up, or is no step downstream.
LEMMA StepDownstream ==
  ASSUME IInv, [Next]_vars
  PROVE  \/ \E f \in Numbers : Reset(f) /\ Downstream!Start(f)
         \/ \E s \in Numbers : ~ started /\ Downstream!Join(s)
         \/ Downstream!Deliver
         \/ Downstream!GiveUp
         \/ UNCHANGED Downstream!vars
<1>1. CASE \E source \in Source, s \in Numbers : Ingest(source, s)
  <2>1. PICK source \in Source, s \in Numbers : Ingest(source, s)
    BY <1>1
  <2>2. CASE InOrder(source, s)
    BY <2>2, InOrderRefines
  <2>3. CASE Hold(source, s)
    BY <2>3, HoldRefines
  <2>4. CASE TooWide(s)
    BY <2>4, TooWideRefines
  <2>5. CASE CatchUp(s)
    BY <2>5, CatchUpRefines
  <2>6. CASE Jump(s)
    BY <2>6, JumpRefines
  <2> QED BY <2>1, <2>2, <2>3, <2>4, <2>5, <2>6 DEF Ingest
<1>2. CASE Poll
  BY <1>2, PollRefines
<1>3. CASE \E f \in Numbers : Reset(f)
  <2>1. PICK f \in Numbers : Reset(f)
    BY <1>3
  <2>2. Downstream!Start(f)
    BY <2>1 DEF Reset, Downstream!Start
  <2> QED BY <2>1, <2>2
<1>4. CASE Tick
  <2>1. started' = started /\ expected' = expected /\ delivered' = delivered
        /\ (state' # "Stale") = (state # "Stale")
    BY <1>4 DEF Tick, history
  <2> QED BY <2>1, StutterStep
<1>5. CASE UNCHANGED vars
  <2>1. started' = started /\ expected' = expected /\ delivered' = delivered
        /\ (state' # "Stale") = (state # "Stale")
    BY <1>5 DEF vars, history
  <2> QED BY <2>1, StutterStep
<1> QED BY <1>1, <1>2, <1>3, <1>4, <1>5 DEF Next

\* Every step of the arbitrator is a step downstream or no step at all.
LEMMA NextRefines ==
  IInv /\ [Next]_vars => [Downstream!Next]_(Downstream!vars)
BY StepDownstream DEF Downstream!Next

\* The arbitrator implements OrderedFeed: whatever the lines lose, repeat and
\* reorder, the book behind it sees an increasing and intact stream, complete
\* until the feed says Stale and Stale until a new session.
THEOREM Refinement == Spec => ImplementsOrderedFeed
<1>1. Init => Downstream!Init
  BY DEF Init, Downstream!Init
<1>2. IInv /\ [Next]_vars => [Downstream!Next]_(Downstream!vars)
  BY NextRefines
<1> QED BY <1>1, <1>2, InductiveInvariant, PTL
        DEF Spec, ImplementsOrderedFeed, Downstream!Spec

-----------------------------------------------------------------------------
(***************************************************************************)
(* The counters.  A step downstream appends a feed of the range the front  *)
(* passes, so what it does not hand over of that range is the rest of it.  *)
(***************************************************************************)

\* The types of what is counted, after a step.
LEMMA CountedTypes ==
  (IInv => /\ expected \in Nat /\ delivered \in Seq(Deliverable)
           /\ stats \in [Counter -> Nat])'
<1>1. IInv => /\ expected \in Nat /\ delivered \in Seq(Deliverable)
              /\ stats \in [Counter -> Nat]
  BY Facts, DeliveredIsSequence
<1> QED BY <1>1, PTL

\* Within a session a step appends a feed of the sequences the front passes.
LEMMA StepAppends ==
  ASSUME IInv, [Next]_vars, resets' = resets, started
  PROVE  /\ expected' \in Nat /\ expected <= expected'
         /\ \E q : Feed(q, expected, expected') /\ delivered' = delivered \o q
<1>1. /\ delivered \in Seq(Deliverable) /\ expected \in Nat /\ resets \in Nat
  BY Facts, DeliveredIsSequence, SequencerAssumption
<1>2. IInv'
  BY StepHolds
<1>3. expected' \in Nat /\ delivered' \in Seq(Deliverable)
  BY <1>2, CountedTypes
<1>4. ASSUME NEW f \in Numbers, Reset(f) PROVE FALSE
  <2>1. resets' = resets + 1
    BY <1>4 DEF Reset
  <2> QED BY <1>1, <2>1
<1>5. CASE Downstream!Deliver
  <2>1. expected' > expected /\ delivered' = delivered \o Whole(expected, expected')
    BY <1>5, SameWhole DEF Downstream!Deliver
  <2>2. Feed(Whole(expected, expected'), expected, expected')
    BY <1>1, <1>3, <2>1, WholeIsFeed
  <2> QED BY <1>1, <1>3, <2>1, <2>2
<1>6. CASE Downstream!GiveUp
  <2> DEFINE m == Len(delivered)
             n == Len(delivered')
             q == SubSeq(delivered', m + 1, n)
  <2>1. /\ expected' >= expected /\ n >= m
        /\ SubSeq(delivered', 1, m) = delivered
        /\ Downstream!Partial(q, expected, expected')
    BY <1>6 DEF Downstream!GiveUp
  <2>2. m \in Nat /\ n \in Nat /\ m + 1 <= n + 1
    BY <1>1, <1>3, <2>1
  <2>3. q \in Seq(Deliverable) /\ Len(q) = n - m
    BY <1>3, <2>1, <2>2
  <2>4. Feed(q, expected, expected')
    BY <2>1, <2>3 DEF Downstream!Partial, Feed
  <2>5. delivered' = SubSeq(delivered', 1, m) \o q
    <3>1. /\ m \in 0 .. n /\ m + 1 \in Nat /\ 1 \in 1 .. n + 1
          /\ m \in 1 - 1 .. n /\ n \in m .. n
      BY <2>1, <2>2
    <3>2. delivered' \in Seq(Deliverable) /\ Len(delivered') = n
      BY <1>3
    <3> HIDE DEF m, n
    <3>3. SubSeq(delivered', 1, m) \o SubSeq(delivered', m + 1, n) = SubSeq(delivered', 1, n)
      BY <3>1, <3>2, ConcatAdjacentSubSeq
    <3>4. SubSeq(delivered', 1, n) = delivered'
      BY <3>2, SubSeqFull
    <3> QED BY <3>3, <3>4
  <2> HIDE DEF q
  <2> QED BY <1>1, <1>3, <2>1, <2>4, <2>5
<1>7. CASE UNCHANGED Downstream!vars
  <2>1. expected' = expected /\ delivered' = delivered
    BY <1>7 DEF Downstream!vars
  <2>2. Feed(<< >>, expected, expected')
    BY DEF Feed
  <2>3. delivered \o << >> = delivered
    BY <1>1, ConcatEmptySeq
  <2> QED BY <1>1, <2>1, <2>2, <2>3
<1> QED BY <1>4, <1>5, <1>6, <1>7, StepDownstream

\* Of a range, a feed leaves out as many sequences as it is shorter than it.
LEMMA LeftOut ==
  ASSUME NEW lo \in Nat, NEW hi \in Nat, lo <= hi, NEW q, Feed(q, lo, hi)
  PROVE  Cardinality({n \in lo .. hi - 1 : \A i \in DOMAIN q : q[i].seq # n})
           = hi - lo - Len(q)
<1> DEFINE k == Len(q)
           given == {q[i].seq : i \in 1 .. k}
           range == lo .. hi - 1
           out == {n \in range : \A i \in DOMAIN q : q[i].seq # n}
           f == [i \in 1 .. k |-> q[i].seq]
<1>1. /\ k \in Nat /\ DOMAIN q = 1 .. k
      /\ \A i \in 1 .. k : q[i].seq \in range
      /\ \A i, j \in 1 .. k : i < j => q[i].seq < q[j].seq
  BY DEF Feed
<1> HIDE DEF k
<1>2. ExistsBijection(1 .. k, given)
  <2>1. f \in [1 .. k -> given] /\ \A i \in 1 .. k : f[i] = q[i].seq
    OBVIOUS
  <2>2. ASSUME NEW i \in 1 .. k, NEW j \in 1 .. k, f[i] = f[j] PROVE i = j
    <3>1. i \in Int /\ j \in Int /\ q[i].seq = q[j].seq /\ q[i].seq \in Int /\ q[j].seq \in Int
      BY <1>1, <2>1, <2>2
    <3> QED BY <1>1, <3>1
  <2>3. \A t \in given : \E i \in 1 .. k : f[i] = t
    BY <2>1
  <2> HIDE DEF f
  <2>4. f \in Bijection(1 .. k, given)
    BY <2>1, <2>2, <2>3 DEF Bijection, Injection, Surjection, IsInjective
  <2> QED BY <2>4 DEF ExistsBijection
<1>3. IsFiniteSet(given) /\ Cardinality(given) = k
  <2> HIDE DEF given
  <2>1. IsFiniteSet(given)
    BY <1>1, <1>2, FS_NatBijection
  <2>2. Cardinality(given) = k
    BY <1>1, <1>2, FS_CountingElements
  <2> QED BY <2>1, <2>2
<1>4. IsFiniteSet(range) /\ Cardinality(range) = hi - lo
  <2>1. IsFiniteSet(range)
    BY FS_Interval
  <2> QED BY <2>1, InOrderOfInterval
<1>5. out = range \ given /\ given \subseteq range
  BY <1>1
<1> HIDE DEF out, range, given
<1>6. Cardinality(out) = Cardinality(range) - Cardinality(range \cap given)
  BY <1>4, <1>5, FS_Difference
<1>7. range \cap given = given
  BY <1>5
<1>8. Cardinality(out) = hi - lo - k
  BY <1>3, <1>4, <1>6, <1>7
<1> QED BY <1>8 DEF out, range, k

\* What the front passes without the sink getting it is what the step left out.
LEMMA PassedOver ==
  ASSUME IInv, [Next]_vars, resets' = resets, started
  PROVE  Cardinality({n \in expected .. expected' - 1 : n \notin Delivered'})
           = (expected' - expected) - (Len(delivered') - Len(delivered))
<1>1. /\ Feed(delivered, first, expected) /\ delivered \in Seq(Deliverable)
      /\ expected \in Nat /\ first \in Nat
  BY Facts, DeliveredIsSequence
<1>2. expected' \in Nat /\ expected <= expected'
  BY StepAppends
<1>3. PICK q : Feed(q, expected, expected') /\ delivered' = delivered \o q
  BY StepAppends
<1> DEFINE m == Len(delivered)
           k == Len(q)
           to == expected'
<1>4. q \in Seq(Deliverable) /\ k \in Nat /\ m \in Nat /\ DOMAIN q = 1 .. k
      /\ DOMAIN delivered = 1 .. m
  BY <1>1, <1>3 DEF Feed
<1>5. /\ Len(delivered') = m + k /\ DOMAIN delivered' = 1 .. m + k
      /\ \A i \in 1 .. m + k : delivered'[i] = IF i <= m THEN delivered[i] ELSE q[i - m]
  BY <1>1, <1>3, <1>4, ConcatProperties, LenProperties
<1>6. ASSUME NEW n \in expected .. to - 1
      PROVE  n \in Delivered' <=> \E i \in DOMAIN q : q[i].seq = n
  <2>1. ASSUME NEW i \in 1 .. m + k, delivered'[i].seq = n
        PROVE  \E j \in DOMAIN q : q[j].seq = n
    <3>1. CASE i <= m
      <4>1. i \in 1 .. m /\ delivered[i].seq = n
        BY <1>4, <1>5, <2>1, <3>1
      <4>2. delivered[i].seq \in first .. expected - 1
        BY <1>1, <1>4, <4>1 DEF Feed
      <4> QED BY <1>1, <1>2, <4>1, <4>2
    <3>2. CASE ~ i <= m
      <4>1. i - m \in 1 .. k /\ q[i - m].seq = n
        BY <1>4, <1>5, <2>1, <3>2
      <4> QED BY <1>4, <4>1
    <3> QED BY <3>1, <3>2
  <2>2. ASSUME NEW j \in 1 .. k, q[j].seq = n PROVE n \in Delivered'
    <3>1. m + j \in 1 .. m + k /\ ~ m + j <= m /\ m + j - m = j
      BY <1>4
    <3>2. delivered'[m + j] = q[j]
      BY <1>5, <3>1
    <3> QED BY <1>5, <2>2, <3>1, <3>2 DEF Delivered
  <2> QED BY <1>4, <1>5, <2>1, <2>2 DEF Delivered
<1>7. {n \in expected .. to - 1 : n \notin Delivered'}
        = {n \in expected .. to - 1 : \A i \in DOMAIN q : q[i].seq # n}
  BY <1>6
<1>8. Cardinality({n \in expected .. to - 1 : \A i \in DOMAIN q : q[i].seq # n})
        = to - expected - k
  BY <1>1, <1>2, <1>3, LeftOut
<1>9. Len(delivered') - m = k
  BY <1>4, <1>5
<1> QED BY <1>7, <1>8, <1>9

\* The counters of SequencerStats, exactly: accepted grows by what the sink was
\* handed, dropped by what the front passed and the sink was not handed, and by
\* one for each wide payload thrown away.
THEOREM CountersAddUp == Spec => FrontIsAccounted
<1> DEFINE thrown == IF \E s \in Wide : TooWide(s) THEN 1 ELSE 0
           passed == Cardinality({n \in expected .. expected' - 1 : n \notin Delivered'})
<1>1. ASSUME IInv, [Next]_vars, resets' = resets, started
      PROVE  /\ stats'.accepted - stats.accepted = Len(delivered') - Len(delivered)
             /\ stats'.dropped - stats.dropped = passed + thrown
  <2>1. Accounted(thrown)
    BY <1>1, EveryStepAccounts
  <2>2. passed = (expected' - expected) - (Len(delivered') - Len(delivered))
    BY <1>1, PassedOver
  <2>3. /\ stats \in [Counter -> Nat] /\ stats' \in [Counter -> Nat]
        /\ delivered \in Seq(Deliverable) /\ delivered' \in Seq(Deliverable)
        /\ expected \in Nat /\ expected' \in Nat
    <3>1. IInv'
      BY <1>1, StepHolds
    <3> QED BY <1>1, <3>1, Facts, DeliveredIsSequence, CountedTypes
  <2>4. PICK a, b, c, d : a = stats.accepted /\ b = stats'.accepted
                          /\ c = stats.dropped /\ d = stats'.dropped
    OBVIOUS
  <2>5. PICK e, f, m, n : e = expected /\ f = expected' /\ m = Len(delivered)
                          /\ n = Len(delivered')
    OBVIOUS
  <2>6. /\ a \in Nat /\ b \in Nat /\ c \in Nat /\ d \in Nat
        /\ e \in Nat /\ f \in Nat /\ m \in Nat /\ n \in Nat /\ thrown \in Nat
    BY <2>3, <2>4, <2>5 DEF Counter
  <2> HIDE DEF thrown, passed
  <2>7. b - a = n - m /\ (b + d) - (a + c) - (f - e) = thrown
    BY <2>1, <2>4, <2>5 DEF Accounted
  <2>8. passed = (f - e) - (n - m)
    BY <2>2, <2>5
  <2>9. d - c = passed + thrown
    BY <2>6, <2>7, <2>8
  <2> QED BY <2>4, <2>5, <2>7, <2>9
<1>2. IInv /\ [Next]_vars
        => [resets' = resets /\ started =>
             /\ stats'.accepted - stats.accepted = Len(delivered') - Len(delivered)
             /\ stats'.dropped - stats.dropped = passed + thrown]_vars
  BY <1>1
<1> QED BY <1>2, InductiveInvariant, PTL DEF Spec, FrontIsAccounted
=============================================================================
