-------------------------- MODULE MpmcQueueProofs --------------------------
(***************************************************************************)
(* The queue's safety for every number of producers and consumers, every   *)
(* capacity and every word, although every load may be stale.              *)
(*                                                                         *)
(* Positions are counted from Start without wrapping: the n-th claim is    *)
(* that of offset n - 1, whose word is WordAt(n - 1).  A slot is written   *)
(* in turns: its sequence and its payload are written for the              *)
(* Freed(j)-th time when it becomes free for offset j and for the          *)
(* Filled(j)-th time when offset j fills it.                               *)
(***************************************************************************)
EXTENDS MpmcQueue, RingLemmas, SequenceTheorems

WordAt(j) == (Start + j) % Word
SlotAt(j) == WordAt(j) % Cap
Words == 0 .. Word - 1

\* The offset a word stands for.
OffsetOf(w) == CHOOSE j \in Words : WordAt(j) = w

Freed(j) == 2 * (j \div Cap) + 1
Filled(j) == Freed(j) + 1

-----------------------------------------------------------------------------
(***************************************************************************)
(* Words and turns.                                                        *)
(***************************************************************************)
LEMMA Constants ==
  /\ Cap \in Nat \ {0} /\ Cap >= 2 /\ Word \in Nat \ {0} /\ Start \in Nat
  /\ MaxItems \in Nat /\ MaxItems + Cap < Word
  /\ \E q \in Nat \ {0} : Word = Cap * q
<1> USE MpmcAssumption
<1>1. Word \in Nat \ {0} /\ Cap \in Nat \ {0} /\ 2 * Cap \in Nat \ {0} /\ Cap >= 2
  OBVIOUS
<1> DEFINE e == Word \div (2 * Cap)
<1>2. Word = (2 * Cap) * e + (Word % (2 * Cap)) /\ e \in Nat
  BY <1>1, Division
<1> HIDE DEF e
<1>3. (2 * Cap) * e = Cap * (2 * e) /\ (2 * Cap) * e \in Nat
  BY <1>1, <1>2
<1>4. Word = (2 * Cap) * e
  BY <1>2, <1>3
<1>5. e # 0
  BY <1>1, <1>4
<1>6. (2 * Cap) * e >= (2 * Cap) * 0 + 2 * Cap
  BY <1>1, <1>2, <1>5, ProductGrows
<1>7. Word >= 2 * Cap
  BY <1>1, <1>4, <1>6
<1>8. 2 * e \in Nat \ {0} /\ Word = Cap * (2 * e)
  BY <1>2, <1>3, <1>4, <1>5
<1> QED BY <1>1, <1>7, <1>8

\* What is pushed in a run, and one more, are words.
LEMMA WordRange == Word \in Nat /\ MaxItems \in Nat /\ MaxItems + 1 < Word
BY Constants

\* The word and the slot of an offset, and the word of the next.
LEMMA WordFacts ==
  ASSUME NEW j \in Nat
  PROVE  /\ WordAt(j) \in Words /\ SlotAt(j) \in Index
         /\ (WordAt(j) + 1) % Word = WordAt(j + 1)
         /\ (WordAt(j) + Cap) % Word = WordAt(j + Cap)
         /\ SlotAt(j) = (Start + j) % Cap
<1> USE Constants DEF WordAt
<1>1. Start + j \in Nat
  OBVIOUS
<1>2. WordAt(j) \in Words
  BY <1>1, Division DEF Words
<1>3. SlotAt(j) \in Index
  <2>1. WordAt(j) \in Nat
    BY <1>2 DEF Words
  <2> QED BY <2>1, Division DEF SlotAt, Index
<1>4. (((Start + j) % Word) + 1) % Word = ((Start + j) + 1) % Word
  BY <1>1, RemainderEarly
<1>5. (((Start + j) % Word) + Cap) % Word = ((Start + j) + Cap) % Word
  BY <1>1, RemainderEarly
<1>6. (Start + j) + 1 = Start + (j + 1) /\ (Start + j) + Cap = Start + (j + Cap)
  OBVIOUS
<1>7. SlotAt(j) = (Start + j) % Cap
  <2>1. PICK q \in Nat \ {0} : Word = Cap * q
    OBVIOUS
  <2>2. ((Start + j) % (Cap * q)) % Cap = (Start + j) % Cap
    BY <1>1, RemainderOfMultiple
  <2> QED BY <2>1, <2>2 DEF SlotAt
<1> QED BY <1>2, <1>3, <1>4, <1>5, <1>6, <1>7

\* Offsets less than a word apart have words of their own.
LEMMA WordsDiffer ==
  ASSUME NEW j \in Words, NEW k \in Words, WordAt(j) = WordAt(k)
  PROVE  j = k
<1>1. /\ Start + j \in Nat /\ Start + k \in Nat /\ j \in Int /\ k \in Int
      /\ Start + j < (Start + k) + Word /\ Start + k < (Start + j) + Word
  BY Constants DEF Words
<1>2. ~ Start + j < Start + k
  BY <1>1, Constants, SlotsDiffer DEF WordAt
<1>3. ~ Start + k < Start + j
  BY <1>1, Constants, SlotsDiffer DEF WordAt
<1> QED BY <1>1, <1>2, <1>3, Constants

\* The offset of a word is the one it was made from.
LEMMA OffsetFacts ==
  ASSUME NEW j \in Words
  PROVE  OffsetOf(WordAt(j)) = j
BY WordsDiffer DEF OffsetOf

\* Only the same word has no distance.
LEMMA DiffFacts ==
  ASSUME NEW a \in Words, NEW b \in 0 .. Word, Diff(a, b) = 0
  PROVE  a = b % Word
<1> DEFINE h == Word \div 2
           x == a - b + h
           q == x \div Word
<1>1. h \in Nat /\ h < Word /\ Word \in Nat \ {0}
  BY Constants
<1>2. x \in Int
  BY <1>1 DEF Words
<1>3. x = Word * q + (x % Word) /\ q \in Int /\ x % Word \in 0 .. Word - 1
  BY <1>1, <1>2, IntDivision
<1>4. x % Word = h
  <2>1. (x % Word) - h = 0
    BY DEF Diff
  <2> QED BY <1>1, <1>3, <2>1
<1>5. x = a - b + h
  OBVIOUS
<1> HIDE DEF h, x, q
<1>6. Word * q \in Int /\ a - b = Word * q
  <2>1. Word * q \in Int
    BY <1>1, <1>3
  <2>2. x = Word * q + h
    BY <1>3, <1>4
  <2>3. a \in Int /\ b \in Int
    BY <1>1 DEF Words
  <2> QED BY <1>1, <1>5, <2>1, <2>2, <2>3
<1>7. ~ q > 0
  <2> SUFFICES ASSUME q > 0 PROVE FALSE
    OBVIOUS
  <2>1. Word * q >= Word * 0 + Word
    BY <1>1, <1>3, ProductGrows
  <2> QED BY <1>1, <1>6, <2>1 DEF Words
<1>8. ~ q < -1
  <2> SUFFICES ASSUME q < -1 PROVE FALSE
    OBVIOUS
  <2>1. Word * (-1) >= Word * q + Word
    BY <1>1, <1>3, ProductGrows
  <2> QED BY <1>1, <1>6, <2>1 DEF Words
<1>9. CASE q = 0
  <2>1. a = b
    BY <1>1, <1>6, <1>9 DEF Words
  <2> QED BY <2>1, <1>1, SmallRemainder DEF Words
<1>10. CASE q = -1
  <2>1. a = b - Word
    BY <1>1, <1>6, <1>10 DEF Words
  <2>2. a = 0 /\ b = Word
    BY <1>1, <2>1 DEF Words
  <2>3. Splits(Word, Word, 1, 0)
    BY <1>1 DEF Splits
  <2>4. Word % Word = 0
    BY <1>1, <2>3, DivisionUnique
  <2> QED BY <2>2, <2>4
<1> QED BY <1>3, <1>7, <1>8, <1>9, <1>10

\* A slot's turns: the next lap's come after this one's.
LEMMA TurnFacts ==
  ASSUME NEW j \in Nat
  PROVE  /\ Freed(j) \in Nat \ {0} /\ Filled(j) \in Nat /\ Filled(j) = Freed(j) + 1
         /\ SlotAt(j + Cap) = SlotAt(j)
         /\ Freed(j + Cap) = Freed(j) + 2
<1> DEFINE p == j \div Cap
           r == j % Cap
<1>1. j = Cap * p + r /\ p \in Nat /\ r \in 0 .. Cap - 1
  BY Constants, Division
<1>2. Freed(j) \in Nat \ {0} /\ Filled(j) \in Nat
  BY <1>1 DEF Freed, Filled
<1>3. (j + Cap) \div Cap = p + 1
  <2> HIDE DEF p, r
  <2>1. Cap * p \in Nat /\ Cap * (p + 1) = Cap * p + Cap /\ p + 1 \in Int
    BY <1>1, Constants
  <2>2. j + Cap = Cap * (p + 1) + r /\ j + Cap \in Nat
    BY <1>1, <2>1, Constants
  <2>3. Splits(j + Cap, Cap, p + 1, r)
    BY <2>2 DEF Splits
  <2> QED BY <1>1, <2>1, <2>2, <2>3, Constants, DivisionUnique
<1>4. Freed(j + Cap) = Freed(j) + 2
  BY <1>1, <1>3 DEF Freed
<1>5. SlotAt(j + Cap) = SlotAt(j)
  <2>1. Start + j \in Nat /\ j + Cap \in Nat /\ Start + (j + Cap) = (Start + j) + Cap
    BY Constants
  <2> QED BY <2>1, WordFacts, SlotRepeats, Constants
<1> QED BY <1>2, <1>4, <1>5 DEF Filled

\* Two offsets of one slot are a lap apart at least, and so are their turns.
LEMMA TurnsDiffer ==
  ASSUME NEW j \in Nat, NEW k \in Nat, SlotAt(j) = SlotAt(k), j < k
  PROVE  j + Cap <= k /\ Freed(j) + 2 <= Freed(k)
<1>1. j + Cap <= k
  <2> SUFFICES ASSUME ~ j + Cap <= k PROVE FALSE
    OBVIOUS
  <2>1. /\ Start + j \in Nat /\ Start + k \in Nat
        /\ Start + j < Start + k /\ Start + k < (Start + j) + Cap
    BY Constants
  <2>2. (Start + j) % Cap # (Start + k) % Cap
    BY <2>1, SlotsDiffer, Constants
  <2> QED BY <2>2, WordFacts
<1>2. (j + Cap) \div Cap <= k \div Cap
  <2> DEFINE p == (j + Cap) \div Cap
             q == k \div Cap
             r == (j + Cap) % Cap
             s == k % Cap
  <2>0. j + Cap \in Nat
    BY Constants
  <2>1. j + Cap = Cap * p + r /\ p \in Nat /\ r \in 0 .. Cap - 1
    BY <2>0, Constants, Division
  <2>2. k = Cap * q + s /\ q \in Nat /\ s \in 0 .. Cap - 1
    BY Constants, Division
  <2> HIDE DEF p, q, r, s
  <2>3. Cap * p \in Nat /\ Cap * q \in Nat
    BY <2>1, <2>2, Constants
  <2>4. ~ p > q
    <3> SUFFICES ASSUME p > q PROVE FALSE
      OBVIOUS
    <3>1. Cap * p >= Cap * q + Cap
      BY <2>1, <2>2, ProductGrows, Constants
    <3> QED BY <1>1, <2>1, <2>2, <2>3, <3>1, Constants
  <2> QED BY <2>1, <2>2, <2>4 DEF p, q
<1>3. Freed(j + Cap) <= Freed(k)
  <2>1. (j + Cap) \div Cap \in Nat /\ k \div Cap \in Nat
    <3>1. j + Cap \in Nat
      BY Constants
    <3> QED BY <3>1, Division, Constants
  <2> QED BY <1>2, <2>1 DEF Freed
<1> QED BY <1>1, <1>3, TurnFacts

\* A slot never belongs to two offsets in one turn.
LEMMA TurnsAreOwn ==
  ASSUME NEW j \in Nat, NEW k \in Nat, SlotAt(j) = SlotAt(k)
  PROVE  /\ Freed(j) = Freed(k) => j = k
         /\ Freed(j) # Filled(k)
         /\ Freed(j) < Freed(k) => j < k
<1>1. Freed(j) \in Nat /\ Freed(k) \in Nat /\ Filled(k) = Freed(k) + 1
  BY TurnFacts
<1>2. CASE j < k
  BY <1>1, <1>2, TurnsDiffer
<1>3. CASE k < j
  BY <1>1, <1>3, TurnsDiffer
<1>4. CASE j = k
  BY <1>1, <1>4
<1> QED BY <1>2, <1>3, <1>4

\* Every turn of a slot is the turn of an offset.
LEMMA TurnExists ==
  ASSUME NEW i \in Index, NEW m \in Nat \ {0}
  PROVE  \E j \in Nat : SlotAt(j) = i /\ m \in {Freed(j), Filled(j)}
<1> DEFINE G == {l \in Nat : \E j \in Nat : SlotAt(j) = i /\ j \div Cap = l}
<1>1. 0 \in G
  <2> DEFINE s == Start % Cap
             p == Start \div Cap
             f == IF s <= i THEN i - s ELSE i - s + Cap
  <2>1. Start = Cap * p + s /\ p \in Nat /\ s \in 0 .. Cap - 1
    BY Constants, Division
  <2>2. f \in 0 .. Cap - 1
    BY <2>1, Constants DEF Index
  <2>3. (Start + f) % Cap = i
    <3> HIDE DEF s, p
    <3>1. Cap * p \in Nat /\ Cap * (p + 1) = Cap * p + Cap
      BY <2>1, Constants
    <3>2. \/ Splits(Start + f, Cap, p, i)
          \/ Splits(Start + f, Cap, p + 1, i)
      BY <2>1, <3>1, Constants DEF Index, Splits
    <3>3. Start + f \in Int /\ i \in 0 .. Cap - 1 /\ p \in Int /\ p + 1 \in Int
      BY <2>1, <2>2, Constants DEF Index
    <3> HIDE DEF f
    <3> QED BY <3>2, <3>3, Constants, DivisionUnique
  <2> HIDE DEF f
  <2>4. f \in Nat /\ f \div Cap = 0
    BY <2>2, Constants, SmallRemainder
  <2>5. SlotAt(f) = i
    BY <2>3, <2>4, WordFacts
  <2> QED BY <2>4, <2>5
<1>2. ASSUME NEW l \in Nat, l \in G
      PROVE  l + 1 \in G
  <2>1. PICK j \in Nat : SlotAt(j) = i /\ j \div Cap = l
    BY <1>2
  <2>2. j + Cap \in Nat /\ SlotAt(j + Cap) = i /\ Freed(j + Cap) = Freed(j) + 2
    <3>1. j + Cap \in Nat
      BY Constants
    <3>2. SlotAt(j + Cap) = SlotAt(j) /\ Freed(j + Cap) = Freed(j) + 2
      BY TurnFacts
    <3> QED BY <2>1, <3>1, <3>2
  <2>3. j \div Cap \in Nat /\ (j + Cap) \div Cap \in Nat
    BY <2>2, Division, Constants
  <2>4. (j + Cap) \div Cap = l + 1
    BY <2>1, <2>2, <2>3 DEF Freed
  <2> QED BY <2>2, <2>4
<1> HIDE DEF G
<1>3. Nat \subseteq G
  BY <1>1, <1>2, CountingUp
<1>4. PICK l \in Nat : m = 2 * l + 1 \/ m = 2 * l + 2
  <2>1. m - 1 \in Nat /\ 2 \in Nat \ {0}
    OBVIOUS
  <2>2. m - 1 = 2 * ((m - 1) \div 2) + ((m - 1) % 2) /\ (m - 1) \div 2 \in Nat
        /\ (m - 1) % 2 \in 0 .. 1
    BY <2>1
  <2> QED BY <2>2
<1>5. PICK j \in Nat : SlotAt(j) = i /\ j \div Cap = l
  BY <1>3 DEF G
<1> QED BY <1>4, <1>5 DEF Freed, Filled

-----------------------------------------------------------------------------
(***************************************************************************)
(* The invariant.                                                          *)
(***************************************************************************)
View == [Location -> Nat]
Anything == Words \cup (Producers \X Nat) \cup {None}

TypeOK ==
  /\ memory \in [Location -> Seq([val : Anything, view : View])]
  /\ view \in [Thread -> View]
  /\ pc \in [Thread -> {"idle", "look", "reload", "claim", "use", "publish"}]
  /\ pos \in [Thread -> Words]
  /\ sent \in [Producers -> Nat]
  /\ got \in [Consumers -> Seq(Anything)]

SeqLoc(i) == <<"seq", i>>
ValueLoc(i) == <<"value", i>>

\* How many offsets are claimed, and how often a slot's two words were written.
Claims(l) == Len(memory[l]) - 1
Turn(i) == Len(memory[SeqLoc(i)])
Uses(i) == Len(memory[ValueLoc(i)])

\* The offset a thread works on, and the turn in which its slot is its own.
Off(t) == OffsetOf(pos[t])
SlotOf(t) == SlotAt(Off(t))
Due(t) == IF t \in Producers THEN Freed(Off(t)) ELSE Filled(Off(t))

Owner(t) == pc[t] \in {"use", "publish"}

NobodySeesAhead ==
  /\ \A l \in Location : Len(memory[l]) >= 1
  /\ \A t \in Thread, l \in Location : view[t][l] <= Len(memory[l])
  /\ \A l, k \in Location : \A n \in 1 .. Len(memory[l]) :
       memory[l][n].view[k] <= Len(memory[k])

PositionsCount ==
  \A l \in {TailPos, HeadPos} : \A n \in 1 .. Len(memory[l]) :
    memory[l][n].val = WordAt(n - 1)

\* No more is claimed than may be pushed, and no pop before its push.
ClaimsAreBounded ==
  /\ Started <= MaxItems
  /\ Claims(HeadPos) <= Claims(TailPos)

SlotsTakeTurns ==
  \A j \in Nat :
    /\ Freed(j) <= Turn(SlotAt(j)) =>
         memory[SeqLoc(SlotAt(j))][Freed(j)].val = WordAt(j)
    /\ Filled(j) <= Turn(SlotAt(j)) =>
         memory[SeqLoc(SlotAt(j))][Filled(j)].val = WordAt(j + 1)

\* A turn releases what was done to the payload before it.
TurnsRelease ==
  \A i \in Index : \A m \in 1 .. Turn(i) :
    m <= memory[SeqLoc(i)][m].view[ValueLoc(i)]

\* A payload is touched under a claim only, and before its slot's turn ends.
UsesAreClaimed ==
  /\ \A i \in Index : Turn(i) <= Uses(i)
  /\ \A j \in Nat :
       /\ Filled(j) <= Uses(SlotAt(j)) => j < Claims(TailPos)
       /\ Filled(j) + 1 <= Uses(SlotAt(j)) => j < Claims(HeadPos)

CallersCount ==
  \A t \in Thread : pc[t] # "idle" =>
    Off(t) \in 0 .. Claims(Position(t)) /\ pos[t] = WordAt(Off(t))

ClaimersHaveSeen ==
  \A t \in Thread : pc[t] = "claim" =>
    /\ Due(t) <= view[t][SeqLoc(SlotOf(t))]
    /\ Due(t) <= view[t][ValueLoc(SlotOf(t))]

OwnersHaveTheTurn ==
  \A t \in Thread : Owner(t) =>
    /\ Off(t) < Claims(Position(t))
    /\ Turn(SlotOf(t)) = Due(t)
    /\ Uses(SlotOf(t)) = IF pc[t] = "use" THEN Due(t) ELSE Due(t) + 1
    /\ view[t][ValueLoc(SlotOf(t))] = Uses(SlotOf(t))

OwnersDiffer ==
  \A t, u \in Thread :
    Owner(t) /\ Owner(u) /\ Position(t) = Position(u) /\ Off(t) = Off(u) => t = u

QInv ==
  /\ TypeOK
  /\ NobodySeesAhead
  /\ PositionsCount
  /\ ClaimsAreBounded
  /\ SlotsTakeTurns
  /\ TurnsRelease
  /\ UsesAreClaimed
  /\ CallersCount
  /\ ClaimersHaveSeen
  /\ OwnersHaveTheTurn
  /\ OwnersDiffer

-----------------------------------------------------------------------------
(***************************************************************************)
(* What the invariant says of the memory, a thread and a write.            *)
(***************************************************************************)
LEMMA LocationFacts ==
  /\ TailPos \in Location /\ HeadPos \in Location /\ TailPos # HeadPos
  /\ \A i \in Index : /\ SeqLoc(i) \in Location /\ ValueLoc(i) \in Location
                      /\ SeqLoc(i) \notin {TailPos, HeadPos}
                      /\ ValueLoc(i) \notin {TailPos, HeadPos}
  /\ \A i, k \in Index : /\ SeqLoc(i) # ValueLoc(k)
                         /\ SeqLoc(i) = SeqLoc(k) => i = k
                         /\ ValueLoc(i) = ValueLoc(k) => i = k
  /\ \A t \in Thread : Position(t) \in {TailPos, HeadPos}
  /\ \A t \in Producers : t \in Thread /\ Position(t) = TailPos
  /\ \A t \in Consumers : t \in Thread /\ Position(t) = HeadPos /\ t \notin Producers
  /\ \A t \in Thread : t \in Producers \/ t \in Consumers
BY MpmcAssumption DEF TailPos, HeadPos, Location, SeqLoc, ValueLoc, Position, Thread

\* A location's history is not empty, and its writes are of their types.
LEMMA MemoryFacts ==
  ASSUME TypeOK, NobodySeesAhead, NEW l \in Location
  PROVE  /\ memory[l] \in Seq([val : Anything, view : View])
         /\ Len(memory[l]) \in Nat \ {0} /\ Claims(l) \in Nat
         /\ DOMAIN memory[l] = 1 .. Len(memory[l])
         /\ \A n \in 1 .. Len(memory[l]) :
              memory[l][n].val \in Anything /\ memory[l][n].view \in View
<1>1. memory[l] \in Seq([val : Anything, view : View])
  BY DEF TypeOK
<1>2. Len(memory[l]) \in Nat /\ Len(memory[l]) >= 1
  BY <1>1 DEF NobodySeesAhead
<1>3. DOMAIN memory[l] = 1 .. Len(memory[l])
  BY <1>1
<1>4. \A n \in 1 .. Len(memory[l]) : memory[l][n] \in [val : Anything, view : View]
  <2> DEFINE S == [val : Anything, view : View]
             q == memory[l]
  <2>1. q \in Seq(S)
    BY <1>1
  <2> HIDE DEF S, q
  <2>2. \A n \in 1 .. Len(q) : q[n] \in S
    BY <2>1, ElementOfSeq
  <2> QED BY <2>2 DEF S, q
<1> QED BY <1>1, <1>2, <1>3, <1>4 DEF Claims

\* The counts of a slot, and what bounds the claims.
LEMMA CountFacts ==
  ASSUME QInv
  PROVE  /\ \A i \in Index : Turn(i) \in Nat \ {0} /\ Uses(i) \in Nat \ {0}
         /\ Claims(TailPos) \in Nat /\ Claims(HeadPos) \in Nat
         /\ Claims(TailPos) <= MaxItems /\ Claims(HeadPos) <= MaxItems
         /\ \A l \in {TailPos, HeadPos} : \A j \in 0 .. Claims(l) : j \in Words /\ j \in Nat
         /\ \A t \in Thread : Claims(Position(t)) \in Nat
<1> USE LocationFacts DEF QInv
<1>1. \A i \in Index : Turn(i) \in Nat \ {0} /\ Uses(i) \in Nat \ {0}
  BY MemoryFacts DEF Turn, Uses
<1>2. Claims(TailPos) \in Nat /\ Claims(HeadPos) \in Nat
  BY MemoryFacts
<1>3. Claims(TailPos) <= MaxItems
  <2> DEFINE T == {p \in Producers : pc[p] \in {"look", "reload", "claim"}}
  <2>1. IsFiniteSet(T) /\ Cardinality(T) \in Nat
    BY MpmcAssumption, FS_Subset, FS_CardinalityType
  <2>2. Claims(TailPos) + Cardinality(T) <= MaxItems
    BY DEF ClaimsAreBounded, Started, Claims
  <2> HIDE DEF T
  <2> QED BY <1>2, <2>1, <2>2, Constants
<1>4. Claims(HeadPos) <= MaxItems
  BY <1>2, <1>3, Constants DEF ClaimsAreBounded
<1>5. \A l \in {TailPos, HeadPos} : \A j \in 0 .. Claims(l) : j \in Words /\ j \in Nat
  BY <1>2, <1>3, <1>4, Constants DEF Words
<1> QED BY <1>1, <1>2, <1>3, <1>4, <1>5

\* A thread in a call works on an offset, in a slot of the ring.
LEMMA CallerFacts ==
  ASSUME QInv, NEW t \in Thread, pc[t] # "idle"
  PROVE  /\ Off(t) \in Nat /\ Off(t) \in Words /\ Off(t) <= Claims(Position(t))
         /\ pos[t] = WordAt(Off(t))
         /\ SlotOf(t) \in Index
         /\ SeqAt(pos[t]) = SeqLoc(SlotOf(t)) /\ Value(pos[t]) = ValueLoc(SlotOf(t))
         /\ Due(t) \in Nat \ {0}
<1>1. Off(t) \in 0 .. Claims(Position(t)) /\ pos[t] = WordAt(Off(t))
  BY DEF QInv, CallersCount
<1>2. Off(t) \in Nat /\ Off(t) \in Words /\ Off(t) <= Claims(Position(t))
  BY <1>1, CountFacts, LocationFacts
<1>3. SlotOf(t) \in Index
  BY <1>2, WordFacts DEF SlotOf
<1>4. SeqAt(pos[t]) = SeqLoc(SlotOf(t)) /\ Value(pos[t]) = ValueLoc(SlotOf(t))
  BY <1>1 DEF SeqAt, Value, SeqLoc, ValueLoc, SlotOf, SlotAt
<1>5. Due(t) \in Nat \ {0}
  BY <1>2, TurnFacts DEF Due
<1> QED BY <1>1, <1>2, <1>3, <1>4, <1>5

\* An offset that got a turn is one the words tell apart.
LEMMA TurnsAreSmall ==
  ASSUME QInv, NEW j \in Nat
  PROVE  /\ Freed(j) <= Turn(SlotAt(j)) => j \in Words
         /\ Filled(j) <= Turn(SlotAt(j)) => j + 1 \in Words
<1> DEFINE i == SlotAt(j)
<1>1. i \in Index /\ Turn(i) \in Nat /\ Uses(i) \in Nat /\ Turn(i) <= Uses(i)
  BY WordFacts, CountFacts DEF QInv, UsesAreClaimed
<1>2. Freed(j) \in Nat /\ Filled(j) = Freed(j) + 1
  BY TurnFacts
<1>3. Claims(TailPos) \in Nat /\ Claims(HeadPos) \in Nat
      /\ Claims(TailPos) <= MaxItems /\ Claims(HeadPos) <= MaxItems
  BY CountFacts
<1>4. ASSUME Filled(j) <= Turn(i) PROVE j + 1 \in Words
  <2>1. j < Claims(TailPos)
    BY <1>1, <1>2, <1>4 DEF QInv, UsesAreClaimed
  <2> QED BY <1>3, <2>1, Constants DEF Words
<1>5. ASSUME Freed(j) <= Turn(i) PROVE j \in Words
  <2>1. CASE j < Cap
    BY <2>1, Constants DEF Words
  <2>2. CASE ~ j < Cap
    <3> DEFINE k == j - Cap
    <3>1. k \in Nat /\ j = k + Cap
      BY <2>2, Constants
    <3> HIDE DEF k
    <3>2. SlotAt(k) = i /\ Freed(j) = Freed(k) + 2 /\ Filled(k) = Freed(k) + 1
          /\ Freed(k) \in Nat
      BY <3>1, TurnFacts
    <3>3. Filled(k) + 1 <= Uses(SlotAt(k))
      BY <1>1, <1>5, <3>2
    <3>4. k < Claims(HeadPos)
      BY <3>1, <3>3 DEF QInv, UsesAreClaimed
    <3> QED BY <1>3, <3>1, <3>4, Constants DEF Words
  <2> QED BY <2>1, <2>2
<1> QED BY <1>4, <1>5

\* A look that finds what it waits for finds the slot in its own turn.
LEMMA LookFinds ==
  ASSUME QInv, NEW t \in Thread, pc[t] # "idle",
         NEW n \in 1 .. Len(memory[SeqAt(pos[t])]),
         Diff(memory[SeqAt(pos[t])][n].val, Wanted(t)) = 0
  PROVE  n = Due(t)
<1> DEFINE o == Off(t)
           i == SlotOf(t)
           w == memory[SeqLoc(i)][n].val
<1>1. /\ o \in Nat /\ o \in Words /\ o <= Claims(Position(t)) /\ pos[t] = WordAt(o)
      /\ i \in Index /\ i = SlotAt(o) /\ SeqAt(pos[t]) = SeqLoc(i)
  BY CallerFacts DEF SlotOf
<1>2. n \in 1 .. Turn(i) /\ Diff(w, Wanted(t)) = 0
  BY <1>1 DEF Turn
<1>3. n \in Nat \ {0} /\ Turn(i) \in Nat
  BY <1>1, <1>2, CountFacts
<1>4. PICK j \in Nat : SlotAt(j) = i /\ n \in {Freed(j), Filled(j)}
  BY <1>1, <1>3, TurnExists
<1>5. /\ n = Freed(j) => w = WordAt(j) /\ j \in Words
      /\ n = Filled(j) => w = WordAt(j + 1) /\ j + 1 \in Words
  BY <1>2, <1>3, <1>4, TurnsAreSmall DEF QInv, SlotsTakeTurns
<1>6. w \in Words
  BY <1>4, <1>5, WordFacts
<1>7. WordAt(o) \in Words
  BY <1>1, WordFacts
<1> HIDE DEF o, i, w
<1>8. CASE t \in Producers
  <2>1. w = WordAt(o) % Word
    <3>1. Wanted(t) = WordAt(o) /\ WordAt(o) \in 0 .. Word
      <4>1. Wanted(t) = WordAt(o)
        BY <1>1, <1>8 DEF Wanted
      <4> QED BY <1>7, <4>1, WordRange DEF Words
    <3> QED BY <1>2, <1>6, <3>1, DiffFacts
  <2>2. WordAt(o) % Word = WordAt(o)
    BY <1>7, SmallRemainder, Constants DEF Words
  <2>3. CASE n = Freed(j)
    <3>1. j = o
      BY <1>1, <1>5, <2>1, <2>2, <2>3, WordsDiffer
    <3> QED BY <1>8, <2>3, <3>1 DEF Due, o
  <2>4. CASE n = Filled(j)
    <3>1. j + 1 = o
      BY <1>1, <1>5, <2>1, <2>2, <2>4, WordsDiffer
    <3>2. j + Cap <= o
      BY <1>1, <1>4, <3>1, TurnsDiffer
    <3> QED BY <3>1, <3>2, <1>4, Constants
  <2> QED BY <1>4, <2>3, <2>4
<1>9. CASE t \in Consumers
  <2>0. t \notin Producers /\ Position(t) = HeadPos /\ o + 1 \in Words
    <3>1. t \notin Producers /\ Position(t) = HeadPos
      BY <1>9, LocationFacts
    <3>2. Claims(HeadPos) \in Nat /\ Claims(HeadPos) <= MaxItems
      BY CountFacts
    <3>3. o + 1 \in Words
      BY <1>1, <3>1, <3>2, WordRange DEF Words
    <3> QED BY <3>1, <3>3
  <2>1. w = WordAt(o + 1)
    <3>1. Wanted(t) = WordAt(o) + 1 /\ WordAt(o) + 1 \in 0 .. Word
      <4>1. Wanted(t) = WordAt(o) + 1
        BY <1>1, <2>0 DEF Wanted
      <4> QED BY <1>7, <4>1, WordRange DEF Words
    <3>2. w = (WordAt(o) + 1) % Word
      BY <1>2, <1>6, <3>1, DiffFacts
    <3> QED BY <1>1, <3>2, WordFacts
  <2>2. CASE n = Freed(j)
    <3>1. j = o + 1
      BY <1>5, <2>0, <2>1, <2>2, WordsDiffer
    <3>2. o + Cap <= j
      BY <1>1, <1>4, <3>1, TurnsDiffer
    <3> QED BY <1>1, <3>1, <3>2, Constants
  <2>3. CASE n = Filled(j)
    <3>1. j + 1 = o + 1
      BY <1>5, <2>0, <2>1, <2>3, WordsDiffer
    <3>2. j = o
      BY <1>1, <1>4, <3>1
    <3> QED BY <2>0, <2>3, <3>2 DEF Due, o
  <2> QED BY <1>4, <2>2, <2>3
<1> QED BY <1>8, <1>9, LocationFacts

\* An exchange that succeeds finds the slot free for a push, or full for a pop,
\* and nobody else in it.
LEMMA ClaimFinds ==
  ASSUME QInv, NEW t \in Thread, pc[t] = "claim", Newest(memory, Position(t)) = pos[t]
  PROVE  /\ Off(t) = Claims(Position(t))
         /\ Turn(SlotOf(t)) = Due(t) /\ Uses(SlotOf(t)) = Due(t)
         /\ view[t][ValueLoc(SlotOf(t))] = Due(t)
         /\ t \in Consumers => Off(t) < Claims(TailPos)
<1> DEFINE o == Off(t)
           i == SlotOf(t)
           l == Position(t)
<1>1. /\ o \in Nat /\ o \in Words /\ o <= Claims(l) /\ pos[t] = WordAt(o)
      /\ i \in Index /\ i = SlotAt(o) /\ Due(t) \in Nat
  BY CallerFacts DEF SlotOf
<1>2. l \in {TailPos, HeadPos} /\ l \in Location
  BY LocationFacts
<1>3. Claims(l) \in Nat /\ Claims(l) \in Words /\ Len(memory[l]) = Claims(l) + 1
  <2>1. Len(memory[l]) \in Nat /\ Claims(l) \in Nat
    BY <1>2, MemoryFacts DEF QInv
  <2> QED BY <1>2, <2>1, CountFacts DEF Claims
<1>4. o = Claims(l)
  <2>1. memory[l][Len(memory[l])].val = WordAt(Len(memory[l]) - 1)
    BY <1>2, <1>3 DEF QInv, PositionsCount
  <2>2. WordAt(Claims(l)) = WordAt(o)
    BY <1>1, <2>1 DEF Newest, Claims
  <2> QED BY <1>1, <1>3, <2>2, WordsDiffer
<1>5. /\ Due(t) <= view[t][SeqLoc(i)] /\ Due(t) <= view[t][ValueLoc(i)]
      /\ view[t][SeqLoc(i)] <= Turn(i) /\ view[t][ValueLoc(i)] <= Uses(i)
      /\ Turn(i) <= Uses(i)
      /\ Turn(i) \in Nat /\ Uses(i) \in Nat
      /\ view[t][SeqLoc(i)] \in Nat /\ view[t][ValueLoc(i)] \in Nat
  <2>1. SeqLoc(i) \in Location /\ ValueLoc(i) \in Location
    BY <1>1, LocationFacts
  <2>2. view[t][SeqLoc(i)] \in Nat /\ view[t][ValueLoc(i)] \in Nat
    BY <2>1 DEF QInv, TypeOK, View
  <2>3. view[t][SeqLoc(i)] <= Turn(i) /\ view[t][ValueLoc(i)] <= Uses(i)
    BY <2>1 DEF QInv, NobodySeesAhead, Turn, Uses
  <2>4. Due(t) <= view[t][SeqLoc(i)] /\ Due(t) <= view[t][ValueLoc(i)]
    BY DEF QInv, ClaimersHaveSeen
  <2> QED BY <1>1, <2>2, <2>3, <2>4, CountFacts DEF QInv, UsesAreClaimed
<1>6. /\ Filled(o) <= Uses(i) => o < Claims(TailPos)
      /\ Filled(o) + 1 <= Uses(i) => o < Claims(HeadPos)
  BY <1>1 DEF QInv, UsesAreClaimed
<1>7. Freed(o) \in Nat /\ Filled(o) = Freed(o) + 1
  BY <1>1, TurnFacts
<1> HIDE DEF o, i, l
<1>8. CASE t \in Producers
  <2>1. l = TailPos /\ Due(t) = Freed(o) /\ t \notin Consumers
    BY <1>8, LocationFacts DEF Due, l, o
  <2>2. ~ Filled(o) <= Uses(i)
    BY <1>1, <1>4, <1>6, <2>1
  <2>3. Turn(i) = Due(t) /\ Uses(i) = Due(t) /\ view[t][ValueLoc(i)] = Due(t)
    BY <1>1, <1>5, <1>7, <2>1, <2>2
  <2> QED BY <1>4, <2>1, <2>3 DEF o, i, l
<1>9. CASE t \in Consumers
  <2>1. l = HeadPos /\ Due(t) = Filled(o)
    BY <1>9, LocationFacts DEF Due, l, o
  <2>2. ~ Filled(o) + 1 <= Uses(i)
    BY <1>1, <1>4, <1>6, <2>1
  <2>3. Turn(i) = Due(t) /\ Uses(i) = Due(t) /\ view[t][ValueLoc(i)] = Due(t)
    BY <1>1, <1>5, <1>7, <2>1, <2>2
  <2>4. o < Claims(TailPos)
    BY <1>5, <1>6, <1>7, <2>1, <2>3
  <2> QED BY <1>4, <2>3, <2>4 DEF o, i, l
<1> QED BY <1>8, <1>9, LocationFacts

\* No two owners are in one slot.
LEMMA OwnersApart ==
  ASSUME QInv, NEW t \in Thread, NEW u \in Thread, Owner(t), Owner(u), t # u
  PROVE  SlotOf(t) # SlotOf(u)
<1> SUFFICES ASSUME SlotOf(t) = SlotOf(u) PROVE FALSE
  OBVIOUS
<1>1. /\ Off(t) \in Nat /\ Off(u) \in Nat /\ SlotAt(Off(t)) = SlotAt(Off(u))
  BY CallerFacts DEF Owner, SlotOf
<1>2. Due(t) = Due(u)
  BY DEF QInv, OwnersHaveTheTurn
<1>3. /\ Freed(Off(t)) # Filled(Off(u)) /\ Freed(Off(u)) # Filled(Off(t))
      /\ Freed(Off(t)) = Freed(Off(u)) => Off(t) = Off(u)
      /\ Filled(Off(t)) = Freed(Off(t)) + 1 /\ Filled(Off(u)) = Freed(Off(u)) + 1
      /\ Freed(Off(t)) \in Nat /\ Freed(Off(u)) \in Nat
  BY <1>1, TurnsAreOwn, TurnFacts
<1>4. t \in Producers <=> u \in Producers
  BY <1>2, <1>3 DEF Due
<1>5. Off(t) = Off(u) /\ Position(t) = Position(u)
  BY <1>2, <1>3, <1>4 DEF Due, Position
<1> QED BY <1>5 DEF QInv, OwnersDiffer

-----------------------------------------------------------------------------
(***************************************************************************)
(* The steps keep the invariant.                                           *)
(***************************************************************************)
Trying == {"look", "reload", "claim"}
Tries == {p \in Producers : pc[p] \in Trying}

\* How the number of producers that may still claim changes with a step.
LEMMA TriesFacts ==
  ASSUME TypeOK, NEW t \in Thread, NEW label, pc' = [pc EXCEPT ![t] = label]
  PROVE  /\ Cardinality(Tries) \in Nat /\ Cardinality(Tries') \in Nat
         /\ Cardinality(Tries') <= Cardinality(Tries) + 1
         /\ t \notin Producers \/ label \notin Trying \/ pc[t] \in Trying
              => Cardinality(Tries') <= Cardinality(Tries)
         /\ t \in Producers /\ pc[t] \in Trying /\ label \notin Trying
              => Cardinality(Tries') = Cardinality(Tries) - 1
<1>1. IsFiniteSet(Tries) /\ IsFiniteSet(Tries')
  BY MpmcAssumption, FS_Subset DEF Tries
<1>2. Cardinality(Tries) \in Nat /\ Cardinality(Tries') \in Nat
  BY <1>1, FS_CardinalityType
<1>3. /\ pc'[t] = label
      /\ \A u \in Thread : u # t => pc'[u] = pc[u]
      /\ \A p \in Producers : p \in Thread
  BY LocationFacts DEF TypeOK
<1>4. Tries' \subseteq Tries \cup {t}
  BY <1>3 DEF Tries
<1>5. Cardinality(Tries') <= Cardinality(Tries) + 1
  <2>1. IsFiniteSet(Tries \cup {t}) /\ Cardinality(Tries \cup {t}) \in Nat
    BY <1>1, FS_AddElement, FS_CardinalityType
  <2>2. Cardinality(Tries') <= Cardinality(Tries \cup {t})
    BY <1>4, <2>1, FS_Subset
  <2>3. Cardinality(Tries \cup {t}) <= Cardinality(Tries) + 1
    <3> DEFINE c == Cardinality(Tries)
               e == Cardinality(Tries \cup {t})
    <3>1. e = IF t \in Tries THEN c ELSE c + 1
      BY <1>1, FS_AddElement
    <3>2. c \in Nat
      BY <1>2
    <3> HIDE DEF c, e
    <3>3. e <= c + 1
      BY <3>1, <3>2
    <3> QED BY <3>3 DEF c, e
  <2> QED BY <1>2, <2>1, <2>2, <2>3
<1>6. ASSUME t \notin Producers \/ label \notin Trying \/ pc[t] \in Trying
      PROVE  Cardinality(Tries') <= Cardinality(Tries)
  <2>1. Tries' \subseteq Tries
    BY <1>3, <1>6 DEF Tries
  <2> QED BY <1>1, <2>1, FS_Subset
<1>7. ASSUME t \in Producers, pc[t] \in Trying, label \notin Trying
      PROVE  Cardinality(Tries') = Cardinality(Tries) - 1
  <2>1. t \in Tries /\ Tries' = Tries \ {t}
    BY <1>3, <1>7 DEF Tries
  <2> QED BY <1>1, <2>1, FS_RemoveElement
<1> QED BY <1>2, <1>5, <1>6, <1>7

\* The pushes begun are the claims and the producers that may still claim.
LEMMA StartedIs ==
  /\ Started = Claims(TailPos) + Cardinality(Tries)
  /\ Started' = Claims(TailPos)' + Cardinality(Tries')
BY DEF Started, Claims, Tries, Trying

\* A step that only loads.
LEMMA QuietStep ==
  ASSUME QInv, NEW t \in Thread,
         memory' = memory, sent' = sent, got' = got, TypeOK',
         \A u \in Thread : u # t =>
           pc'[u] = pc[u] /\ pos'[u] = pos[u] /\ view'[u] = view[u],
         \A l \in Location : view'[t][l] <= Len(memory[l]),
         ~ Owner(t), ~ Owner(t)',
         pc'[t] # "idle" => Off(t)' \in 0 .. Claims(Position(t)) /\ pos'[t] = WordAt(Off(t)'),
         pc'[t] = "claim" => /\ Due(t)' <= view'[t][SeqLoc(SlotOf(t)')]
                             /\ Due(t)' <= view'[t][ValueLoc(SlotOf(t)')],
         Started' <= MaxItems
  PROVE  QInv'
<1>1. \A u \in Thread : u # t => /\ Off(u)' = Off(u) /\ SlotOf(u)' = SlotOf(u)
                                 /\ Due(u)' = Due(u) /\ (Owner(u)' <=> Owner(u))
  BY DEF Off, SlotOf, Due, Owner
<1>2. \A i \in Index : Turn(i)' = Turn(i) /\ Uses(i)' = Uses(i)
  BY DEF Turn, Uses
<1>3. \A l : Claims(l)' = Claims(l)
  BY DEF Claims
<1>4. NobodySeesAhead'
  BY DEF QInv, NobodySeesAhead
<1>5. PositionsCount' /\ SlotsTakeTurns' /\ TurnsRelease'
  BY DEF QInv, PositionsCount, SlotsTakeTurns, TurnsRelease, Turn
<1>6. ClaimsAreBounded' /\ UsesAreClaimed'
  BY <1>3 DEF QInv, ClaimsAreBounded, UsesAreClaimed, Turn, Uses
<1>7. CallersCount'
  BY <1>1, <1>3 DEF QInv, CallersCount
<1>8. ClaimersHaveSeen'
  BY <1>1 DEF QInv, ClaimersHaveSeen
<1>9. OwnersHaveTheTurn'
  <2> SUFFICES ASSUME NEW u \in Thread, Owner(u)'
               PROVE  /\ Off(u)' < Claims(Position(u))'
                      /\ Turn(SlotOf(u))' = Due(u)'
                      /\ Uses(SlotOf(u))' = IF pc'[u] = "use" THEN Due(u)' ELSE Due(u)' + 1
                      /\ view'[u][ValueLoc(SlotOf(u)')] = Uses(SlotOf(u))'
    BY DEF OwnersHaveTheTurn
  <2>1. u # t /\ Owner(u)
    BY <1>1
  <2>2. Turn(SlotOf(u))' = Turn(SlotOf(u)) /\ Uses(SlotOf(u))' = Uses(SlotOf(u))
    BY <1>1, <2>1 DEF Turn, Uses
  <2> QED BY <1>1, <1>3, <2>1, <2>2 DEF QInv, OwnersHaveTheTurn
<1>10. OwnersDiffer'
  BY <1>1 DEF QInv, OwnersDiffer
<1> QED BY <1>4, <1>5, <1>6, <1>7, <1>8, <1>9, <1>10 DEF QInv

\* What a thread has seen, having seen one more write.
LEMMA SeenFacts ==
  ASSUME NEW v \in View, NEW l \in Location, NEW n \in Nat
  PROVE  /\ Seen(v, l, n) \in View
         /\ \A k \in Location : Seen(v, l, n)[k] = IF k = l THEN Later(v[l], n) ELSE v[k]
         /\ Seen(v, l, n)[l] >= n /\ Seen(v, l, n)[l] >= v[l]
         /\ \A m \in Nat : v[l] <= m /\ n <= m => Seen(v, l, n)[l] <= m
BY DEF View, Seen, Later

\* What a view that joined another has seen.
LEMMA JoinFacts ==
  ASSUME NEW v \in View, NEW w \in View
  PROVE  /\ Join(v, w) \in View
         /\ \A k \in Location : /\ Join(v, w)[k] >= v[k] /\ Join(v, w)[k] >= w[k]
                                /\ \A m \in Nat : v[k] <= m /\ w[k] <= m => Join(v, w)[k] <= m
BY DEF View, Join, Later

\* A load of the position keeps the invariant, however stale it is.
LEMMA LoadPositionStep ==
  ASSUME QInv, NEW t \in Thread, NEW n \in Nat \ {0}, LoadPosition(t, n), ~ Owner(t),
         t \in Producers /\ pc[t] \notin Trying => Started < MaxItems
  PROVE  QInv'
<1> DEFINE l == Position(t)
<1>1. l \in {TailPos, HeadPos} /\ l \in Location /\ Len(memory[l]) \in Nat
      /\ Claims(l) = Len(memory[l]) - 1
  BY LocationFacts, MemoryFacts DEF QInv, Claims
<1>2. view[t] \in View /\ view[t][l] \in Nat
  BY <1>1 DEF QInv, TypeOK, View
<1>3. n \in 1 .. Len(memory[l])
  BY <1>1, <1>2 DEF LoadPosition, Visible
<1>4. /\ pos' = [pos EXCEPT ![t] = memory[l][n].val]
      /\ view' = [view EXCEPT ![t] = Seen(view[t], l, n)]
      /\ pc' = [pc EXCEPT ![t] = "look"]
      /\ memory' = memory /\ sent' = sent /\ got' = got
  BY DEF LoadPosition, GoTo
<1>5. memory[l][n].val = WordAt(n - 1) /\ n - 1 \in 0 .. Claims(l)
  BY <1>1, <1>3 DEF QInv, PositionsCount
<1>6. n - 1 \in Nat /\ n - 1 \in Words
  BY <1>1, <1>5, CountFacts
<1>7. memory[l][n].val \in Words
  BY <1>5, <1>6, WordFacts
<1>8. Seen(view[t], l, n) \in View
  BY <1>1, <1>2, SeenFacts
<1> HIDE DEF l
<1>9. /\ pos'[t] = WordAt(n - 1) /\ view'[t] = Seen(view[t], l, n) /\ pc'[t] = "look"
      /\ \A u \in Thread : u # t =>
           pc'[u] = pc[u] /\ pos'[u] = pos[u] /\ view'[u] = view[u]
  BY <1>4, <1>5 DEF QInv, TypeOK
<1>10. TypeOK'
  BY <1>4, <1>7, <1>8 DEF QInv, TypeOK
<1>11. \A k \in Location : view'[t][k] <= Len(memory[k])
  <2>1. \A k \in Location : view[t][k] <= Len(memory[k])
    BY DEF QInv, NobodySeesAhead
  <2>2. Seen(view[t], l, n)[l] <= Len(memory[l])
    <3>1. view[t][l] <= Len(memory[l]) /\ n <= Len(memory[l])
      BY <1>1, <1>3, <2>1
    <3> QED BY <1>1, <1>2, <3>1, SeenFacts
  <2>3. \A k \in Location : k # l => Seen(view[t], l, n)[k] = view[t][k]
    BY <1>1, <1>2, SeenFacts, SMTT(30)
  <2> QED BY <1>9, <2>1, <2>2, <2>3
<1>12. Off(t)' = n - 1
  BY <1>6, <1>9, OffsetFacts DEF Off
<1>13. ~ Owner(t)'
  BY <1>9 DEF Owner
<1>14. Started' <= MaxItems
  <2>1. /\ Cardinality(Tries) \in Nat /\ Cardinality(Tries') \in Nat
        /\ Cardinality(Tries') <= Cardinality(Tries) + 1
        /\ t \notin Producers \/ pc[t] \in Trying => Cardinality(Tries') <= Cardinality(Tries)
    BY <1>4, TriesFacts DEF QInv
  <2>2. Claims(TailPos)' = Claims(TailPos) /\ Claims(TailPos) \in Nat
    BY <1>4, CountFacts DEF Claims
  <2>3. Started <= MaxItems
    BY DEF QInv, ClaimsAreBounded
  <2> QED BY <2>1, <2>2, <2>3, StartedIs, Constants
<1> QED BY <1>4, <1>5, <1>9, <1>10, <1>11, <1>12, <1>13, <1>14, QuietStep DEF l

\* The load of a slot's sequence keeps it: what lets a thread go on to claim is the
\* slot's own turn, and the acquire brings what was done in the turns before.
LEMMA LookStep ==
  ASSUME QInv, NEW t \in Thread, NEW n \in Nat \ {0}, Look(t, n)
  PROVE  QInv'
<1> DEFINE i == SlotOf(t)
           l == SeqLoc(i)
           m == memory[l][n]
           saw == Seen(Join(view[t], m.view), l, n)
           d == Diff(m.val, Wanted(t))
<1>1. /\ pc[t] = "look" /\ i \in Index /\ SeqAt(pos[t]) = l /\ Due(t) \in Nat
  BY CallerFacts DEF Look
<1>2. l \in Location /\ ValueLoc(i) \in Location /\ ValueLoc(i) # l
  BY <1>1, LocationFacts
<1>3. Len(memory[l]) \in Nat /\ view[t] \in View /\ view[t][l] \in Nat
  BY <1>2, MemoryFacts DEF QInv, TypeOK, View
<1>4. n \in 1 .. Len(memory[l])
  BY <1>1, <1>3 DEF Look, Visible
<1>5. m.view \in View /\ \A k \in Location : m.view[k] <= Len(memory[k])
  BY <1>2, <1>4, MemoryFacts DEF QInv, NobodySeesAhead
<1>6. /\ view' = [view EXCEPT ![t] = saw]
      /\ memory' = memory /\ sent' = sent /\ got' = got
      /\ \/ d = 0 /\ Stay(t, "claim")
         \/ d < 0 /\ Return(t)
         \/ d > 0 /\ Stay(t, "reload")
  BY <1>1 DEF Look
<1> DEFINE joined == Join(view[t], m.view)
<1>7. joined \in View /\ saw \in View
  <2>1. joined \in View
    BY <1>3, <1>5, JoinFacts
  <2> HIDE DEF joined
  <2>2. Seen(joined, l, n) \in View
    BY <1>2, <2>1, SeenFacts
  <2> QED BY <2>1, <2>2 DEF joined
<1>8. \A k \in Location : saw[k] <= Len(memory[k])
  <2> TAKE k \in Location
  <2>1. view[t][k] <= Len(memory[k]) /\ Len(memory[k]) \in Nat
    BY MemoryFacts DEF QInv, NobodySeesAhead
  <2>2. joined[k] <= Len(memory[k])
    BY <1>3, <1>5, <2>1, JoinFacts
  <2>3. CASE k = l
    <3>1. n <= Len(memory[l]) /\ joined[l] <= Len(memory[l]) /\ Len(memory[l]) \in Nat
      BY <1>4, <2>1, <2>2, <2>3
    <3> HIDE DEF joined
    <3>2. Seen(joined, l, n)[l] <= Len(memory[l])
      BY <1>2, <1>7, <3>1, SeenFacts
    <3> QED BY <2>3, <3>2 DEF joined
  <2>4. CASE k # l
    BY <1>2, <1>7, <2>2, <2>4, SeenFacts
  <2> QED BY <2>3, <2>4
<1>9. d = 0 => /\ Due(t) <= saw[l] /\ Due(t) <= saw[ValueLoc(i)]
  <2> SUFFICES ASSUME d = 0 PROVE Due(t) <= saw[l] /\ Due(t) <= saw[ValueLoc(i)]
    OBVIOUS
  <2>1. n = Due(t)
    BY <1>1, <1>4, LookFinds
  <2>2. saw[l] >= n
    BY <1>2, <1>7, SeenFacts
  <2>3. n <= m.view[ValueLoc(i)]
    BY <1>1, <1>4 DEF QInv, TurnsRelease, Turn
  <2>4. saw[ValueLoc(i)] = Join(view[t], m.view)[ValueLoc(i)]
    BY <1>2, <1>7, SeenFacts
  <2>5. Join(view[t], m.view)[ValueLoc(i)] >= m.view[ValueLoc(i)]
    BY <1>2, <1>3, <1>5, JoinFacts
  <2>6. /\ m.view[ValueLoc(i)] \in Nat /\ Join(view[t], m.view)[ValueLoc(i)] \in Nat
        /\ saw[l] \in Nat
    BY <1>2, <1>5, <1>7 DEF View
  <2> QED BY <2>1, <2>2, <2>3, <2>4, <2>5, <2>6
<1>10. Start \in Words
  BY MpmcAssumption DEF Words
<1>11. PICK label \in {"idle", "claim", "reload"} :
         /\ pc' = [pc EXCEPT ![t] = label]
         /\ label = "claim" => d = 0
         /\ IF label = "idle" THEN pos' = [pos EXCEPT ![t] = Start] ELSE pos' = pos
  <2> HIDE DEF d
  <2> QED BY <1>6 DEF Stay, Return, GoTo
<1> HIDE DEF i, l, m, saw, d
<1>12. /\ pc'[t] = label /\ view'[t] = saw
       /\ label # "idle" => pos'[t] = pos[t]
       /\ \A u \in Thread : u # t =>
            pc'[u] = pc[u] /\ pos'[u] = pos[u] /\ view'[u] = view[u]
  BY <1>6, <1>11 DEF QInv, TypeOK
<1>13. TypeOK'
  <2>1. pos' \in [Thread -> Words]
    BY <1>10, <1>11 DEF QInv, TypeOK
  <2> QED BY <1>6, <1>7, <1>11, <2>1 DEF QInv, TypeOK
<1>14. label # "idle" => Off(t)' = Off(t) /\ SlotOf(t)' = i /\ Due(t)' = Due(t)
  BY <1>12 DEF Off, SlotOf, Due, i
<1>15. Off(t) \in 0 .. Claims(Position(t)) /\ pos[t] = WordAt(Off(t))
  BY <1>1 DEF QInv, CallersCount
<1>16. Started' <= MaxItems
  <2>1. /\ Cardinality(Tries) \in Nat /\ Cardinality(Tries') \in Nat
        /\ Cardinality(Tries') <= Cardinality(Tries)
    BY <1>1, <1>11, TriesFacts DEF QInv, Trying
  <2>2. Claims(TailPos)' = Claims(TailPos) /\ Claims(TailPos) \in Nat
    BY <1>6, CountFacts DEF Claims
  <2>3. Started <= MaxItems
    BY DEF QInv, ClaimsAreBounded
  <2> QED BY <2>1, <2>2, <2>3, StartedIs, Constants
<1>17. ~ Owner(t) /\ ~ Owner(t)'
  BY <1>1, <1>12 DEF Owner
<1>18. pc'[t] = "claim" => /\ Due(t)' <= view'[t][SeqLoc(SlotOf(t)')]
                           /\ Due(t)' <= view'[t][ValueLoc(SlotOf(t)')]
  BY <1>9, <1>11, <1>12, <1>14 DEF l
<1>19. pc'[t] # "idle" => Off(t)' \in 0 .. Claims(Position(t)) /\ pos'[t] = WordAt(Off(t)')
  BY <1>12, <1>14, <1>15
<1>20. \A k \in Location : view'[t][k] <= Len(memory[k])
  BY <1>8, <1>12
<1> QED BY <1>6, <1>12, <1>13, <1>16, <1>17, <1>18, <1>19, <1>20, QuietStep

\* The history of l is one write longer, no other has changed, and no write
\* has seen more of a location than there is.
Wrote(l, v, r) ==
  /\ memory' \in [Location -> Seq([val : Anything, view : View])]
  /\ \A k \in Location : k # l => memory'[k] = memory[k]
  /\ Len(memory'[l]) = Len(memory[l]) + 1 /\ Len(memory[l]) \in Nat \ {0}
  /\ \A n \in 1 .. Len(memory[l]) : memory'[l][n] = memory[l][n]
  /\ memory'[l][Len(memory[l]) + 1].val = v
  /\ memory'[l][Len(memory[l]) + 1].view = r
  /\ \A k \in Location : Len(memory'[k]) >= 1
  /\ \A k, h \in Location : \A n \in 1 .. Len(memory'[k]) :
       memory'[k][n].view[h] <= Len(memory'[h])

\* A write adds to one location, and what it releases lies in the memory.
LEMMA WriteFacts ==
  ASSUME QInv, NEW l \in Location, NEW v \in Anything, NEW r \in View, Write(l, v, r),
         \A k \in Location : k # l => r[k] <= Len(memory[k]),
         r[l] <= Len(memory[l]) + 1
  PROVE  Wrote(l, v, r)
<1> DEFINE S == [val : Anything, view : View]
           q == memory[l]
           e == [val |-> v, view |-> r]
<1>1. q \in Seq(S) /\ e \in S /\ Len(q) \in Nat \ {0}
  BY MemoryFacts DEF QInv
<1>2. memory' = [memory EXCEPT ![l] = Append(q, e)]
  BY DEF Write
<1>3. memory \in [Location -> Seq(S)]
  BY DEF QInv, TypeOK
<1>a. e.val = v /\ e.view = r
  OBVIOUS
<1> HIDE DEF S, e
<1>4. /\ Append(q, e) \in Seq(S) /\ Len(Append(q, e)) = Len(q) + 1
      /\ \A n \in 1 .. Len(q) : Append(q, e)[n] = q[n]
      /\ Append(q, e)[Len(q) + 1] = e
  BY <1>1, AppendProperties
<1>5. /\ memory' \in [Location -> Seq(S)] /\ memory'[l] = Append(q, e)
      /\ \A k \in Location : k # l => memory'[k] = memory[k]
  BY <1>2, <1>3, <1>4
<1>6. \A k \in Location : Len(memory[k]) \in Nat \ {0}
  BY MemoryFacts DEF QInv
<1>7. Len(memory'[l]) = Len(q) + 1
  BY <1>4, <1>5
<1>8. \A k \in Location : /\ Len(memory'[k]) >= 1 /\ Len(memory[k]) <= Len(memory'[k])
                          /\ Len(memory'[k]) \in Nat /\ Len(memory[k]) \in Nat
  BY <1>5, <1>6, <1>7
<1>9. ASSUME NEW k \in Location, NEW h \in Location, NEW n \in 1 .. Len(memory'[k])
      PROVE  memory'[k][n].view[h] <= Len(memory'[h])
  <2>1. ASSUME n \in 1 .. Len(memory[k]), memory'[k][n] = memory[k][n]
        PROVE  memory'[k][n].view[h] <= Len(memory'[h])
    <3>1. memory[k][n].view[h] <= Len(memory[h])
      BY <2>1 DEF QInv, NobodySeesAhead
    <3>2. memory[k][n].view[h] \in Nat
      <4>1. memory[k][n].view \in View
        BY <2>1, MemoryFacts DEF QInv
      <4> QED BY <4>1 DEF View
    <3> QED BY <1>8, <2>1, <3>1, <3>2, SMTT(30)
  <2>2. CASE k # l
    BY <1>5, <2>1, <2>2
  <2>3. CASE k = l /\ n # Len(q) + 1
    <3>1. n \in 1 .. Len(memory[k])
      BY <1>1, <1>7, <2>3
    <3>2. memory'[k][n] = memory[k][n]
      BY <1>4, <1>5, <2>3, <3>1
    <3> QED BY <2>1, <3>1, <3>2
  <2>4. CASE k = l /\ n = Len(q) + 1
    <3>1. memory'[k][n].view = r
      BY <1>4, <1>5, <1>a, <2>4
    <3>2. h # l => memory'[h] = memory[h]
      BY <1>5
    <3>3. r[h] <= Len(memory'[h])
      BY <1>7, <3>2
    <3> QED BY <3>1, <3>3
  <2> QED BY <2>2, <2>3, <2>4
<1> QED BY <1>1, <1>4, <1>5, <1>7, <1>8, <1>9, <1>a DEF S, Wrote

\* The view of a relaxed write has seen the first write of each location.
LEMMA BottomFacts ==
  Bottom(Location) \in View /\ \A k \in Location : Bottom(Location)[k] = 1
BY DEF Bottom, View

\* A thread that wrote has seen what it wrote, nobody else has seen more.
LEMMA NobodyAheadOfWrite ==
  ASSUME QInv, NEW t \in Thread, NEW l \in Location, NEW saw \in View,
         view' = [view EXCEPT ![t] = saw],
         \A k \in Location : k # l => memory'[k] = memory[k],
         Len(memory'[l]) = Len(memory[l]) + 1,
         \A k \in Location : k # l => saw[k] <= Len(memory[k]),
         saw[l] <= Len(memory[l]) + 1
  PROVE  \A u \in Thread, k \in Location : view'[u][k] <= Len(memory'[k])
<1> TAKE u \in Thread, k \in Location
<1>1. view[u][k] <= Len(memory[k]) /\ Len(memory[k]) \in Nat /\ view[u][k] \in Nat
  BY MemoryFacts DEF QInv, NobodySeesAhead, TypeOK, View
<1>2. view'[u] = IF u = t THEN saw ELSE view[u]
  BY DEF QInv, TypeOK
<1>3. saw[k] \in Nat
  BY DEF View
<1>4. CASE k = l
  BY <1>1, <1>2, <1>3, <1>4
<1>5. CASE k # l
  BY <1>1, <1>2, <1>3, <1>5
<1> QED BY <1>4, <1>5

\* What a thread has seen after its own write.
LEMMA OwnSeen ==
  ASSUME QInv, NEW t \in Thread, NEW l \in Location
  PROVE  LET saw == Seen(view[t], l, Len(memory[l]) + 1)
         IN  /\ saw \in View /\ saw[l] = Len(memory[l]) + 1
             /\ \A k \in Location : k # l => saw[k] = view[t][k] /\ saw[k] <= Len(memory[k])
<1> DEFINE n == Len(memory[l]) + 1
           saw == Seen(view[t], l, n)
<1>1. view[t] \in View /\ n \in Nat /\ \A k \in Location : view[t][k] <= Len(memory[k])
  BY MemoryFacts DEF QInv, TypeOK, NobodySeesAhead
<1>2. view[t][l] <= n /\ view[t][l] \in Nat
  <2>1. view[t][l] <= Len(memory[l]) /\ view[t][l] \in Nat /\ Len(memory[l]) \in Nat
    BY <1>1, MemoryFacts DEF QInv, View
  <2> QED BY <2>1
<1> HIDE DEF n
<1>3. /\ saw \in View /\ saw[l] >= n /\ saw[l] <= n
      /\ \A k \in Location : k # l => saw[k] = view[t][k]
  BY <1>1, <1>2, SeenFacts
<1>4. saw[l] \in Nat
  BY <1>3 DEF View
<1>5. saw[l] = n
  BY <1>1, <1>3, <1>4
<1> QED BY <1>1, <1>3, <1>5 DEF n

\* Threads that do not step keep their offset, their slot and their turn.
LEMMA OthersKeep ==
  ASSUME TypeOK, NEW t \in Thread, NEW label, pc' = [pc EXCEPT ![t] = label],
         pos' = pos \/ \E w : pos' = [pos EXCEPT ![t] = w]
  PROVE  /\ pc'[t] = label
         /\ \A u \in Thread : u # t =>
              /\ pc'[u] = pc[u] /\ pos'[u] = pos[u]
              /\ Off(u)' = Off(u) /\ SlotOf(u)' = SlotOf(u) /\ Due(u)' = Due(u)
              /\ (Owner(u)' <=> Owner(u))
<1>1. /\ pc'[t] = label
      /\ \A u \in Thread : u # t => pc'[u] = pc[u] /\ pos'[u] = pos[u]
  BY DEF TypeOK
<1> QED BY <1>1 DEF Off, SlotOf, Due, Owner

\* A claim keeps it: the exchange has seen the newest position.
LEMMA ClaimStep ==
  ASSUME QInv, NEW t \in Thread, Claim(t)
  PROVE  QInv'
<1> DEFINE l == Position(t)
           n == Len(memory[l])
           o == Off(t)
           i == SlotOf(t)
           saw == Seen(view[t], l, n + 1)
<1>1. /\ pc[t] = "claim" /\ Newest(memory, l) = pos[t]
      /\ Write(l, (pos[t] + 1) % Word, Bottom(Location))
      /\ view' = [view EXCEPT ![t] = saw]
      /\ pc' = [pc EXCEPT ![t] = "use"]
      /\ pos' = pos /\ sent' = sent /\ got' = got
  BY DEF Claim, GoTo
<1>2. /\ l \in {TailPos, HeadPos} /\ l \in Location /\ n \in Nat \ {0} /\ Claims(l) = n - 1
  BY LocationFacts, MemoryFacts DEF QInv, Claims
<1>3. /\ o = Claims(l) /\ Turn(i) = Due(t) /\ Uses(i) = Due(t)
      /\ view[t][ValueLoc(i)] = Due(t) /\ (t \in Consumers => o < Claims(TailPos))
  BY <1>1, ClaimFinds
<1>4. /\ o \in Nat /\ pos[t] = WordAt(o) /\ i \in Index /\ i = SlotAt(o)
  BY <1>1, CallerFacts DEF SlotOf
<1>5. (pos[t] + 1) % Word = WordAt(o + 1) /\ (pos[t] + 1) % Word \in Words
  BY <1>4, WordFacts
<1>6. (pos[t] + 1) % Word \in Anything
  BY <1>5 DEF Anything
<1>7. /\ memory' \in [Location -> Seq([val : Anything, view : View])]
      /\ \A k \in Location : k # l => memory'[k] = memory[k]
      /\ Len(memory'[l]) = n + 1
      /\ \A m \in 1 .. n : memory'[l][m] = memory[l][m]
      /\ memory'[l][n + 1].val = WordAt(o + 1)
      /\ \A k \in Location : Len(memory'[k]) >= 1
      /\ \A k, h \in Location : \A m \in 1 .. Len(memory'[k]) :
           memory'[k][m].view[h] <= Len(memory'[h])
  <2>1. \A k \in Location : Len(memory[k]) \in Nat \ {0}
    BY MemoryFacts DEF QInv
  <2>2. /\ \A k \in Location : k # l => Bottom(Location)[k] <= Len(memory[k])
        /\ Bottom(Location)[l] <= Len(memory[l]) + 1
    BY <1>2, <2>1, BottomFacts
  <2>3. n = Len(memory[l])
    OBVIOUS
  <2> HIDE DEF l, n, o
  <2> DEFINE v == (pos[t] + 1) % Word
  <2>4. v \in Anything /\ Write(l, v, Bottom(Location)) /\ v = WordAt(o + 1)
    BY <1>1, <1>5, <1>6
  <2> HIDE DEF v
  <2>5. Bottom(Location) \in View
    BY BottomFacts
  <2> HIDE DEF i, saw
  <2>6. /\ memory' \in [Location -> Seq([val : Anything, view : View])]
        /\ \A k \in Location : k # l => memory'[k] = memory[k]
        /\ Len(memory'[l]) = Len(memory[l]) + 1
        /\ \A m \in 1 .. Len(memory[l]) : memory'[l][m] = memory[l][m]
        /\ memory'[l][Len(memory[l]) + 1].val = v
        /\ \A k \in Location : Len(memory'[k]) >= 1
        /\ \A k, h \in Location : \A m \in 1 .. Len(memory'[k]) :
             memory'[k][m].view[h] <= Len(memory'[h])
    <3> DEFINE b == Bottom(Location)
    <3>1. l \in Location /\ v \in Anything /\ b \in View /\ Write(l, v, b)
      BY <1>2, <2>4, <2>5
    <3>2. \A k \in Location : k # l => b[k] <= Len(memory[k])
      BY <2>2
    <3>3. b[l] <= Len(memory[l]) + 1
      BY <2>2
    <3> HIDE DEF b
    <3>4. Wrote(l, v, b)
      BY <3>1, <3>2, <3>3, WriteFacts
    <3> QED BY <3>4 DEF Wrote
  <2> QED BY <2>3, <2>4, <2>6
<1>8. /\ saw \in View /\ saw[l] = n + 1
      /\ \A k \in Location : k # l => saw[k] = view[t][k] /\ saw[k] <= Len(memory[k])
  BY <1>2, OwnSeen
<1> HIDE DEF l, n, o, i, saw
<1>9. /\ pc'[t] = "use"
      /\ \A u \in Thread : u # t =>
           /\ pc'[u] = pc[u] /\ pos'[u] = pos[u]
           /\ Off(u)' = Off(u) /\ SlotOf(u)' = SlotOf(u) /\ Due(u)' = Due(u)
           /\ (Owner(u)' <=> Owner(u))
  BY <1>1, OthersKeep DEF QInv
<1>10. view'[t] = saw /\ \A u \in Thread : u # t => view'[u] = view[u]
  BY <1>1 DEF QInv, TypeOK
<1>11. Off(t)' = o /\ SlotOf(t)' = i /\ Due(t)' = Due(t) /\ Owner(t)'
  BY <1>1, <1>9 DEF Off, SlotOf, Due, Owner, o, i
<1>12. \A k \in Index : /\ Turn(k)' = Turn(k) /\ Uses(k)' = Uses(k)
                        /\ memory'[SeqLoc(k)] = memory[SeqLoc(k)]
                        /\ memory'[ValueLoc(k)] = memory[ValueLoc(k)]
  BY <1>2, <1>7, LocationFacts DEF Turn, Uses
<1>13. /\ Claims(l)' = Claims(l) + 1 /\ Claims(l) \in Nat
       /\ \A k \in {TailPos, HeadPos} : k # l => Claims(k)' = Claims(k)
       /\ \A k \in {TailPos, HeadPos} : Claims(k) \in Nat /\ Claims(k)' \in Nat
                                        /\ Claims(k) <= Claims(k)'
  <2>1. Claims(l)' = Claims(l) + 1 /\ Claims(l) \in Nat
    BY <1>2, <1>7 DEF Claims, n
  <2>2. \A k \in {TailPos, HeadPos} : k # l => Claims(k)' = Claims(k)
    BY <1>7, LocationFacts DEF Claims
  <2>3. Claims(TailPos) \in Nat /\ Claims(HeadPos) \in Nat
    BY CountFacts
  <2> QED BY <1>2, <2>1, <2>2, <2>3
<1>14. TypeOK'
  BY <1>1, <1>7, <1>8 DEF QInv, TypeOK
<1>15. NobodySeesAhead'
  <2>1. \A u \in Thread, k \in Location : view'[u][k] <= Len(memory'[k])
    <3>1. /\ Len(memory'[l]) = Len(memory[l]) + 1
          /\ saw[l] <= Len(memory[l]) + 1
      BY <1>2, <1>7, <1>8 DEF n
    <3>2. \A k \in Location : k # l => memory'[k] = memory[k] /\ saw[k] <= Len(memory[k])
      BY <1>7, <1>8
    <3>3. saw \in View /\ view' = [view EXCEPT ![t] = saw]
      BY <1>1, <1>8
    <3>4. /\ \A k \in Location : k # l => memory'[k] = memory[k]
          /\ \A k \in Location : k # l => saw[k] <= Len(memory[k])
      BY <3>2
    <3>5. l \in Location
      BY <1>2
    <3> QED BY <3>1, <3>3, <3>4, <3>5, NobodyAheadOfWrite
  <2> QED BY <1>7, <2>1 DEF NobodySeesAhead
<1>16. PositionsCount'
  <2> SUFFICES ASSUME NEW k \in {TailPos, HeadPos}, NEW m \in 1 .. Len(memory'[k])
               PROVE  memory'[k][m].val = WordAt(m - 1)
    BY DEF PositionsCount
  <2>1. CASE k # l
    BY <1>7, <2>1, LocationFacts DEF QInv, PositionsCount
  <2>2. CASE k = l /\ m # n + 1
    <3>1. m \in 1 .. n /\ memory'[k][m] = memory[k][m]
      BY <1>2, <1>7, <2>2
    <3> QED BY <2>2, <3>1 DEF QInv, PositionsCount, n
  <2>3. CASE k = l /\ m = n + 1
    <3>1. m - 1 = o + 1
      BY <1>2, <1>3, <1>4, <2>3
    <3> QED BY <1>7, <2>3, <3>1
  <2> QED BY <2>1, <2>2, <2>3
<1>17. SlotsTakeTurns' /\ TurnsRelease'
  BY <1>12, WordFacts DEF QInv, SlotsTakeTurns, TurnsRelease
<1>18. UsesAreClaimed'
  <2>1. \A k \in Index : Turn(k)' <= Uses(k)'
    BY <1>12 DEF QInv, UsesAreClaimed
  <2>2. ASSUME NEW j \in Nat
        PROVE  /\ Filled(j) <= Uses(SlotAt(j))' => j < Claims(TailPos)'
               /\ Filled(j) + 1 <= Uses(SlotAt(j))' => j < Claims(HeadPos)'
    <3>1. Uses(SlotAt(j))' = Uses(SlotAt(j))
      BY <1>12, WordFacts
    <3>2. /\ Filled(j) <= Uses(SlotAt(j)) => j < Claims(TailPos)
          /\ Filled(j) + 1 <= Uses(SlotAt(j)) => j < Claims(HeadPos)
      BY DEF QInv, UsesAreClaimed
    <3> QED BY <1>13, <3>1, <3>2
  <2> QED BY <2>1, <2>2 DEF UsesAreClaimed
<1>19. ClaimsAreBounded'
  <2>1. /\ Cardinality(Tries) \in Nat /\ Cardinality(Tries') \in Nat
        /\ Cardinality(Tries') <= Cardinality(Tries)
        /\ t \in Producers => Cardinality(Tries') = Cardinality(Tries) - 1
    <3>1. pc[t] \in Trying /\ "use" \notin Trying
      BY <1>1 DEF Trying
    <3>2. TypeOK
      BY DEF QInv
    <3> QED BY <1>1, <3>1, <3>2, TriesFacts
  <2>2. Started <= MaxItems /\ Claims(HeadPos) <= Claims(TailPos)
    BY DEF QInv, ClaimsAreBounded
  <2>3. CASE t \in Producers
    <3>1. l = TailPos /\ HeadPos # l
      BY <2>3, LocationFacts DEF l
    <3> QED BY <1>13, <2>1, <2>2, <2>3, <3>1, StartedIs, Constants DEF ClaimsAreBounded
  <2>4. CASE t \in Consumers
    <3>1. l = HeadPos /\ TailPos # l
      BY <2>4, LocationFacts DEF l
    <3>2. Claims(HeadPos) < Claims(TailPos)
      BY <1>3, <2>4, <3>1
    <3> QED BY <1>13, <2>1, <2>2, <3>1, <3>2, StartedIs, Constants DEF ClaimsAreBounded
  <2> QED BY <2>3, <2>4, LocationFacts
<1>20. CallersCount'
  <2> SUFFICES ASSUME NEW u \in Thread, pc'[u] # "idle"
               PROVE  Off(u)' \in 0 .. Claims(Position(u))' /\ pos'[u] = WordAt(Off(u)')
    BY DEF CallersCount
  <2>1. /\ Position(u) \in {TailPos, HeadPos} /\ Claims(Position(u)) \in Nat
        /\ Claims(Position(u))' \in Nat /\ Claims(Position(u)) <= Claims(Position(u))'
    BY <1>13, LocationFacts
  <2>2. pc[u] # "idle"
    BY <1>1, <1>9
  <2>3. Off(u) \in 0 .. Claims(Position(u)) /\ pos[u] = WordAt(Off(u))
    BY <2>2 DEF QInv, CallersCount
  <2>4. Off(u)' = Off(u) /\ pos'[u] = pos[u]
    BY <1>1, <1>9, <1>11 DEF o
  <2> QED BY <2>1, <2>3, <2>4
<1>21. ClaimersHaveSeen'
  BY <1>9, <1>10 DEF QInv, ClaimersHaveSeen
<1>22. OwnersHaveTheTurn'
  <2> SUFFICES ASSUME NEW u \in Thread, Owner(u)'
               PROVE  /\ Off(u)' < Claims(Position(u))'
                      /\ Turn(SlotOf(u))' = Due(u)'
                      /\ Uses(SlotOf(u))' = IF pc'[u] = "use" THEN Due(u)' ELSE Due(u)' + 1
                      /\ view'[u][ValueLoc(SlotOf(u)')] = Uses(SlotOf(u))'
    BY DEF OwnersHaveTheTurn
  <2>1. CASE u = t
    <3>1. SlotOf(u)' = i /\ Due(u)' = Due(t) /\ Off(u)' = o
      BY <1>11, <2>1
    <3>2. Turn(SlotOf(u))' = Turn(i) /\ Uses(SlotOf(u))' = Uses(i)
      BY <1>4, <1>12, <3>1 DEF Turn, Uses
    <3>3. saw[ValueLoc(i)] = view[t][ValueLoc(i)]
      BY <1>2, <1>4, <1>8, LocationFacts
    <3>4. o < Claims(Position(u))'
      BY <1>3, <1>4, <1>13, <2>1 DEF l
    <3> QED BY <1>3, <1>9, <1>10, <2>1, <3>1, <3>2, <3>3, <3>4
  <2>2. CASE u # t
    <3>1. Owner(u)
      BY <1>9, <2>2
    <3>2. SlotOf(u) \in Index /\ Off(u) \in Nat
      BY <3>1, CallerFacts DEF Owner
    <3>3. Turn(SlotOf(u))' = Turn(SlotOf(u)) /\ Uses(SlotOf(u))' = Uses(SlotOf(u))
      BY <1>9, <1>12, <2>2, <3>2 DEF Turn, Uses
    <3>4. Claims(Position(u)) <= Claims(Position(u))' /\ Claims(Position(u)) \in Nat
          /\ Claims(Position(u))' \in Nat
      BY <1>13, LocationFacts
    <3>5. /\ Off(u) < Claims(Position(u))
          /\ Turn(SlotOf(u)) = Due(u)
          /\ Uses(SlotOf(u)) = IF pc[u] = "use" THEN Due(u) ELSE Due(u) + 1
          /\ view[u][ValueLoc(SlotOf(u))] = Uses(SlotOf(u))
      BY <3>1 DEF QInv, OwnersHaveTheTurn
    <3> QED BY <1>9, <1>10, <2>2, <3>2, <3>3, <3>4, <3>5
  <2> QED BY <2>1, <2>2
<1>23. OwnersDiffer'
  <2>1. ASSUME NEW u \in Thread, u # t, Owner(u), Position(u) = l
        PROVE  Off(u) # o
    <3>1. Off(u) < Claims(l)
      BY <2>1 DEF QInv, OwnersHaveTheTurn
    <3> QED BY <1>3, <1>13, <3>1
  <2> QED BY <1>9, <1>11, <2>1 DEF QInv, OwnersDiffer, l
<1> QED BY <1>14, <1>15, <1>16, <1>17, <1>18, <1>19, <1>20, <1>21, <1>22, <1>23 DEF QInv

\* What a use leaves: one more write of the payload of its slot.
LEMMA UseFacts ==
  ASSUME QInv, NEW t \in Thread, Use(t)
  PROVE  LET l == ValueLoc(SlotOf(t))
             n == Len(memory[l])
         IN  /\ TypeOK' /\ NobodySeesAhead'
             /\ l \in Location /\ n \in Nat \ {0} /\ n = Due(t)
             /\ \A k \in Location : k # l => memory'[k] = memory[k]
             /\ Len(memory'[l]) = n + 1
             /\ \A m \in 1 .. n : memory'[l][m] = memory[l][m]
             /\ memory'[l][n + 1].val =
                  IF t \in Producers THEN <<t, sent[t] + 1>> ELSE memory[l][n].val
             /\ view'[t][l] = n + 1
             /\ \A k \in Location : k # l => view'[t][k] = view[t][k]
             /\ \A u \in Thread : u # t => view'[u] = view[u]
             /\ pc' = [pc EXCEPT ![t] = "publish"] /\ pos' = pos /\ sent' = sent
             /\ pc[t] = "use"
             /\ got' = IF t \in Producers THEN got
                       ELSE [got EXCEPT ![t] = Append(@, memory[l][n].val)]
<1> DEFINE i == SlotOf(t)
           l == ValueLoc(i)
           n == Len(memory[l])
           old == memory[l][n].val
           v == IF t \in Producers THEN <<t, sent[t] + 1>> ELSE old
           saw == Seen(view[t], l, n + 1)
           b == Bottom(Location)
<1>1. pc[t] = "use" /\ Owner(t) /\ pc[t] # "idle"
  BY DEF Use, Owner
<1>2. i \in Index /\ Value(pos[t]) = l
  BY <1>1, CallerFacts
<1>3. /\ Write(l, v, b) /\ view' = [view EXCEPT ![t] = saw]
      /\ got' = IF t \in Producers THEN got ELSE [got EXCEPT ![t] = Append(@, old)]
      /\ pc' = [pc EXCEPT ![t] = "publish"] /\ pos' = pos /\ sent' = sent
  BY <1>2 DEF Use, GoTo, Newest
<1>4. l \in Location /\ n \in Nat \ {0}
  BY <1>2, LocationFacts, MemoryFacts DEF QInv
<1>5. n = Due(t)
  BY <1>1 DEF QInv, OwnersHaveTheTurn, Uses
<1>6. old \in Anything
  BY <1>4, MemoryFacts DEF QInv
<1>7. v \in Anything
  <2>1. t \in Producers => <<t, sent[t] + 1>> \in Producers \X Nat
    BY DEF QInv, TypeOK
  <2> HIDE DEF old
  <2> QED BY <1>6, <2>1 DEF Anything
<1>8. /\ saw \in View /\ saw[l] = n + 1
      /\ \A k \in Location : k # l => saw[k] = view[t][k] /\ saw[k] <= Len(memory[k])
  BY <1>4, OwnSeen
<1>9. b \in View /\ \A k \in Location : b[k] = 1
  BY BottomFacts
<1>a. n = Len(memory[l]) /\ old = memory[l][n].val
      /\ v = IF t \in Producers THEN <<t, sent[t] + 1>> ELSE old
  OBVIOUS
<1> HIDE DEF i, l, n, v, saw, b, old
<1>10. \A k \in Location : Len(memory[k]) \in Nat \ {0}
  BY MemoryFacts DEF QInv
<1>11. /\ memory' \in [Location -> Seq([val : Anything, view : View])]
       /\ \A k \in Location : k # l => memory'[k] = memory[k]
       /\ Len(memory'[l]) = Len(memory[l]) + 1
       /\ \A m \in 1 .. Len(memory[l]) : memory'[l][m] = memory[l][m]
       /\ memory'[l][Len(memory[l]) + 1].val = v
       /\ \A k \in Location : Len(memory'[k]) >= 1
       /\ \A k, h \in Location : \A m \in 1 .. Len(memory'[k]) :
            memory'[k][m].view[h] <= Len(memory'[h])
  <2>1. l \in Location /\ v \in Anything /\ b \in View /\ Write(l, v, b)
    BY <1>3, <1>4, <1>7, <1>9
  <2>2. \A k \in Location : k # l => b[k] <= Len(memory[k])
    BY <1>9, <1>10
  <2>3. b[l] <= Len(memory[l]) + 1
    BY <1>4, <1>9, <1>10
  <2>4. Wrote(l, v, b)
    BY <2>1, <2>2, <2>3, WriteFacts
  <2> QED BY <2>4 DEF Wrote
<1>12. TypeOK'
  <2>1. got' \in [Consumers -> Seq(Anything)]
    <3>1. CASE t \in Producers
      BY <1>3, <3>1 DEF QInv, TypeOK
    <3>2. CASE t \notin Producers
      <4>1. t \in Consumers /\ got[t] \in Seq(Anything)
        BY <3>2, LocationFacts DEF QInv, TypeOK
      <4>2. Append(got[t], old) \in Seq(Anything)
        BY <1>6, <4>1, AppendProperties
      <4> QED BY <1>3, <3>2, <4>2 DEF QInv, TypeOK
    <3> QED BY <3>1, <3>2
  <2>2. /\ view' \in [Thread -> View] /\ pos' \in [Thread -> Words]
        /\ sent' \in [Producers -> Nat]
        /\ pc' \in [Thread -> {"idle", "look", "reload", "claim", "use", "publish"}]
    BY <1>3, <1>8 DEF QInv, TypeOK
  <2> QED BY <1>11, <2>1, <2>2 DEF TypeOK
<1>13. NobodySeesAhead'
  <2>1. Len(memory'[l]) = Len(memory[l]) + 1 /\ saw[l] <= Len(memory[l]) + 1
    BY <1>4, <1>8, <1>11, <1>a
  <2>2. /\ \A k \in Location : k # l => memory'[k] = memory[k]
        /\ \A k \in Location : k # l => saw[k] <= Len(memory[k])
    BY <1>8, <1>11
  <2>3. l \in Location /\ saw \in View /\ view' = [view EXCEPT ![t] = saw]
    BY <1>3, <1>4, <1>8
  <2>4. \A u \in Thread, k \in Location : view'[u][k] <= Len(memory'[k])
    BY <2>1, <2>2, <2>3, NobodyAheadOfWrite
  <2> QED BY <1>11, <2>4 DEF NobodySeesAhead
<1>14. view'[t] = saw /\ \A u \in Thread : u # t => view'[u] = view[u]
  BY <1>3 DEF QInv, TypeOK
<1>15. /\ l \in Location /\ n \in Nat \ {0} /\ n = Due(t)
       /\ \A k \in Location : k # l => memory'[k] = memory[k]
       /\ Len(memory'[l]) = n + 1
       /\ \A m \in 1 .. n : memory'[l][m] = memory[l][m]
       /\ memory'[l][n + 1].val = v
  BY <1>4, <1>5, <1>11, <1>a
<1>16. view'[t][l] = n + 1 /\ \A k \in Location : k # l => view'[t][k] = view[t][k]
  BY <1>8, <1>14
<1> QED BY <1>1, <1>3, <1>12, <1>13, <1>14, <1>15, <1>16 DEF v, old, n, l, i

\* The use of the payload keeps it: nobody else has the slot.
LEMMA UseStep ==
  ASSUME QInv, NEW t \in Thread, Use(t)
  PROVE  QInv'
<1> DEFINE i == SlotOf(t)
           l == ValueLoc(i)
           n == Len(memory[l])
           o == Off(t)
<1>1. /\ TypeOK' /\ NobodySeesAhead'
      /\ l \in Location /\ n \in Nat \ {0} /\ n = Due(t)
      /\ \A k \in Location : k # l => memory'[k] = memory[k]
      /\ Len(memory'[l]) = n + 1
      /\ view'[t][l] = n + 1
      /\ \A k \in Location : k # l => view'[t][k] = view[t][k]
      /\ \A u \in Thread : u # t => view'[u] = view[u]
      /\ pc' = [pc EXCEPT ![t] = "publish"] /\ pos' = pos /\ pc[t] = "use"
  BY UseFacts
<1>2. /\ i \in Index /\ o \in Nat /\ i = SlotAt(o) /\ Due(t) \in Nat
  BY <1>1, CallerFacts DEF SlotOf
<1>3. Owner(t) /\ o < Claims(Position(t)) /\ Turn(i) = Due(t) /\ Uses(i) = n
  BY <1>1 DEF QInv, OwnersHaveTheTurn, Owner, Uses
<1>4. Freed(o) \in Nat \ {0} /\ Filled(o) = Freed(o) + 1
  BY <1>2, TurnFacts
<1> HIDE DEF i, l, n, o
<1>5. /\ pc'[t] = "publish"
      /\ \A u \in Thread : u # t =>
           /\ pc'[u] = pc[u] /\ pos'[u] = pos[u]
           /\ Off(u)' = Off(u) /\ SlotOf(u)' = SlotOf(u) /\ Due(u)' = Due(u)
           /\ (Owner(u)' <=> Owner(u))
  BY <1>1, OthersKeep DEF QInv
<1>6. Off(t)' = o /\ SlotOf(t)' = i /\ Due(t)' = Due(t) /\ Owner(t)'
  BY <1>1, <1>5 DEF Off, SlotOf, Due, Owner, o, i
<1>7. /\ \A k \in Index : Turn(k)' = Turn(k) /\ memory'[SeqLoc(k)] = memory[SeqLoc(k)]
      /\ \A k \in Index : Uses(k)' = IF k = i THEN n + 1 ELSE Uses(k)
      /\ memory'[TailPos] = memory[TailPos] /\ memory'[HeadPos] = memory[HeadPos]
  <2>1. \A k \in Index : memory'[SeqLoc(k)] = memory[SeqLoc(k)]
    BY <1>1, <1>2, LocationFacts DEF l
  <2>2. \A k \in Index : k # i => memory'[ValueLoc(k)] = memory[ValueLoc(k)]
    BY <1>1, <1>2, LocationFacts DEF l
  <2>3. memory'[TailPos] = memory[TailPos] /\ memory'[HeadPos] = memory[HeadPos]
    BY <1>1, <1>2, LocationFacts DEF l
  <2>4. Len(memory'[ValueLoc(i)]) = n + 1
    BY <1>1 DEF l
  <2> QED BY <2>1, <2>2, <2>3, <2>4 DEF Turn, Uses
<1>8. \A k \in {TailPos, HeadPos} : Claims(k)' = Claims(k)
  BY <1>7 DEF Claims
<1>9. PositionsCount'
  BY <1>7 DEF QInv, PositionsCount
<1>10. SlotsTakeTurns'
  BY <1>7, WordFacts DEF QInv, SlotsTakeTurns
<1>11. TurnsRelease'
  BY <1>7 DEF QInv, TurnsRelease
<1>12. ClaimsAreBounded'
  <2>1. Cardinality(Tries') <= Cardinality(Tries)
        /\ Cardinality(Tries) \in Nat /\ Cardinality(Tries') \in Nat
    <3>1. "publish" \notin Trying
      BY DEF Trying
    <3> QED BY <1>1, <3>1, TriesFacts DEF QInv
  <2>2. Started <= MaxItems /\ Claims(HeadPos) <= Claims(TailPos) /\ Claims(TailPos) \in Nat
    BY CountFacts DEF QInv, ClaimsAreBounded
  <2> QED BY <1>8, <2>1, <2>2, StartedIs, Constants DEF ClaimsAreBounded
<1>13. UsesAreClaimed'
  <2>1. \A k \in Index : Turn(k)' <= Uses(k)'
    <3>1. \A k \in Index : Turn(k) <= Uses(k)
      BY DEF QInv, UsesAreClaimed
    <3> QED BY <1>1, <1>3, <1>7, <3>1
  <2>2. ASSUME NEW j \in Nat
        PROVE  /\ Filled(j) <= Uses(SlotAt(j))' => j < Claims(TailPos)
               /\ Filled(j) + 1 <= Uses(SlotAt(j))' => j < Claims(HeadPos)
    <3>1. /\ Filled(j) <= Uses(SlotAt(j)) => j < Claims(TailPos)
          /\ Filled(j) + 1 <= Uses(SlotAt(j)) => j < Claims(HeadPos)
      BY DEF QInv, UsesAreClaimed
    <3>2. SlotAt(j) \in Index /\ Freed(j) \in Nat /\ Filled(j) = Freed(j) + 1
      BY WordFacts, TurnFacts
    <3>3. CASE SlotAt(j) # i
      BY <1>7, <3>1, <3>2, <3>3
    <3>4. CASE SlotAt(j) = i
      <4>1. Uses(SlotAt(j))' = n + 1 /\ Uses(SlotAt(j)) = n
        BY <1>2, <1>3, <1>7, <3>4
      <4>2. /\ Freed(j) = Freed(o) => j = o
            /\ Freed(j) # Filled(o) /\ Freed(o) # Filled(j)
        BY <1>2, <3>4, TurnsAreOwn
      <4>3. CASE t \in Producers
        <5>1. n = Freed(o) /\ Position(t) = TailPos
          BY <1>1, <4>3, LocationFacts DEF Due, o
        <5>2. Filled(j) = n + 1 => j < Claims(TailPos)
          BY <1>3, <1>4, <3>2, <4>2, <5>1
        <5>3. Filled(j) + 1 # n + 1
          BY <1>4, <3>2, <4>2, <5>1
        <5> QED BY <1>1, <3>1, <3>2, <3>4, <4>1, <5>2, <5>3
      <4>4. CASE t \notin Producers
        <5>1. n = Filled(o) /\ Position(t) = HeadPos
          BY <1>1, <4>4, LocationFacts DEF Due, o
        <5>2. Filled(j) + 1 = n + 1 => j < Claims(HeadPos)
          BY <1>3, <1>4, <3>2, <4>2, <5>1
        <5>3. Filled(j) # n + 1
          BY <1>4, <3>2, <4>2, <5>1
        <5> QED BY <1>1, <3>1, <3>2, <3>4, <4>1, <5>2, <5>3
      <4> QED BY <4>3, <4>4
    <3> QED BY <3>3, <3>4
  <2> QED BY <1>8, <2>1, <2>2 DEF UsesAreClaimed
<1>14. CallersCount'
  <2> SUFFICES ASSUME NEW u \in Thread, pc'[u] # "idle"
               PROVE  Off(u)' \in 0 .. Claims(Position(u))' /\ pos'[u] = WordAt(Off(u)')
    BY DEF CallersCount
  <2>1. pc[u] # "idle" /\ Off(u)' = Off(u) /\ pos'[u] = pos[u]
    BY <1>1, <1>5, <1>6 DEF o
  <2>2. Claims(Position(u))' = Claims(Position(u))
    BY <1>8, LocationFacts
  <2> QED BY <2>1, <2>2 DEF QInv, CallersCount
<1>15. ClaimersHaveSeen'
  BY <1>1, <1>5 DEF QInv, ClaimersHaveSeen
<1>16. OwnersHaveTheTurn'
  <2> SUFFICES ASSUME NEW u \in Thread, Owner(u)'
               PROVE  /\ Off(u)' < Claims(Position(u))'
                      /\ Turn(SlotOf(u))' = Due(u)'
                      /\ Uses(SlotOf(u))' = IF pc'[u] = "use" THEN Due(u)' ELSE Due(u)' + 1
                      /\ view'[u][ValueLoc(SlotOf(u)')] = Uses(SlotOf(u))'
    BY DEF OwnersHaveTheTurn
  <2>0. Claims(Position(u))' = Claims(Position(u))
    BY <1>8, LocationFacts
  <2>1. CASE u = t
    <3>1. Turn(SlotOf(u))' = Turn(i) /\ Uses(SlotOf(u))' = n + 1
      BY <1>2, <1>6, <1>7, <2>1 DEF Turn, Uses
    <3>2. view'[t][ValueLoc(i)] = n + 1
      BY <1>1 DEF l
    <3> QED BY <1>1, <1>3, <1>5, <1>6, <2>0, <2>1, <3>1, <3>2
  <2>2. CASE u # t
    <3>1. Owner(u)
      BY <1>5, <2>2
    <3>2. SlotOf(u) \in Index /\ SlotOf(u) # i
      BY <1>3, <2>2, <3>1, CallerFacts, OwnersApart DEF Owner, i
    <3>3. Turn(SlotOf(u))' = Turn(SlotOf(u)) /\ Uses(SlotOf(u))' = Uses(SlotOf(u))
      BY <1>5, <1>7, <2>2, <3>2 DEF Turn, Uses
    <3>4. /\ Off(u) < Claims(Position(u))
          /\ Turn(SlotOf(u)) = Due(u)
          /\ Uses(SlotOf(u)) = IF pc[u] = "use" THEN Due(u) ELSE Due(u) + 1
          /\ view[u][ValueLoc(SlotOf(u))] = Uses(SlotOf(u))
      BY <3>1 DEF QInv, OwnersHaveTheTurn
    <3> QED BY <1>1, <1>5, <2>0, <2>2, <3>2, <3>3, <3>4
  <2> QED BY <2>1, <2>2
<1>17. OwnersDiffer'
  BY <1>3, <1>5, <1>6 DEF QInv, OwnersDiffer, o
<1> QED BY <1>1, <1>9, <1>10, <1>11, <1>12, <1>13, <1>14, <1>15, <1>16, <1>17 DEF QInv

\* The release store keeps it, and hands the slot on to the next turn.
LEMMA PublishStep ==
  ASSUME QInv, NEW t \in Thread, Publish(t)
  PROVE  QInv'
<1> DEFINE i == SlotOf(t)
           l == SeqLoc(i)
           n == Len(memory[l])
           o == Off(t)
           saw == Seen(view[t], l, n + 1)
           v == Left(t)
<1>1. pc[t] = "publish" /\ Owner(t) /\ pc[t] # "idle"
  BY DEF Publish, Owner
<1>2. /\ i \in Index /\ o \in Nat /\ i = SlotAt(o) /\ Due(t) \in Nat
      /\ SeqAt(pos[t]) = l /\ pos[t] = WordAt(o)
  BY <1>1, CallerFacts DEF SlotOf
<1>3. /\ Write(l, v, saw) /\ view' = [view EXCEPT ![t] = saw]
      /\ sent' = IF t \in Producers THEN [sent EXCEPT ![t] = @ + 1] ELSE sent
      /\ pc' = [pc EXCEPT ![t] = "idle"] /\ pos' = [pos EXCEPT ![t] = Start]
      /\ got' = got
  BY <1>2 DEF Publish, Return, GoTo
<1>4. l \in Location /\ n \in Nat \ {0} /\ ValueLoc(i) \in Location /\ ValueLoc(i) # l
  BY <1>2, LocationFacts, MemoryFacts DEF QInv
<1>5. /\ n = Due(t) /\ Uses(i) = n + 1 /\ view[t][ValueLoc(i)] = n + 1
      /\ o < Claims(Position(t)) /\ Turn(i) = n
  BY <1>1 DEF QInv, OwnersHaveTheTurn, Turn
<1>6. v = WordAt(IF t \in Producers THEN o + 1 ELSE o + Cap) /\ v \in Words
  <2>1. v = WordAt(IF t \in Producers THEN o + 1 ELSE o + Cap)
    BY <1>2, WordFacts DEF Left
  <2>2. o + 1 \in Nat /\ o + Cap \in Nat
    BY <1>2, Constants
  <2> QED BY <2>1, <2>2, WordFacts
<1>7. v \in Anything
  BY <1>6 DEF Anything
<1>8. /\ saw \in View /\ saw[l] = n + 1
      /\ \A k \in Location : k # l => saw[k] = view[t][k] /\ saw[k] <= Len(memory[k])
  BY <1>4, OwnSeen
<1>9. Freed(o) \in Nat \ {0} /\ Filled(o) = Freed(o) + 1
      /\ SlotAt(o + Cap) = SlotAt(o) /\ Freed(o + Cap) = Freed(o) + 2 /\ o + Cap \in Nat
  BY <1>2, TurnFacts, Constants
<1>a. n = Len(memory[l])
  OBVIOUS
<1> HIDE DEF i, l, n, o, v, saw
<1>10. /\ memory' \in [Location -> Seq([val : Anything, view : View])]
       /\ \A k \in Location : k # l => memory'[k] = memory[k]
       /\ Len(memory'[l]) = Len(memory[l]) + 1
       /\ \A m \in 1 .. Len(memory[l]) : memory'[l][m] = memory[l][m]
       /\ memory'[l][Len(memory[l]) + 1].val = v
       /\ memory'[l][Len(memory[l]) + 1].view = saw
       /\ \A k \in Location : Len(memory'[k]) >= 1
       /\ \A k, h \in Location : \A m \in 1 .. Len(memory'[k]) :
            memory'[k][m].view[h] <= Len(memory'[h])
  <2>1. l \in Location /\ v \in Anything /\ saw \in View /\ Write(l, v, saw)
    BY <1>3, <1>4, <1>7, <1>8
  <2>2. \A k \in Location : k # l => saw[k] <= Len(memory[k])
    BY <1>8
  <2>3. saw[l] <= Len(memory[l]) + 1
    BY <1>4, <1>8, <1>a
  <2>4. Wrote(l, v, saw)
    BY <2>1, <2>2, <2>3, WriteFacts
  <2> QED BY <2>4 DEF Wrote
<1>11. TypeOK'
  <2>1. Start \in Words
    BY MpmcAssumption DEF Words
  <2>2. /\ view' \in [Thread -> View] /\ pos' \in [Thread -> Words]
        /\ pc' \in [Thread -> {"idle", "look", "reload", "claim", "use", "publish"}]
    BY <1>3, <1>8, <2>1 DEF QInv, TypeOK
  <2>3. sent' \in [Producers -> Nat]
    BY <1>3 DEF QInv, TypeOK
  <2>4. got' \in [Consumers -> Seq(Anything)]
    BY <1>3 DEF QInv, TypeOK
  <2> QED BY <1>10, <2>2, <2>3, <2>4 DEF TypeOK
<1>12. NobodySeesAhead'
  <2>1. Len(memory'[l]) = Len(memory[l]) + 1 /\ saw[l] <= Len(memory[l]) + 1
    BY <1>4, <1>8, <1>10, <1>a
  <2>2. /\ \A k \in Location : k # l => memory'[k] = memory[k]
        /\ \A k \in Location : k # l => saw[k] <= Len(memory[k])
    BY <1>8, <1>10
  <2>3. l \in Location /\ saw \in View /\ view' = [view EXCEPT ![t] = saw]
    BY <1>3, <1>4, <1>8
  <2>4. \A u \in Thread, k \in Location : view'[u][k] <= Len(memory'[k])
    BY <2>1, <2>2, <2>3, NobodyAheadOfWrite
  <2> QED BY <1>10, <2>4 DEF NobodySeesAhead
<1>13. view'[t] = saw /\ \A u \in Thread : u # t => view'[u] = view[u]
  BY <1>3 DEF QInv, TypeOK
<1>14. /\ pc'[t] = "idle"
       /\ \A u \in Thread : u # t =>
            /\ pc'[u] = pc[u] /\ pos'[u] = pos[u]
            /\ Off(u)' = Off(u) /\ SlotOf(u)' = SlotOf(u) /\ Due(u)' = Due(u)
            /\ (Owner(u)' <=> Owner(u))
  BY <1>3, OthersKeep DEF QInv
<1>15. /\ \A k \in Index : Uses(k)' = Uses(k)
       /\ \A k \in Index : Turn(k)' = IF k = i THEN n + 1 ELSE Turn(k)
       /\ \A k \in Index : k # i => memory'[SeqLoc(k)] = memory[SeqLoc(k)]
       /\ memory'[TailPos] = memory[TailPos] /\ memory'[HeadPos] = memory[HeadPos]
  <2>1. \A k \in Index : memory'[ValueLoc(k)] = memory[ValueLoc(k)]
    BY <1>2, <1>10, LocationFacts DEF l
  <2>2. \A k \in Index : k # i => memory'[SeqLoc(k)] = memory[SeqLoc(k)]
    BY <1>2, <1>10, LocationFacts DEF l
  <2>3. memory'[TailPos] = memory[TailPos] /\ memory'[HeadPos] = memory[HeadPos]
    BY <1>2, <1>10, LocationFacts DEF l
  <2>4. Len(memory'[SeqLoc(i)]) = n + 1
    BY <1>10, <1>a DEF l
  <2> QED BY <2>1, <2>2, <2>3, <2>4 DEF Turn, Uses
<1>16. \A k \in {TailPos, HeadPos} : Claims(k)' = Claims(k)
  BY <1>15 DEF Claims
<1>17. PositionsCount'
  BY <1>15 DEF QInv, PositionsCount
<1>18. SlotsTakeTurns'
  <2> SUFFICES ASSUME NEW j \in Nat
               PROVE  /\ Freed(j) <= Turn(SlotAt(j))' =>
                           memory'[SeqLoc(SlotAt(j))][Freed(j)].val = WordAt(j)
                      /\ Filled(j) <= Turn(SlotAt(j))' =>
                           memory'[SeqLoc(SlotAt(j))][Filled(j)].val = WordAt(j + 1)
    BY DEF SlotsTakeTurns
  <2>1. SlotAt(j) \in Index /\ Freed(j) \in Nat \ {0} /\ Filled(j) = Freed(j) + 1
        /\ Turn(SlotAt(j)) \in Nat
    BY WordFacts, TurnFacts, CountFacts
  <2>2. /\ Freed(j) <= Turn(SlotAt(j)) =>
             memory[SeqLoc(SlotAt(j))][Freed(j)].val = WordAt(j)
        /\ Filled(j) <= Turn(SlotAt(j)) =>
             memory[SeqLoc(SlotAt(j))][Filled(j)].val = WordAt(j + 1)
    BY DEF QInv, SlotsTakeTurns
  <2>3. CASE SlotAt(j) # i
    BY <1>15, <2>1, <2>2, <2>3
  <2>4. CASE SlotAt(j) = i
    <3>1. /\ Turn(SlotAt(j))' = n + 1 /\ Turn(SlotAt(j)) = n /\ SeqLoc(SlotAt(j)) = l
      BY <1>2, <1>5, <1>15, <2>4 DEF l
    <3>2. /\ \A m \in 1 .. n : memory'[l][m] = memory[l][m]
          /\ memory'[l][n + 1].val = v
      BY <1>10, <1>a
    <3>3. /\ Freed(j) = Freed(o) => j = o
          /\ Freed(j) # Filled(o) /\ Freed(o) # Filled(j)
      BY <1>2, <2>4, TurnsAreOwn
    <3>4. /\ Freed(j) = Freed(o + Cap) => j = o + Cap
          /\ Freed(o + Cap) # Filled(j)
      BY <1>2, <1>9, <2>4, TurnsAreOwn
    <3>5. Freed(j) = n + 1 => v = WordAt(j)
      BY <1>5, <1>6, <1>9, <3>3, <3>4 DEF Due, o
    <3>6. Filled(j) = n + 1 => v = WordAt(j + 1)
      <4>1. CASE t \in Producers
        <5>1. n = Freed(o) /\ v = WordAt(o + 1)
          BY <1>5, <1>6, <4>1 DEF Due, o
        <5>2. Filled(j) = n + 1 => j = o
          BY <1>9, <2>1, <3>3, <5>1
        <5> QED BY <5>1, <5>2
      <4>2. CASE t \notin Producers
        <5>1. n = Filled(o)
          BY <1>5, <4>2 DEF Due, o
        <5>2. n + 1 = Freed(o + Cap)
          BY <1>9, <5>1
        <5> QED BY <3>4, <5>2
      <4> QED BY <4>1, <4>2
    <3>7. /\ Freed(j) <= n \/ Freed(j) = n + 1 \/ ~ Freed(j) <= n + 1
          /\ Filled(j) <= n \/ Filled(j) = n + 1 \/ ~ Filled(j) <= n + 1
          /\ Freed(j) <= n => Freed(j) \in 1 .. n
          /\ Filled(j) <= n => Filled(j) \in 1 .. n
      BY <1>4, <2>1
    <3> QED BY <2>2, <3>1, <3>2, <3>5, <3>6, <3>7
  <2> QED BY <2>3, <2>4
<1>19. TurnsRelease'
  <2> SUFFICES ASSUME NEW k \in Index, NEW m \in 1 .. Turn(k)'
               PROVE  m <= memory'[SeqLoc(k)][m].view[ValueLoc(k)]
    BY DEF TurnsRelease
  <2>1. CASE k # i
    BY <1>15, <2>1 DEF QInv, TurnsRelease
  <2>2. CASE k = i /\ m # n + 1
    <3>1. m \in 1 .. n /\ m \in 1 .. Turn(k)
      BY <1>2, <1>4, <1>5, <1>15, <2>2
    <3>2. memory'[SeqLoc(k)][m] = memory[SeqLoc(k)][m]
      BY <1>10, <1>a, <2>2, <3>1 DEF l
    <3> QED BY <3>1, <3>2 DEF QInv, TurnsRelease
  <2>3. CASE k = i /\ m = n + 1
    <3>1. memory'[SeqLoc(k)][m].view = saw
      BY <1>10, <1>a, <2>3 DEF l
    <3>2. saw[ValueLoc(k)] = n + 1
      BY <1>4, <1>5, <1>8, <2>3
    <3> QED BY <1>4, <2>3, <3>1, <3>2
  <2> QED BY <2>1, <2>2, <2>3
<1>20. ClaimsAreBounded'
  <2>1. Cardinality(Tries') <= Cardinality(Tries)
        /\ Cardinality(Tries) \in Nat /\ Cardinality(Tries') \in Nat
    <3>1. "idle" \notin Trying
      BY DEF Trying
    <3> QED BY <1>3, <3>1, TriesFacts DEF QInv
  <2>2. Started <= MaxItems /\ Claims(HeadPos) <= Claims(TailPos) /\ Claims(TailPos) \in Nat
    BY CountFacts DEF QInv, ClaimsAreBounded
  <2> QED BY <1>16, <2>1, <2>2, StartedIs, Constants DEF ClaimsAreBounded
<1>21. UsesAreClaimed'
  <2>1. \A k \in Index : Turn(k)' <= Uses(k)'
    <3>1. \A k \in Index : Turn(k) <= Uses(k)
      BY DEF QInv, UsesAreClaimed
    <3> QED BY <1>4, <1>5, <1>15, <3>1
  <2>2. \A j \in Nat : Uses(SlotAt(j))' = Uses(SlotAt(j))
    BY <1>15, WordFacts
  <2> QED BY <1>16, <2>1, <2>2 DEF QInv, UsesAreClaimed
<1>22. CallersCount'
  <2> SUFFICES ASSUME NEW u \in Thread, pc'[u] # "idle"
               PROVE  Off(u)' \in 0 .. Claims(Position(u))' /\ pos'[u] = WordAt(Off(u)')
    BY DEF CallersCount
  <2>1. pc[u] # "idle" /\ Off(u)' = Off(u) /\ pos'[u] = pos[u]
    BY <1>14
  <2>2. Claims(Position(u))' = Claims(Position(u))
    BY <1>16, LocationFacts
  <2> QED BY <2>1, <2>2 DEF QInv, CallersCount
<1>23. ClaimersHaveSeen'
  BY <1>13, <1>14 DEF QInv, ClaimersHaveSeen
<1>24. OwnersHaveTheTurn'
  <2> SUFFICES ASSUME NEW u \in Thread, Owner(u)'
               PROVE  /\ Off(u)' < Claims(Position(u))'
                      /\ Turn(SlotOf(u))' = Due(u)'
                      /\ Uses(SlotOf(u))' = IF pc'[u] = "use" THEN Due(u)' ELSE Due(u)' + 1
                      /\ view'[u][ValueLoc(SlotOf(u)')] = Uses(SlotOf(u))'
    BY DEF OwnersHaveTheTurn
  <2>1. Claims(Position(u))' = Claims(Position(u))
    BY <1>16, LocationFacts
  <2>2. u # t
    BY <1>14 DEF Owner
  <2>3. Owner(u)
    BY <1>14, <2>2
  <2>4. SlotOf(u) \in Index /\ SlotOf(u) # i
    BY <1>1, <2>2, <2>3, CallerFacts, OwnersApart DEF Owner, i
  <2>5. Turn(SlotOf(u))' = Turn(SlotOf(u)) /\ Uses(SlotOf(u))' = Uses(SlotOf(u))
    BY <1>14, <1>15, <2>2, <2>4 DEF Turn, Uses
  <2>6. /\ Off(u) < Claims(Position(u))
        /\ Turn(SlotOf(u)) = Due(u)
        /\ Uses(SlotOf(u)) = IF pc[u] = "use" THEN Due(u) ELSE Due(u) + 1
        /\ view[u][ValueLoc(SlotOf(u))] = Uses(SlotOf(u))
    BY <2>3 DEF QInv, OwnersHaveTheTurn
  <2> QED BY <1>13, <1>14, <2>1, <2>2, <2>5, <2>6
<1>25. OwnersDiffer'
  <2>1. ~ Owner(t)'
    BY <1>14 DEF Owner
  <2> QED BY <1>14, <2>1 DEF QInv, OwnersDiffer
<1> QED BY <1>11, <1>12, <1>17, <1>18, <1>19, <1>20, <1>21, <1>22, <1>23, <1>24, <1>25
        DEF QInv

\* A slot is first free for the first position that falls in it.
LEMMA FirstTurn ==
  ASSUME NEW j \in Nat, Freed(j) <= 1
  PROVE  Freed(j) = 1 /\ FirstIn(SlotAt(j)) = WordAt(j)
<1>1. j = Cap * (j \div Cap) + (j % Cap) /\ j \div Cap \in Nat /\ j % Cap \in 0 .. Cap - 1
  BY Division, Constants
<1>2. j \div Cap = 0 /\ Freed(j) = 1
  BY <1>1 DEF Freed
<1>3. j \in 0 .. Cap - 1
  BY <1>1, <1>2, Constants
<1> DEFINE s == Start + j
           q == s \div Cap
           r == s % Cap
<1>4. s = Cap * q + r /\ q \in Nat /\ r \in 0 .. Cap - 1 /\ s = Start + j
  <2>1. s \in Nat
    BY Constants
  <2> QED BY <2>1, Division, Constants
<1>5. SlotAt(j) = r
  BY WordFacts
<1> HIDE DEF s, q, r
<1>6. Cap * q \in Int /\ Cap * (- q) = - (Cap * q) /\ - q \in Int
  BY <1>4, Constants
<1>7. r - Start = Cap * (- q) + j /\ r - Start \in Int
  BY <1>4, <1>6, Constants
<1>8. (r - Start) % Cap = j
  <2>1. Splits(r - Start, Cap, - q, j)
    BY <1>7 DEF Splits
  <2> QED BY <1>3, <1>6, <1>7, <2>1, DivisionUnique, Constants
<1> QED BY <1>2, <1>5, <1>8 DEF FirstIn, WordAt

\* The invariant holds at first, wherever the positions start.
LEMMA QInit == Init => QInv
<1> SUFFICES ASSUME Init PROVE QInv
  OBVIOUS
<1> DEFINE b == Bottom(Location)
           first(l) == IF l \in {TailPos, HeadPos} THEN Start
                       ELSE IF l[1] = "seq" THEN FirstIn(l[2]) ELSE None
           R == [val : Anything, view : View]
           e(l) == [val |-> first(l), view |-> b]
<1>1. b \in View /\ \A k \in Location : b[k] = 1
  BY BottomFacts
<1>2. /\ memory = [l \in Location |-> <<e(l)>>]
      /\ view = [t \in Thread |-> b]
      /\ pc = [t \in Thread |-> "idle"]
      /\ pos = [t \in Thread |-> Start]
      /\ sent = [p \in Producers |-> 0]
      /\ got = [c \in Consumers |-> << >>]
  BY DEF Init
<1>3. Start \in Words /\ Start = WordAt(0)
  <2>1. Start \in 0 .. Word - 1
    BY MpmcAssumption
  <2>2. Start + 0 = Start
    BY Constants
  <2> QED BY <2>1, <2>2, SmallRemainder, Constants DEF Words, WordAt
<1>4. \A i \in Index : FirstIn(i) \in Words
  <2> TAKE i \in Index
  <2>1. i - Start \in Int
    BY Constants DEF Index
  <2>2. (i - Start) % Cap \in Nat
    BY <2>1, IntDivision, Constants
  <2> QED BY <2>2, WordFacts DEF FirstIn, WordAt
<1>5. \A l \in Location : first(l) \in Anything
  BY <1>3, <1>4 DEF Location, Anything
<1>6. \A l \in Location : e(l) \in R /\ e(l).view = b /\ e(l).val = first(l)
  BY <1>1, <1>5
<1>7. /\ first(TailPos) = Start /\ first(HeadPos) = Start
      /\ \A i \in Index : first(SeqLoc(i)) = FirstIn(i)
  BY LocationFacts DEF SeqLoc
<1> HIDE DEF b, first, e, R
<1>8. \A l \in Location : /\ memory[l] = <<e(l)>> /\ <<e(l)>> \in Seq(R)
                          /\ Len(memory[l]) = 1 /\ memory[l][1] = e(l)
  BY <1>2, <1>6
<1>a. \A l \in Location : Len(memory[l]) = 1 /\ memory[l][1] = e(l)
  BY <1>8
<1>b. \A l \in Location : \A n \in 1 .. Len(memory[l]) : n = 1
  <2>1. \A l \in Location : Len(memory[l]) = 1
    BY <1>a
  <2>2. \A l \in Location : \A n \in 1 .. 1 : n = 1
    OBVIOUS
  <2> QED BY <2>1, <2>2
<1>9. TypeOK
  <2>1. memory \in [Location -> Seq(R)]
    BY <1>2, <1>8
  <2>2. /\ view \in [Thread -> View] /\ pos \in [Thread -> Words]
        /\ pc \in [Thread -> {"idle", "look", "reload", "claim", "use", "publish"}]
        /\ sent \in [Producers -> Nat] /\ got \in [Consumers -> Seq(Anything)]
    BY <1>1, <1>2, <1>3
  <2> QED BY <2>1, <2>2 DEF TypeOK, R
<1>10. NobodySeesAhead
  <2>1. \A t \in Thread, l \in Location : view[t][l] <= Len(memory[l])
    BY <1>1, <1>2, <1>a
  <2>2. ASSUME NEW l \in Location, NEW k \in Location, NEW n \in 1 .. Len(memory[l])
        PROVE  memory[l][n].view[k] <= Len(memory[k])
    <3>1. n = 1
      BY <1>b
    <3> QED BY <1>1, <1>6, <1>a, <3>1
  <2> QED BY <1>a, <2>1, <2>2 DEF NobodySeesAhead
<1>11. PositionsCount
  <2> SUFFICES ASSUME NEW l \in {TailPos, HeadPos}, NEW n \in 1 .. Len(memory[l])
               PROVE  memory[l][n].val = WordAt(n - 1)
    BY DEF PositionsCount
  <2>1. l \in Location /\ first(l) = Start
    BY <1>7, LocationFacts
  <2>2. n = 1
    BY <1>b, <2>1
  <2>3. n - 1 = 0 /\ memory[l][n].val = Start
    BY <1>6, <1>a, <2>1, <2>2
  <2> QED BY <1>3, <2>3
<1>12. \A i \in Index : Turn(i) = 1 /\ Uses(i) = 1
  BY <1>a, LocationFacts DEF Turn, Uses
<1>13. Claims(TailPos) = 0 /\ Claims(HeadPos) = 0
  BY <1>a, LocationFacts DEF Claims
<1>14. ClaimsAreBounded
  <2>1. Tries = {}
    BY <1>2, LocationFacts DEF Tries, Trying
  <2>2. Cardinality(Tries) = 0
    BY <2>1, FS_EmptySet
  <2> QED BY <1>13, <2>2, StartedIs, Constants DEF ClaimsAreBounded
<1>15. SlotsTakeTurns
  <2> SUFFICES ASSUME NEW j \in Nat
               PROVE  /\ Freed(j) <= Turn(SlotAt(j)) =>
                           memory[SeqLoc(SlotAt(j))][Freed(j)].val = WordAt(j)
                      /\ Filled(j) <= Turn(SlotAt(j)) =>
                           memory[SeqLoc(SlotAt(j))][Filled(j)].val = WordAt(j + 1)
    BY DEF SlotsTakeTurns
  <2>1. SlotAt(j) \in Index /\ Freed(j) \in Nat \ {0} /\ Filled(j) = Freed(j) + 1
    BY WordFacts, TurnFacts
  <2>2. Turn(SlotAt(j)) = 1 /\ ~ Filled(j) <= 1
    BY <1>12, <2>1
  <2>3. Freed(j) <= 1 => memory[SeqLoc(SlotAt(j))][Freed(j)].val = WordAt(j)
    <3> SUFFICES ASSUME Freed(j) <= 1
                 PROVE  memory[SeqLoc(SlotAt(j))][Freed(j)].val = WordAt(j)
      OBVIOUS
    <3>1. Freed(j) = 1 /\ FirstIn(SlotAt(j)) = WordAt(j)
      BY FirstTurn
    <3>2. SeqLoc(SlotAt(j)) \in Location
      BY <2>1, LocationFacts
    <3> QED BY <1>6, <1>7, <1>a, <2>1, <3>1, <3>2
  <2> QED BY <2>2, <2>3
<1>16. TurnsRelease
  <2> SUFFICES ASSUME NEW i \in Index, NEW m \in 1 .. Turn(i)
               PROVE  m <= memory[SeqLoc(i)][m].view[ValueLoc(i)]
    BY DEF TurnsRelease
  <2>1. m = 1 /\ SeqLoc(i) \in Location /\ ValueLoc(i) \in Location
    BY <1>12, LocationFacts
  <2> QED BY <1>1, <1>6, <1>a, <2>1
<1>17. UsesAreClaimed
  <2>1. \A i \in Index : Turn(i) <= Uses(i)
    BY <1>12
  <2>2. \A j \in Nat : ~ Filled(j) <= Uses(SlotAt(j)) /\ ~ Filled(j) + 1 <= Uses(SlotAt(j))
    BY <1>12, WordFacts, TurnFacts
  <2> QED BY <2>1, <2>2 DEF UsesAreClaimed
<1>18. \A t \in Thread : pc[t] = "idle"
  BY <1>2
<1>19. CallersCount /\ ClaimersHaveSeen /\ OwnersHaveTheTurn /\ OwnersDiffer
  BY <1>18 DEF CallersCount, ClaimersHaveSeen, OwnersHaveTheTurn, OwnersDiffer, Owner
<1> QED BY <1>9, <1>10, <1>11, <1>14, <1>15, <1>16, <1>17, <1>19 DEF QInv

\* A step is a load that moves on, a look, or a write.
LEMMA StepIs ==
  ASSUME QInv, Next
  PROVE  \E t \in Thread :
           \/ \E n \in Nat \ {0} : \/ Call(t, n) \/ Reload(t, n) \/ ClaimFails(t, n)
                                   \/ Look(t, n)
           \/ Claim(t) \/ Use(t) \/ Publish(t)
<1>1. ASSUME NEW t \in Thread, NEW l \in {Position(t), SeqAt(pos[t])}, NEW n \in DOMAIN memory[l]
      PROVE  n \in Nat \ {0}
  <2>1. pos[t] \in Nat
    BY DEF QInv, TypeOK, Words
  <2>2. pos[t] % Cap \in Index
    BY <2>1, Division, Constants DEF Index
  <2>3. SeqAt(pos[t]) = SeqLoc(pos[t] % Cap)
    BY DEF SeqAt, SeqLoc
  <2>4. l \in Location
    BY <2>2, <2>3, LocationFacts
  <2>5. DOMAIN memory[l] = 1 .. Len(memory[l])
    BY <2>4, MemoryFacts DEF QInv
  <2> QED BY <2>5
<1> QED BY <1>1 DEF Next, Load

\* Every step keeps the invariant.
LEMMA QNext == QInv /\ [Next]_vars => QInv'
<1> SUFFICES ASSUME QInv, [Next]_vars PROVE QInv'
  OBVIOUS
<1>1. CASE UNCHANGED vars
  BY <1>1 DEF vars, QInv, TypeOK, NobodySeesAhead, PositionsCount, ClaimsAreBounded, Started,
              Claims, SlotsTakeTurns, Turn, TurnsRelease, UsesAreClaimed, Uses, CallersCount,
              Off, ClaimersHaveSeen, Due, SlotOf, OwnersHaveTheTurn, Owner, OwnersDiffer
<1>2. CASE Next
  <2>1. PICK t \in Thread :
           \/ \E n \in Nat \ {0} : \/ Call(t, n) \/ Reload(t, n) \/ ClaimFails(t, n)
                                   \/ Look(t, n)
           \/ Claim(t) \/ Use(t) \/ Publish(t)
    BY <1>2, StepIs
  <2>2. ASSUME NEW n \in Nat \ {0}, Call(t, n) PROVE QInv'
    <3>1. LoadPosition(t, n) /\ ~ Owner(t) /\ (t \in Producers => Started < MaxItems)
      BY <2>2 DEF Call, Owner
    <3> QED BY <3>1, LoadPositionStep
  <2>3. ASSUME NEW n \in Nat \ {0}, Reload(t, n) \/ ClaimFails(t, n) PROVE QInv'
    <3>1. LoadPosition(t, n) /\ ~ Owner(t) /\ pc[t] \in Trying
      BY <2>3 DEF Reload, ClaimFails, Owner, Trying
    <3> QED BY <3>1, LoadPositionStep
  <2>4. ASSUME NEW n \in Nat \ {0}, Look(t, n) PROVE QInv'
    BY <2>4, LookStep
  <2>5. CASE Claim(t)
    BY <2>5, ClaimStep
  <2>6. CASE Use(t)
    BY <2>6, UseStep
  <2>7. CASE Publish(t)
    BY <2>7, PublishStep
  <2> QED BY <2>1, <2>2, <2>3, <2>4, <2>5, <2>6, <2>7
<1> QED BY <1>1, <1>2

\* The invariant of the ring, for every number of threads, every capacity and
\* every word of positions.
THEOREM TurnsAreKept == Spec => []QInv
<1>1. Init => QInv
  BY QInit
<1>2. QInv /\ [Next]_vars => QInv'
  BY QNext
<1> QED BY <1>1, <1>2, PTL DEF Spec

\* "The payload write happens before the read", and the read before the write of
\* the next lap: the acquire and the release on a slot's sequence order them,
\* whatever else a thread has not seen.
THEOREM NoDataRaceAlways == Spec => []NoDataRace
<1>1. QInv => NoDataRace
  <2> SUFFICES ASSUME QInv, NEW t \in Thread, pc[t] = "use"
               PROVE  view[t][Value(pos[t])] = Len(memory[Value(pos[t])])
    BY DEF NoDataRace
  <2>1. Value(pos[t]) = ValueLoc(SlotOf(t)) /\ Owner(t)
    BY CallerFacts DEF Owner
  <2> QED BY <2>1 DEF QInv, OwnersHaveTheTurn, Uses
<1> QED BY <1>1, TurnsAreKept, PTL

-----------------------------------------------------------------------------
(***************************************************************************)
(* The items.                                                              *)
(***************************************************************************)
\* The item of an offset, who pushed it, and as which of theirs.
ItemAt(j) == memory[ValueLoc(SlotAt(j))][Filled(j)].val
Pusher(j) == ItemAt(j)[1]
Number(j) == ItemAt(j)[2]

\* It is in its slot, and it was moved out.
In(j) == Filled(j) <= Uses(SlotAt(j))
Out(j) == Filled(j) + 1 <= Uses(SlotAt(j))

\* A push that has put its item in and has not published it.
Putting(p, j) == pc[p] = "publish" /\ j = Off(p)

ItemsAreSent ==
  \A j \in Nat : In(j) =>
    /\ Pusher(j) \in Producers /\ Number(j) \in Nat \ {0}
    /\ ItemAt(j) = <<Pusher(j), Number(j)>>
    /\ \/ Number(j) <= sent[Pusher(j)]
       \/ Putting(Pusher(j), j) /\ Number(j) = sent[Pusher(j)] + 1

PushesAscend ==
  \A j, k \in Nat : In(j) /\ In(k) /\ j < k /\ Pusher(j) = Pusher(k) => Number(j) < Number(k)

PushersAreAhead ==
  \A p \in Producers : Owner(p) =>
    /\ \A j \in Nat : In(j) /\ Pusher(j) = p => j <= Off(p)
    /\ pc[p] = "publish" => In(Off(p)) /\ ItemAt(Off(p)) = <<p, sent[p] + 1>>

SentAreIn ==
  \A p \in Producers : \A a \in 1 .. sent[p] : \E j \in Nat : In(j) /\ ItemAt(j) = <<p, a>>

GotAreOut ==
  \A c \in Consumers : \A i \in 1 .. Len(got[c]) :
    \E j \in Nat : Out(j) /\ ItemAt(j) = got[c][i]

OutAreGot ==
  \A j \in Nat : Out(j) =>
    \E c \in Consumers : \E i \in 1 .. Len(got[c]) : got[c][i] = ItemAt(j)

GotOnce ==
  \A c, d \in Consumers : \A i \in 1 .. Len(got[c]), k \in 1 .. Len(got[d]) :
    got[c][i] = got[d][k] => c = d /\ i = k

PopsAscend ==
  \A c \in Consumers : \A i, k \in 1 .. Len(got[c]) : i < k =>
    \A j, h \in Nat : Out(j) /\ Out(h) /\ ItemAt(j) = got[c][i] /\ ItemAt(h) = got[c][k] => j < h

PoppersAreAhead ==
  \A c \in Consumers : Owner(c) =>
    \A i \in 1 .. Len(got[c]) : \A j \in Nat : Out(j) /\ ItemAt(j) = got[c][i] => j <= Off(c)

ItemsInv ==
  /\ ItemsAreSent /\ PushesAscend /\ PushersAreAhead /\ SentAreIn
  /\ GotAreOut /\ OutAreGot /\ GotOnce /\ PopsAscend /\ PoppersAreAhead

\* What is out was in, and no two offsets have one item.
LEMMA ItemFacts ==
  ASSUME QInv, ItemsInv
  PROVE  /\ \A j \in Nat : Out(j) => In(j)
         /\ \A j, k \in Nat : In(j) /\ In(k) /\ ItemAt(j) = ItemAt(k) => j = k
         /\ \A c \in Consumers : \A i \in 1 .. Len(got[c]) : \A j \in Nat :
              In(j) /\ ItemAt(j) = got[c][i] => Out(j)
<1>1. \A j \in Nat : Out(j) => In(j)
  <2>1. \A j \in Nat : Filled(j) \in Nat /\ Uses(SlotAt(j)) \in Nat
    BY TurnFacts, WordFacts, CountFacts
  <2> QED BY <2>1 DEF In, Out
<1>2. ASSUME NEW j \in Nat, NEW k \in Nat, In(j), In(k), ItemAt(j) = ItemAt(k)
      PROVE  j = k
  <2>1. Pusher(j) = Pusher(k) /\ Number(j) = Number(k) /\ Number(j) \in Nat
    BY <1>2 DEF ItemsInv, ItemsAreSent, Pusher, Number
  <2>2. ~ j < k /\ ~ k < j
    BY <1>2, <2>1 DEF ItemsInv, PushesAscend
  <2> QED BY <2>2
<1>3. ASSUME NEW c \in Consumers, NEW i \in 1 .. Len(got[c]), NEW j \in Nat,
             In(j), ItemAt(j) = got[c][i]
      PROVE  Out(j)
  <2>1. PICK k \in Nat : Out(k) /\ ItemAt(k) = got[c][i]
    BY DEF ItemsInv, GotAreOut
  <2>2. j = k
    BY <1>1, <1>2, <1>3, <2>1
  <2> QED BY <2>1, <2>2
<1> QED BY <1>1, <1>2, <1>3

\* What is written to a payload stays in its history.
LEMMA ItemsStay ==
  ASSUME NEW j \in Nat, memory'[ValueLoc(SlotAt(j))] = memory[ValueLoc(SlotAt(j))]
  PROVE  /\ ItemAt(j)' = ItemAt(j) /\ Pusher(j)' = Pusher(j) /\ Number(j)' = Number(j)
         /\ (In(j)' <=> In(j)) /\ (Out(j)' <=> Out(j))
BY DEF ItemAt, Pusher, Number, In, Out, Uses

\* A step that touches no payload and publishes nothing.
LEMMA QuietItems ==
  ASSUME QInv, ItemsInv, sent' = sent, got' = got,
         \A i \in Index : memory'[ValueLoc(i)] = memory[ValueLoc(i)],
         \A u \in Thread :
           \/ Owner(u) /\ pc'[u] = pc[u] /\ Off(u)' = Off(u)
           \/ ~ Owner(u) /\ ~ Owner(u)'
           \/ /\ ~ Owner(u) /\ pc'[u] = "use" /\ Off(u)' \in Nat
              /\ u \in Producers => \A j \in Nat : In(j) => j < Off(u)'
              /\ u \in Consumers => \A j \in Nat : Out(j) => j < Off(u)'
  PROVE  ItemsInv'
<1>1. \A j \in Nat :
        /\ ItemAt(j)' = ItemAt(j) /\ Pusher(j)' = Pusher(j) /\ Number(j)' = Number(j)
        /\ (In(j)' <=> In(j)) /\ (Out(j)' <=> Out(j))
  BY ItemsStay, WordFacts
<1>2. \A u \in Thread : pc[u] = "publish" <=> pc'[u] = "publish"
  BY DEF Owner
<1>3. \A u \in Thread : pc[u] = "publish" => Off(u)' = Off(u)
  BY DEF Owner
<1>4. ItemsAreSent'
  <2> SUFFICES ASSUME NEW j \in Nat, In(j)'
               PROVE  /\ Pusher(j)' \in Producers /\ Number(j)' \in Nat \ {0}
                      /\ ItemAt(j)' = <<Pusher(j)', Number(j)'>>
                      /\ \/ Number(j)' <= sent'[Pusher(j)']
                         \/ Putting(Pusher(j), j)' /\ Number(j)' = sent'[Pusher(j)'] + 1
    BY DEF ItemsAreSent
  <2>1. /\ Pusher(j) \in Producers /\ Number(j) \in Nat \ {0}
        /\ ItemAt(j) = <<Pusher(j), Number(j)>>
        /\ \/ Number(j) <= sent[Pusher(j)]
           \/ Putting(Pusher(j), j) /\ Number(j) = sent[Pusher(j)] + 1
    BY <1>1 DEF ItemsInv, ItemsAreSent
  <2>2. Putting(Pusher(j), j) => Putting(Pusher(j), j)'
    BY <1>1, <1>2, <1>3, <2>1, LocationFacts DEF Putting
  <2> QED BY <1>1, <2>1, <2>2
<1>5. PushesAscend'
  BY <1>1 DEF ItemsInv, PushesAscend
<1>6. PushersAreAhead'
  <2> SUFFICES ASSUME NEW p \in Producers, Owner(p)'
               PROVE  /\ \A j \in Nat : In(j)' /\ Pusher(j)' = p => j <= Off(p)'
                      /\ pc'[p] = "publish" => In(Off(p))' /\ ItemAt(Off(p))' = <<p, sent'[p] + 1>>
    BY DEF PushersAreAhead
  <2>1. p \in Thread
    BY LocationFacts
  <2>2. CASE Owner(p) /\ pc'[p] = pc[p] /\ Off(p)' = Off(p)
    <3>1. /\ \A j \in Nat : In(j) /\ Pusher(j) = p => j <= Off(p)
          /\ pc[p] = "publish" => In(Off(p)) /\ ItemAt(Off(p)) = <<p, sent[p] + 1>>
      BY <2>2 DEF ItemsInv, PushersAreAhead
    <3>2. Off(p) \in Nat
      BY <2>1, <2>2, CallerFacts DEF Owner
    <3>3. In(Off(p))' <=> In(Off(p))
      BY <1>1, <2>2, <3>2 DEF In, Uses
    <3>4. ItemAt(Off(p))' = ItemAt(Off(p))
      BY <1>1, <2>2, <3>2 DEF ItemAt
    <3> QED BY <1>1, <2>2, <3>1, <3>3, <3>4
  <2>3. CASE pc'[p] = "use" /\ Off(p)' \in Nat /\ \A j \in Nat : In(j) => j < Off(p)'
    <3>1. \A j \in Nat : In(j)' => j < Off(p)'
      BY <1>1, <2>3
    <3> QED BY <2>3, <3>1
  <2> QED BY <2>1, <2>2, <2>3
<1>7. SentAreIn'
  BY <1>1 DEF ItemsInv, SentAreIn
<1>8. GotAreOut' /\ OutAreGot' /\ GotOnce'
  BY <1>1 DEF ItemsInv, GotAreOut, OutAreGot, GotOnce
<1>9. PopsAscend'
  BY <1>1 DEF ItemsInv, PopsAscend
<1>10. PoppersAreAhead'
  <2> SUFFICES ASSUME NEW c \in Consumers, Owner(c)',
                      NEW i \in 1 .. Len(got[c]), NEW j \in Nat, Out(j), ItemAt(j) = got[c][i]
               PROVE  j <= Off(c)'
    BY <1>1 DEF PoppersAreAhead
  <2>1. c \in Thread
    BY LocationFacts
  <2>2. CASE Owner(c) /\ Off(c)' = Off(c)
    BY <2>2 DEF ItemsInv, PoppersAreAhead
  <2>3. CASE Off(c)' \in Nat /\ j < Off(c)'
    BY <2>3
  <2> QED BY <2>1, <2>2, <2>3
<1> QED BY <1>4, <1>5, <1>6, <1>7, <1>8, <1>9, <1>10 DEF ItemsInv

\* A push puts its item in, at an offset after all those of its pusher.
LEMMA PutItems ==
  ASSUME QInv, QInv', ItemsInv, NEW t \in Producers, Use(t)
  PROVE  ItemsInv'
<1> DEFINE i == SlotOf(t)
           l == ValueLoc(i)
           n == Len(memory[l])
           o == Off(t)
           a == sent[t] + 1
<1>0. t \in Thread
  BY LocationFacts
<1>1. /\ l \in Location /\ n \in Nat \ {0} /\ n = Due(t)
      /\ \A k \in Location : k # l => memory'[k] = memory[k]
      /\ Len(memory'[l]) = n + 1
      /\ \A m \in 1 .. n : memory'[l][m] = memory[l][m]
      /\ memory'[l][n + 1].val = <<t, a>>
      /\ pc' = [pc EXCEPT ![t] = "publish"] /\ pos' = pos /\ sent' = sent
      /\ pc[t] = "use" /\ got' = got
  BY <1>0, UseFacts
<1>2. /\ i \in Index /\ o \in Nat /\ i = SlotAt(o)
  BY <1>0, <1>1, CallerFacts DEF SlotOf
<1>3. Owner(t) /\ n = Freed(o) /\ n + 1 = Filled(o)
  <2>1. Owner(t) /\ n = Freed(o)
    BY <1>1 DEF Owner, Due
  <2> QED BY <1>2, <2>1, TurnFacts
<1>4. a \in Nat \ {0} /\ sent[t] \in Nat
  BY DEF QInv, TypeOK
<1> HIDE DEF i, l, n, o, a
<1>5. /\ pc'[t] = "publish"
      /\ \A u \in Thread : u # t =>
           pc'[u] = pc[u] /\ Off(u)' = Off(u) /\ (Owner(u)' <=> Owner(u))
  BY <1>0, <1>1, OthersKeep DEF QInv
<1>6. Off(t)' = o /\ o' = o
  BY <1>1 DEF Off, o
<1>7. \A j \in Nat : SlotAt(j) # i =>
        /\ ItemAt(j)' = ItemAt(j) /\ Pusher(j)' = Pusher(j) /\ Number(j)' = Number(j)
        /\ (In(j)' <=> In(j)) /\ (Out(j)' <=> Out(j))
  <2> SUFFICES ASSUME NEW j \in Nat, SlotAt(j) # i
               PROVE  memory'[ValueLoc(SlotAt(j))] = memory[ValueLoc(SlotAt(j))]
    BY ItemsStay
  <2>1. SlotAt(j) \in Index
    BY WordFacts
  <2> QED BY <1>1, <1>2, <2>1, LocationFacts DEF l
<1>8. \A j \in Nat : SlotAt(j) = i =>
        /\ (In(j)' <=> In(j) \/ j = o) /\ (Out(j)' <=> Out(j))
        /\ In(j) => ItemAt(j)' = ItemAt(j) /\ Pusher(j)' = Pusher(j) /\ Number(j)' = Number(j)
  <2> SUFFICES ASSUME NEW j \in Nat, SlotAt(j) = i
               PROVE  /\ (In(j)' <=> In(j) \/ j = o) /\ (Out(j)' <=> Out(j))
                      /\ In(j) => ItemAt(j)' = ItemAt(j)
    BY DEF Pusher, Number
  <2>1. /\ Freed(j) \in Nat \ {0} /\ Filled(j) = Freed(j) + 1
        /\ Freed(j) = Freed(o) => j = o
        /\ Freed(o) # Filled(j)
    BY <1>2, TurnFacts, TurnsAreOwn
  <2>2. Uses(SlotAt(j)) = n /\ Uses(SlotAt(j))' = n + 1
    BY <1>1 DEF Uses, l, n
  <2>3. In(j) <=> Filled(j) <= n
    BY <2>2 DEF In
  <2>4. In(j)' <=> Filled(j) <= n + 1
    BY <2>2 DEF In
  <2>5. Out(j) <=> Filled(j) + 1 <= n
    BY <2>2 DEF Out
  <2>6. Out(j)' <=> Filled(j) + 1 <= n + 1
    BY <2>2 DEF Out
  <2>7. In(j) => ItemAt(j)' = ItemAt(j)
    <3> SUFFICES ASSUME In(j) PROVE ItemAt(j)' = ItemAt(j)
      OBVIOUS
    <3>1. Filled(j) \in 1 .. n
      BY <1>1, <2>1, <2>3
    <3> QED BY <1>1, <3>1 DEF ItemAt, l
  <2>8. In(j)' <=> In(j) \/ j = o
    BY <1>1, <1>3, <2>1, <2>3, <2>4
  <2>9. Out(j)' <=> Out(j)
    BY <1>1, <1>3, <2>1, <2>5, <2>6
  <2> QED BY <2>7, <2>8, <2>9
<1>9. \A j \in Nat :
        /\ (In(j)' <=> In(j) \/ j = o) /\ (Out(j)' <=> Out(j))
        /\ In(j) => ItemAt(j)' = ItemAt(j) /\ Pusher(j)' = Pusher(j) /\ Number(j)' = Number(j)
  BY <1>2, <1>7, <1>8
<1>10. /\ ~ In(o) /\ ItemAt(o)' = <<t, a>> /\ Pusher(o)' = t /\ Number(o)' = a
  <2>1. ~ In(o)
    <3>1. Uses(SlotAt(o)) = n
      BY <1>2 DEF Uses, l, n
    <3> QED BY <1>1, <1>3, <3>1 DEF In
  <2>2. ItemAt(o)' = <<t, a>>
    <3>1. memory'[ValueLoc(SlotAt(o))][Filled(o)].val = <<t, a>>
      BY <1>1, <1>2, <1>3 DEF l
    <3>2. ItemAt(o)' = memory'[ValueLoc(SlotAt(Off(t)'))][Filled(Off(t)')].val
      BY DEF ItemAt, o
    <3> QED BY <1>6, <3>1, <3>2
  <2> QED BY <2>1, <2>2 DEF Pusher, Number
<1>11. \A j \in Nat : Out(j) => In(j)
  BY ItemFacts
<1>12. \A j \in Nat : In(j) /\ Pusher(j) = t => Number(j) <= sent[t] /\ j <= o
  <2> SUFFICES ASSUME NEW j \in Nat, In(j), Pusher(j) = t PROVE Number(j) <= sent[t] /\ j <= o
    OBVIOUS
  <2>1. j <= o
    BY <1>3 DEF ItemsInv, PushersAreAhead, o
  <2>2. ~ Putting(Pusher(j), j)
    BY <1>1 DEF Putting
  <2>3. Number(j) <= sent[Pusher(j)]
    BY <2>2 DEF ItemsInv, ItemsAreSent
  <2> QED BY <2>1, <2>3
<1>13. \A j \in Nat : In(j) => Pusher(j) \in Producers /\ Number(j) \in Nat \ {0}
                               /\ ItemAt(j) = <<Pusher(j), Number(j)>>
  BY DEF ItemsInv, ItemsAreSent
<1>14. ItemsAreSent'
  <2> SUFFICES ASSUME NEW j \in Nat, In(j)'
               PROVE  /\ Pusher(j)' \in Producers /\ Number(j)' \in Nat \ {0}
                      /\ ItemAt(j)' = <<Pusher(j)', Number(j)'>>
                      /\ \/ Number(j)' <= sent'[Pusher(j)']
                         \/ Putting(Pusher(j), j)' /\ Number(j)' = sent'[Pusher(j)'] + 1
    BY DEF ItemsAreSent
  <2>1. CASE In(j)
    <3>1. Pusher(j)' = Pusher(j) /\ Number(j)' = Number(j) /\ ItemAt(j)' = ItemAt(j)
      BY <1>9, <2>1
    <3>2. CASE Number(j) <= sent[Pusher(j)]
      BY <1>1, <1>13, <2>1, <3>1, <3>2
    <3>3. CASE Putting(Pusher(j), j) /\ Number(j) = sent[Pusher(j)] + 1
      <4>1. PICK p \in Producers : p = Pusher(j)
        BY <1>13, <2>1
      <4>2. p # t /\ p \in Thread
        BY <1>1, <3>3, <4>1, LocationFacts DEF Putting
      <4>3. pc'[p] = "publish" /\ j = Off(p)'
        BY <1>5, <3>3, <4>1, <4>2 DEF Putting
      <4>4. Putting(p, j)'
        BY <4>3 DEF Putting
      <4>5. p = Pusher(j)'
        BY <3>1, <4>1
      <4>6. Putting(Pusher(j), j)'
        BY <4>4, <4>5 DEF Putting, Off
      <4> QED BY <1>1, <1>13, <2>1, <3>1, <3>3, <4>6
    <3> QED BY <2>1, <3>2, <3>3 DEF ItemsInv, ItemsAreSent
  <2>2. CASE j = o
    <3>1. Pusher(j)' = t /\ Number(j)' = a /\ ItemAt(j)' = <<t, a>>
      <4>1. SlotAt(o)' = SlotAt(j) /\ Filled(o)' = Filled(j)
        BY <1>6, <2>2 DEF SlotAt, WordAt, Filled, Freed
      <4>2. ItemAt(o)' = ItemAt(j)'
        BY <4>1 DEF ItemAt
      <4> QED BY <1>10, <4>2 DEF Pusher, Number
    <3>2. Putting(Pusher(j), j)'
      BY <1>5, <1>6, <2>2, <3>1 DEF Putting
    <3>3. sent'[t] + 1 = a
      BY <1>1 DEF a
    <3> QED BY <1>4, <3>1, <3>2, <3>3
  <2> QED BY <1>9, <2>1, <2>2
<1>15. \A j \in Nat : j = o => Pusher(j)' = t /\ Number(j)' = a /\ ItemAt(j)' = <<t, a>>
  <2> SUFFICES ASSUME NEW j \in Nat, j = o
               PROVE  Pusher(j)' = t /\ Number(j)' = a /\ ItemAt(j)' = <<t, a>>
    OBVIOUS
  <2>1. SlotAt(o)' = SlotAt(j) /\ Filled(o)' = Filled(j)
    BY <1>6 DEF SlotAt, WordAt, Filled, Freed
  <2>2. ItemAt(o)' = ItemAt(j)'
    BY <2>1 DEF ItemAt
  <2> QED BY <1>10, <2>2 DEF Pusher, Number
<1>16. PushesAscend'
  <2> SUFFICES ASSUME NEW j \in Nat, NEW k \in Nat, In(j)', In(k)', j < k,
                      Pusher(j)' = Pusher(k)'
               PROVE  Number(j)' < Number(k)'
    BY DEF PushesAscend
  <2>1. CASE In(j) /\ In(k)
    <3>1. Pusher(j)' = Pusher(j) /\ Number(j)' = Number(j)
          /\ Pusher(k)' = Pusher(k) /\ Number(k)' = Number(k)
      BY <1>9, <2>1
    <3> QED BY <2>1, <3>1 DEF ItemsInv, PushesAscend
  <2>2. CASE In(j) /\ k = o
    <3>1. Pusher(j)' = Pusher(j) /\ Number(j)' = Number(j) /\ Pusher(k)' = t /\ Number(k)' = a
      BY <1>9, <1>15, <2>2
    <3>2. Number(j) <= sent[t] /\ Number(j) \in Nat
      BY <1>12, <1>13, <2>2, <3>1
    <3> QED BY <1>4, <3>1, <3>2 DEF a
  <2>3. CASE j = o /\ In(k)
    <3>1. Pusher(k)' = Pusher(k) /\ Pusher(j)' = t
      BY <1>9, <1>15, <2>3
    <3>2. k <= o
      BY <1>12, <2>3, <3>1
    <3> QED BY <1>2, <2>3, <3>2
  <2> QED BY <1>2, <1>9, <2>1, <2>2, <2>3
<1>17. PushersAreAhead'
  <2> SUFFICES ASSUME NEW p \in Producers, Owner(p)'
               PROVE  /\ \A j \in Nat : In(j)' /\ Pusher(j)' = p => j <= Off(p)'
                      /\ pc'[p] = "publish" => In(Off(p))' /\ ItemAt(Off(p))' = <<p, sent'[p] + 1>>
    BY DEF PushersAreAhead
  <2>1. CASE p = t
    <3>1. \A j \in Nat : In(j)' /\ Pusher(j)' = p => j <= Off(p)'
      <4> SUFFICES ASSUME NEW j \in Nat, In(j)', Pusher(j)' = p PROVE j <= Off(p)'
        OBVIOUS
      <4>1. CASE In(j)
        <5>1. Pusher(j) = t
          BY <1>9, <2>1, <4>1
        <5>2. j <= o
          BY <1>12, <4>1, <5>1
        <5> QED BY <1>6, <2>1, <5>2
      <4>2. CASE j = o
        BY <1>2, <1>6, <2>1, <4>2
      <4> QED BY <1>9, <4>1, <4>2
    <3>2. In(Off(p))'
      <4>1. In(o)' <=> Filled(o)' <= Uses(SlotAt(o))'
        BY DEF In
      <4>2. SlotAt(o)' = SlotAt(o) /\ Filled(o)' = Filled(o)
        BY <1>6 DEF SlotAt, WordAt, Filled, Freed
      <4>3. Uses(SlotAt(o))' = n + 1
        <5>1. Uses(SlotAt(o))' = Len(memory'[ValueLoc(SlotAt(o)')])
          BY DEF Uses, ValueLoc
        <5>2. memory'[ValueLoc(SlotAt(o)')] = memory'[l]
          BY <1>2, <4>2 DEF l
        <5> QED BY <1>1, <5>1, <5>2
      <4>4. In(o)'
        BY <1>1, <1>3, <4>1, <4>2, <4>3
      <4> QED BY <2>1, <4>4 DEF o
    <3>3. ItemAt(Off(p))' = <<p, sent'[p] + 1>>
      BY <1>1, <1>10, <2>1 DEF o, a
    <3> QED BY <3>1, <3>2, <3>3
  <2>2. CASE p # t
    <3>1. p \in Thread
      BY LocationFacts
    <3>2. Owner(p) /\ Off(p)' = Off(p) /\ pc'[p] = pc[p]
      BY <1>5, <2>2, <3>1
    <3>3. Off(p) \in Nat
      BY <3>1, <3>2, CallerFacts DEF Owner
    <3>4. /\ \A j \in Nat : In(j) /\ Pusher(j) = p => j <= Off(p)
          /\ pc[p] = "publish" => In(Off(p)) /\ ItemAt(Off(p)) = <<p, sent[p] + 1>>
      BY <3>2 DEF ItemsInv, PushersAreAhead
    <3>5. \A j \in Nat : In(j)' /\ Pusher(j)' = p => j <= Off(p)'
      BY <1>9, <1>15, <2>2, <3>2, <3>4
    <3>6. ASSUME pc'[p] = "publish"
          PROVE  In(Off(p))' /\ ItemAt(Off(p))' = <<p, sent'[p] + 1>>
      <4>1. In(Off(p)) /\ ItemAt(Off(p)) = <<p, sent[p] + 1>>
        BY <3>2, <3>4, <3>6
      <4>2. \A j \in Nat : j = Off(p) => In(j)' /\ ItemAt(j)' = <<p, sent'[p] + 1>>
        BY <1>1, <1>9, <4>1
      <4>3. \A j \in Nat : j = Off(p) =>
              (In(j)' <=> In(Off(p))') /\ ItemAt(j)' = ItemAt(Off(p))'
        BY <3>2 DEF In, ItemAt, Uses
      <4> QED BY <3>3, <4>2, <4>3
    <3> QED BY <3>5, <3>6
  <2> QED BY <2>1, <2>2
<1>18. SentAreIn'
  <2> SUFFICES ASSUME NEW p \in Producers, NEW b \in 1 .. sent[p]
               PROVE  \E j \in Nat : In(j)' /\ ItemAt(j)' = <<p, b>>
    BY <1>1 DEF SentAreIn
  <2>1. PICK j \in Nat : In(j) /\ ItemAt(j) = <<p, b>>
    BY DEF ItemsInv, SentAreIn
  <2> QED BY <1>9, <2>1
<1>19. \A j \in Nat : Out(j) => ItemAt(j)' = ItemAt(j)
  BY <1>9, <1>11
<1>20. GotAreOut'
  <2> SUFFICES ASSUME NEW c \in Consumers, NEW k \in 1 .. Len(got[c])
               PROVE  \E j \in Nat : Out(j)' /\ ItemAt(j)' = got[c][k]
    BY <1>1 DEF GotAreOut
  <2>1. PICK j \in Nat : Out(j) /\ ItemAt(j) = got[c][k]
    BY DEF ItemsInv, GotAreOut
  <2> QED BY <1>9, <1>19, <2>1
<1>21. OutAreGot'
  BY <1>1, <1>9, <1>19, SMTT(30) DEF ItemsInv, OutAreGot
<1>22. GotOnce'
  BY <1>1, SMTT(30) DEF ItemsInv, GotOnce
<1>23. PopsAscend'
  BY <1>1, <1>9, <1>19, SMTT(30) DEF ItemsInv, PopsAscend
<1>24. PoppersAreAhead'
  <2> SUFFICES ASSUME NEW c \in Consumers, Owner(c)', NEW k \in 1 .. Len(got[c]), NEW j \in Nat,
                      Out(j)', ItemAt(j)' = got[c][k]
               PROVE  j <= Off(c)'
    BY <1>1 DEF PoppersAreAhead
  <2>1. c \in Thread /\ c # t
    BY LocationFacts
  <2>2. Owner(c) /\ Off(c)' = Off(c)
    BY <1>5, <2>1
  <2>3. Out(j) /\ ItemAt(j) = got[c][k]
    BY <1>9, <1>19
  <2> QED BY <2>2, <2>3 DEF ItemsInv, PoppersAreAhead
<1> QED BY <1>14, <1>16, <1>17, <1>18, <1>20, <1>21, <1>22, <1>23, <1>24 DEF ItemsInv

\* What a pusher has done and is about to is its own while others move.
LEMMA PushersKeep ==
  ASSUME QInv, ItemsInv, NEW t \in Thread, sent' = sent,
         \A u \in Thread : u # t =>
           pc'[u] = pc[u] /\ Off(u)' = Off(u) /\ (Owner(u)' <=> Owner(u)),
         t \in Consumers,
         \A j \in Nat :
           /\ In(j)' <=> In(j)
           /\ In(j) => ItemAt(j)' = ItemAt(j) /\ Pusher(j)' = Pusher(j) /\ Number(j)' = Number(j)
  PROVE  ItemsAreSent' /\ PushesAscend' /\ PushersAreAhead' /\ SentAreIn'
<1>1. \A p \in Producers : p \in Thread /\ p # t
  BY LocationFacts
<1>2. ItemsAreSent'
  <2> SUFFICES ASSUME NEW j \in Nat, In(j)'
               PROVE  /\ Pusher(j)' \in Producers /\ Number(j)' \in Nat \ {0}
                      /\ ItemAt(j)' = <<Pusher(j)', Number(j)'>>
                      /\ \/ Number(j)' <= sent'[Pusher(j)']
                         \/ Putting(Pusher(j), j)' /\ Number(j)' = sent'[Pusher(j)'] + 1
    BY DEF ItemsAreSent
  <2>1. In(j) /\ ItemAt(j)' = ItemAt(j) /\ Pusher(j)' = Pusher(j) /\ Number(j)' = Number(j)
    OBVIOUS
  <2>2. /\ Pusher(j) \in Producers /\ Number(j) \in Nat \ {0}
        /\ ItemAt(j) = <<Pusher(j), Number(j)>>
        /\ \/ Number(j) <= sent[Pusher(j)]
           \/ Putting(Pusher(j), j) /\ Number(j) = sent[Pusher(j)] + 1
    BY <2>1 DEF ItemsInv, ItemsAreSent
  <2>3. ASSUME Putting(Pusher(j), j) PROVE Putting(Pusher(j), j)'
    <3>1. PICK p \in Producers : p = Pusher(j)
      BY <2>2
    <3>2. pc'[p] = "publish" /\ j = Off(p)'
      BY <1>1, <2>3, <3>1 DEF Putting
    <3>3. Putting(p, j)'
      BY <3>2 DEF Putting
    <3>4. p = Pusher(j)'
      BY <2>1, <3>1
    <3> QED BY <3>3, <3>4 DEF Putting, Off
  <2> QED BY <2>1, <2>2, <2>3
<1>3. PushesAscend'
  BY DEF ItemsInv, PushesAscend
<1>4. PushersAreAhead'
  <2> SUFFICES ASSUME NEW p \in Producers, Owner(p)'
               PROVE  /\ \A j \in Nat : In(j)' /\ Pusher(j)' = p => j <= Off(p)'
                      /\ pc'[p] = "publish" => In(Off(p))' /\ ItemAt(Off(p))' = <<p, sent'[p] + 1>>
    BY DEF PushersAreAhead
  <2>1. p \in Thread /\ Owner(p) /\ Off(p)' = Off(p) /\ pc'[p] = pc[p]
    BY <1>1
  <2>2. Off(p) \in Nat
    BY <2>1, CallerFacts DEF Owner
  <2>3. /\ \A j \in Nat : In(j) /\ Pusher(j) = p => j <= Off(p)
        /\ pc[p] = "publish" => In(Off(p)) /\ ItemAt(Off(p)) = <<p, sent[p] + 1>>
    BY <2>1 DEF ItemsInv, PushersAreAhead
  <2>4. \A j \in Nat : In(j)' /\ Pusher(j)' = p => j <= Off(p)'
    BY <2>1, <2>3
  <2>5. ASSUME pc'[p] = "publish"
        PROVE  In(Off(p))' /\ ItemAt(Off(p))' = <<p, sent'[p] + 1>>
    <3>1. In(Off(p)) /\ ItemAt(Off(p)) = <<p, sent[p] + 1>>
      BY <2>1, <2>3, <2>5
    <3>2. \A j \in Nat : j = Off(p) => In(j)' /\ ItemAt(j)' = <<p, sent'[p] + 1>>
      BY <3>1
    <3>3. \A j \in Nat : j = Off(p) =>
            (In(j)' <=> In(Off(p))') /\ ItemAt(j)' = ItemAt(Off(p))'
      BY <2>1 DEF In, ItemAt, Uses
    <3> QED BY <2>2, <3>2, <3>3
  <2> QED BY <2>4, <2>5
<1>5. SentAreIn'
  <2> SUFFICES ASSUME NEW p \in Producers, NEW b \in 1 .. sent[p]
               PROVE  \E j \in Nat : In(j)' /\ ItemAt(j)' = <<p, b>>
    BY DEF SentAreIn
  <2>1. PICK j \in Nat : In(j) /\ ItemAt(j) = <<p, b>>
    BY DEF ItemsInv, SentAreIn
  <2> QED BY <2>1
<1> QED BY <1>2, <1>3, <1>4, <1>5

\* A pop moves the item of its offset out, after all those it popped before.
LEMMA TakeItems ==
  ASSUME QInv, QInv', ItemsInv, NEW t \in Consumers, Use(t)
  PROVE  ItemsInv'
<1>1. t \in Thread /\ t \notin Producers
  BY LocationFacts
<1>2. /\ pc[t] = "use" /\ pc' = [pc EXCEPT ![t] = "publish"] /\ pos' = pos /\ sent' = sent
      /\ Owner(t)
  BY <1>1, UseFacts DEF Owner
<1>3. PICK o \in Nat : o = Off(t) /\ SlotAt(o) \in Index
  BY <1>1, <1>2, CallerFacts, WordFacts
<1>4. PICK i \in Index : i = SlotAt(o)
  BY <1>3
<1>5. PICK n \in Nat : n = Uses(i)
  BY <1>4, CountFacts
<1>6. /\ n = Filled(o) /\ Len(memory'[ValueLoc(i)]) = n + 1
      /\ \A k \in Index : k # i => memory'[ValueLoc(k)] = memory[ValueLoc(k)]
      /\ \A m \in 1 .. n : memory'[ValueLoc(i)][m] = memory[ValueLoc(i)][m]
      /\ memory'[ValueLoc(i)][n + 1].val = ItemAt(o)
      /\ got' = [got EXCEPT ![t] = Append(@, ItemAt(o))]
  <2>1. SlotOf(t) = i /\ Due(t) = Filled(o)
    BY <1>1, <1>3, <1>4 DEF SlotOf, Due
  <2>2. n = Filled(o) /\ n = Len(memory[ValueLoc(i)])
    BY <1>1, <1>2, <1>5, <2>1 DEF QInv, OwnersHaveTheTurn, Uses
  <2>3. ItemAt(o) = memory[ValueLoc(i)][n].val
    BY <1>4, <2>2 DEF ItemAt
  <2>4. /\ Len(memory'[ValueLoc(i)]) = n + 1
        /\ \A m \in 1 .. n : memory'[ValueLoc(i)][m] = memory[ValueLoc(i)][m]
        /\ memory'[ValueLoc(i)][n + 1].val = ItemAt(o)
        /\ got' = [got EXCEPT ![t] = Append(@, ItemAt(o))]
    <3>1. /\ Len(memory'[ValueLoc(SlotOf(t))]) = Len(memory[ValueLoc(SlotOf(t))]) + 1
          /\ \A m \in 1 .. Len(memory[ValueLoc(SlotOf(t))]) :
               memory'[ValueLoc(SlotOf(t))][m] = memory[ValueLoc(SlotOf(t))][m]
      BY <1>1, UseFacts
    <3>2. memory'[ValueLoc(SlotOf(t))][Len(memory[ValueLoc(SlotOf(t))]) + 1].val
            = memory[ValueLoc(SlotOf(t))][Len(memory[ValueLoc(SlotOf(t))])].val
      BY <1>1, UseFacts
    <3>3. got' = [got EXCEPT ![t] = Append(@, memory[ValueLoc(SlotOf(t))]
                                                    [Len(memory[ValueLoc(SlotOf(t))])].val)]
      BY <1>1, UseFacts
    <3> QED BY <2>1, <2>2, <2>3, <3>1, <3>2, <3>3
  <2>5. \A k \in Location : k # ValueLoc(i) => memory'[k] = memory[k]
    BY <1>1, <2>1, UseFacts
  <2>6. \A k \in Index : k # i => memory'[ValueLoc(k)] = memory[ValueLoc(k)]
    BY <2>5, LocationFacts
  <2> QED BY <2>2, <2>4, <2>6
<1>7. /\ pc'[t] = "publish" /\ Off(t)' = o
      /\ \A u \in Thread : u # t =>
           pc'[u] = pc[u] /\ Off(u)' = Off(u) /\ (Owner(u)' <=> Owner(u))
  <2>1. Off(t)' = o
    BY <1>2, <1>3 DEF Off
  <2> QED BY <1>1, <1>2, <2>1, OthersKeep DEF QInv
<1>8. \A j \in Nat :
        /\ In(j)' <=> In(j)
        /\ Out(j)' <=> Out(j) \/ j = o
        /\ In(j) => ItemAt(j)' = ItemAt(j) /\ Pusher(j)' = Pusher(j) /\ Number(j)' = Number(j)
  <2> SUFFICES ASSUME NEW j \in Nat
               PROVE  /\ In(j)' <=> In(j)
                      /\ Out(j)' <=> Out(j) \/ j = o
                      /\ In(j) => ItemAt(j)' = ItemAt(j)
    BY DEF Pusher, Number
  <2>0. SlotAt(j) \in Index
    BY WordFacts
  <2>1. CASE SlotAt(j) # i
    <3>1. memory'[ValueLoc(SlotAt(j))] = memory[ValueLoc(SlotAt(j))]
      BY <1>6, <2>0, <2>1
    <3>2. j # o
      BY <1>4, <2>1
    <3> QED BY <3>1, <3>2, ItemsStay
  <2>2. CASE SlotAt(j) = i
    <3>1. /\ Freed(j) \in Nat \ {0} /\ Filled(j) = Freed(j) + 1
          /\ Freed(o) \in Nat \ {0} /\ Filled(o) = Freed(o) + 1
          /\ Freed(j) = Freed(o) => j = o
      BY <1>4, <2>2, TurnFacts, TurnsAreOwn
    <3>2. Filled(j) # n + 1
      <4>1. SlotAt(o + Cap) = SlotAt(o) /\ Freed(o + Cap) = Freed(o) + 2 /\ o + Cap \in Nat
        BY TurnFacts, Constants
      <4>2. Freed(o + Cap) # Filled(j)
        BY <1>4, <2>2, <4>1, TurnsAreOwn
      <4> QED BY <1>6, <3>1, <4>1, <4>2
    <3>3. Uses(SlotAt(j)) = n /\ Uses(SlotAt(j))' = n + 1
      BY <1>5, <1>6, <2>2 DEF Uses
    <3>4. (In(j) <=> Filled(j) <= n) /\ (In(j)' <=> Filled(j) <= n + 1)
      BY <3>3 DEF In
    <3>5. (Out(j) <=> Filled(j) + 1 <= n) /\ (Out(j)' <=> Filled(j) + 1 <= n + 1)
      BY <3>3 DEF Out
    <3>6. ASSUME In(j) PROVE ItemAt(j)' = ItemAt(j)
      <4>1. Filled(j) \in 1 .. n
        BY <3>1, <3>4, <3>6
      <4> QED BY <1>6, <2>2, <4>1 DEF ItemAt
    <3>7. In(j)' <=> In(j)
      BY <3>1, <3>2, <3>4
    <3>8. Out(j)' <=> Out(j) \/ j = o
      BY <1>6, <3>1, <3>5
    <3> QED BY <3>6, <3>7, <3>8
  <2> QED BY <2>1, <2>2
<1>9. In(o) /\ ~ Out(o)
  <2>1. n \in Nat /\ Uses(SlotAt(o)) = Filled(o)
    BY <1>4, <1>5, <1>6
  <2> QED BY <1>6, <2>1 DEF In, Out
<1>10. ItemsAreSent' /\ PushesAscend' /\ PushersAreAhead' /\ SentAreIn'
  BY <1>1, <1>2, <1>7, <1>8, PushersKeep
<1>11. /\ \A j \in Nat : Out(j) => In(j)
       /\ \A j \in Nat : In(j) /\ ItemAt(j) = ItemAt(o) => j = o
       /\ \A c \in Consumers : \A k \in 1 .. Len(got[c]) : got[c][k] # ItemAt(o)
  BY <1>9, ItemFacts
<1>12. PICK x \in Anything : x = ItemAt(o)
  <2>1. n \in 1 .. Len(memory[ValueLoc(i)])
    BY <1>4, <1>5, CountFacts DEF Uses
  <2>2. memory[ValueLoc(i)][n].val \in Anything
    BY <2>1, LocationFacts, MemoryFacts DEF QInv
  <2> QED BY <1>4, <1>6, <2>2 DEF ItemAt
<1>13. PICK m \in Nat : m = Len(got[t])
  BY DEF QInv, TypeOK
<1>14. /\ \A c \in Consumers : c # t => got'[c] = got[c]
       /\ Len(got'[t]) = m + 1 /\ got'[t][m + 1] = x
       /\ \A k \in 1 .. m : got'[t][k] = got[t][k]
  <2>1. got \in [Consumers -> Seq(Anything)]
    BY DEF QInv, TypeOK
  <2>2. got[t] \in Seq(Anything) /\ got'[t] = Append(got[t], x)
    BY <1>6, <1>12, <2>1
  <2>3. Len(got'[t]) = m + 1 /\ got'[t][m + 1] = x /\ \A k \in 1 .. m : got'[t][k] = got[t][k]
    BY <1>12, <1>13, <2>2, AppendProperties
  <2> QED BY <1>6, <2>1, <2>3
<1>15. \A j \in Nat : Out(j)' => ItemAt(j)' = ItemAt(j) /\ In(j)
  BY <1>8, <1>9, <1>11
<1>16. \A c \in Consumers : \A k \in 1 .. Len(got'[c]) :
         \/ c = t /\ k = m + 1 /\ got'[c][k] = x
         \/ k \in 1 .. Len(got[c]) /\ got'[c][k] = got[c][k] /\ got[c][k] # x
            /\ (c = t => k <= m)
  BY <1>11, <1>12, <1>13, <1>14, SMTT(30)
<1>17. \A j \in Nat : In(j) /\ ItemAt(j) = x => j = o
  BY <1>11, <1>12
<1>18. GotAreOut'
  <2> SUFFICES ASSUME NEW c \in Consumers, NEW k \in 1 .. Len(got'[c])
               PROVE  \E j \in Nat : Out(j)' /\ ItemAt(j)' = got'[c][k]
    BY DEF GotAreOut
  <2>1. CASE got'[c][k] = x
    <3>1. Out(o)' /\ ItemAt(o)' = x
      BY <1>8, <1>9, <1>12
    <3> QED BY <2>1, <3>1
  <2>2. CASE k \in 1 .. Len(got[c]) /\ got'[c][k] = got[c][k]
    <3>1. PICK j \in Nat : Out(j) /\ ItemAt(j) = got[c][k]
      BY <2>2 DEF ItemsInv, GotAreOut
    <3> QED BY <1>8, <1>15, <2>2, <3>1
  <2> QED BY <1>16, <2>1, <2>2
<1>19. OutAreGot'
  <2> SUFFICES ASSUME NEW j \in Nat, Out(j)'
               PROVE  \E c \in Consumers : \E k \in 1 .. Len(got'[c]) : got'[c][k] = ItemAt(j)'
    BY DEF OutAreGot
  <2>1. CASE j = o
    <3>1. m + 1 \in 1 .. Len(got'[t])
      BY <1>14
    <3> QED BY <1>12, <1>14, <1>15, <2>1, <3>1
  <2>2. CASE Out(j)
    <3>1. PICK c \in Consumers : \E k \in 1 .. Len(got[c]) : got[c][k] = ItemAt(j)
      BY <2>2 DEF ItemsInv, OutAreGot
    <3>2. PICK k \in 1 .. Len(got[c]) : got[c][k] = ItemAt(j)
      BY <3>1
    <3>3. k \in 1 .. Len(got'[c]) /\ got'[c][k] = got[c][k]
      BY <1>13, <1>14
    <3> QED BY <1>15, <3>2, <3>3
  <2> QED BY <1>8, <2>1, <2>2
<1>20. GotOnce'
  <2> SUFFICES ASSUME NEW c \in Consumers, NEW d \in Consumers, NEW h \in 1 .. Len(got'[c]),
                      NEW k \in 1 .. Len(got'[d]), got'[c][h] = got'[d][k]
               PROVE  c = d /\ h = k
    BY DEF GotOnce
  <2>1. CASE got'[c][h] = x
    <3>1. c = t /\ h = m + 1
      <4>1. \/ c = t /\ h = m + 1
            \/ got'[c][h] = got[c][h] /\ got[c][h] # x
        BY <1>16
      <4> QED BY <2>1, <4>1
    <3>2. d = t /\ k = m + 1
      <4>1. \/ d = t /\ k = m + 1
            \/ got'[d][k] = got[d][k] /\ got[d][k] # x
        BY <1>16
      <4> QED BY <2>1, <4>1
    <3> QED BY <3>1, <3>2
  <2>2. CASE got'[c][h] # x
    BY <1>16, <2>2 DEF ItemsInv, GotOnce
  <2> QED BY <2>1, <2>2
<1>21. PopsAscend'
  <2> SUFFICES ASSUME NEW c \in Consumers, NEW f \in 1 .. Len(got'[c]), NEW k \in 1 .. Len(got'[c]),
                      f < k, NEW j \in Nat, NEW h \in Nat, Out(j)', Out(h)',
                      ItemAt(j)' = got'[c][f], ItemAt(h)' = got'[c][k]
               PROVE  j < h
    BY DEF PopsAscend
  <2>1. f \in 1 .. Len(got[c]) /\ got'[c][f] = got[c][f] /\ got[c][f] # x
    <3>1. CASE c = t /\ f = m + 1
      BY <1>14, <3>1
    <3> QED BY <1>16, <3>1
  <2>2. Out(j) /\ ItemAt(j) = got[c][f]
    BY <1>8, <1>12, <1>15, <2>1
  <2>3. CASE c = t /\ k = m + 1 /\ got'[c][k] = x
    <3>1. h = o
      BY <1>15, <1>17, <2>3
    <3>2. j <= o
      BY <1>2, <1>3, <2>1, <2>2, <2>3 DEF ItemsInv, PoppersAreAhead
    <3>3. j # o
      BY <1>9, <2>2
    <3> QED BY <3>1, <3>2, <3>3
  <2>4. CASE k \in 1 .. Len(got[c]) /\ got'[c][k] = got[c][k] /\ got[c][k] # x
    <3>1. Out(h) /\ ItemAt(h) = got[c][k]
      BY <1>8, <1>12, <1>15, <2>4
    <3> QED BY <2>1, <2>2, <2>4, <3>1 DEF ItemsInv, PopsAscend
  <2> QED BY <1>16, <2>3, <2>4
<1>22. PoppersAreAhead'
  <2> SUFFICES ASSUME NEW c \in Consumers, Owner(c)', NEW k \in 1 .. Len(got'[c]), NEW j \in Nat,
                      Out(j)', ItemAt(j)' = got'[c][k]
               PROVE  j <= Off(c)'
    BY DEF PoppersAreAhead
  <2>0. Owner(c) /\ Off(c)' = Off(c)
    BY <1>2, <1>3, <1>7, LocationFacts
  <2>1. CASE c = t /\ got'[c][k] = x
    BY <1>7, <1>15, <1>17, <2>1
  <2>2. CASE k \in 1 .. Len(got[c]) /\ got'[c][k] = got[c][k] /\ got[c][k] # x
    <3>1. Out(j) /\ ItemAt(j) = got[c][k]
      BY <1>8, <1>12, <1>15, <2>2
    <3> QED BY <2>0, <2>2, <3>1 DEF ItemsInv, PoppersAreAhead
  <2> QED BY <1>16, <2>1, <2>2
<1> QED BY <1>10, <1>18, <1>19, <1>20, <1>21, <1>22 DEF ItemsInv

\* A publication counts the item as pushed, or ends a pop.
LEMMA PublishItems ==
  ASSUME QInv, QInv', ItemsInv, NEW t \in Thread, Publish(t)
  PROVE  ItemsInv'
<1>1. /\ pc[t] = "publish" /\ Owner(t)
      /\ pc' = [pc EXCEPT ![t] = "idle"] /\ pos' = [pos EXCEPT ![t] = Start]
      /\ got' = got
      /\ sent' = IF t \in Producers THEN [sent EXCEPT ![t] = @ + 1] ELSE sent
  BY DEF Publish, Return, GoTo, Owner
<1>2. \A k \in Index : memory'[ValueLoc(k)] = memory[ValueLoc(k)]
  <2>1. SlotOf(t) \in Index /\ SeqAt(pos[t]) = SeqLoc(SlotOf(t))
    BY <1>1, CallerFacts
  <2>2. \E v, r : memory' = [memory EXCEPT ![SeqLoc(SlotOf(t))] = Append(@, [val |-> v, view |-> r])]
    BY <2>1 DEF Publish, Write
  <2>3. memory \in [Location -> Seq([val : Anything, view : View])]
    BY DEF QInv, TypeOK
  <2> QED BY <2>1, <2>2, <2>3, LocationFacts
<1>3. /\ ~ Owner(t)'
      /\ \A u \in Thread : u # t =>
           pc'[u] = pc[u] /\ Off(u)' = Off(u) /\ (Owner(u)' <=> Owner(u))
  <2>1. /\ pc'[t] = "idle"
        /\ \A u \in Thread : u # t =>
             pc'[u] = pc[u] /\ Off(u)' = Off(u) /\ (Owner(u)' <=> Owner(u))
    BY <1>1, OthersKeep DEF QInv
  <2> QED BY <2>1 DEF Owner
<1>4. \A j \in Nat :
        /\ ItemAt(j)' = ItemAt(j) /\ Pusher(j)' = Pusher(j) /\ Number(j)' = Number(j)
        /\ (In(j)' <=> In(j)) /\ (Out(j)' <=> Out(j))
  BY <1>2, ItemsStay, WordFacts
<1>5. \A p \in Producers :
        /\ p \in Thread /\ sent[p] \in Nat
        /\ p # t => sent'[p] = sent[p]
        /\ p = t => sent'[p] = sent[p] + 1
  BY <1>1, LocationFacts DEF QInv, TypeOK
<1>6. ASSUME t \in Producers
      PROVE  \E o \in Nat : o = Off(t) /\ In(o) /\ ItemAt(o) = <<t, sent[t] + 1>>
  <2>1. Off(t) \in Nat
    BY <1>1, CallerFacts
  <2> QED BY <1>1, <1>6, <2>1 DEF ItemsInv, PushersAreAhead
<1>7. ItemsAreSent'
  <2> SUFFICES ASSUME NEW j \in Nat, In(j)'
               PROVE  /\ Pusher(j)' \in Producers /\ Number(j)' \in Nat \ {0}
                      /\ ItemAt(j)' = <<Pusher(j)', Number(j)'>>
                      /\ \/ Number(j)' <= sent'[Pusher(j)']
                         \/ Putting(Pusher(j), j)' /\ Number(j)' = sent'[Pusher(j)'] + 1
    BY DEF ItemsAreSent
  <2>1. PICK p \in Producers : p = Pusher(j)
    BY <1>4 DEF ItemsInv, ItemsAreSent
  <2>2. PICK a \in Nat \ {0} : a = Number(j)
    BY <1>4 DEF ItemsInv, ItemsAreSent
  <2>3. ItemAt(j)' = <<p, a>> /\ Pusher(j)' = p /\ Number(j)' = a
    BY <1>4, <2>1, <2>2 DEF ItemsInv, ItemsAreSent
  <2>4. a <= sent'[p] \/ (Putting(p, j)' /\ a = sent'[p] + 1)
    <3>1. a <= sent[p] \/ (Putting(p, j) /\ a = sent[p] + 1)
      <4>1. Number(j) <= sent[Pusher(j)] \/ (Putting(Pusher(j), j) /\ Number(j) = sent[Pusher(j)] + 1)
        BY <1>4 DEF ItemsInv, ItemsAreSent
      <4> QED BY <2>1, <2>2, <4>1
    <3>2. CASE a <= sent[p]
      BY <1>5, <2>2, <3>2
    <3>3. CASE p = t /\ a = sent[p] + 1
      BY <1>5, <3>3
    <3>4. CASE p # t /\ Putting(p, j) /\ a = sent[p] + 1
      <4>1. Putting(p, j)'
        BY <1>3, <1>5, <3>4 DEF Putting
      <4> QED BY <1>5, <3>4, <4>1
    <3> QED BY <3>1, <3>2, <3>3, <3>4
  <2>5. Putting(p, j)' => Putting(Pusher(j), j)'
    BY <2>3 DEF Putting, Off
  <2> QED BY <2>2, <2>3, <2>4, <2>5
<1>8. PushesAscend'
  BY <1>4 DEF ItemsInv, PushesAscend
<1>9. PushersAreAhead'
  <2> SUFFICES ASSUME NEW p \in Producers, Owner(p)'
               PROVE  /\ \A j \in Nat : In(j)' /\ Pusher(j)' = p => j <= Off(p)'
                      /\ pc'[p] = "publish" => In(Off(p))' /\ ItemAt(Off(p))' = <<p, sent'[p] + 1>>
    BY DEF PushersAreAhead
  <2>1. p \in Thread /\ p # t /\ Owner(p) /\ Off(p)' = Off(p) /\ pc'[p] = pc[p] /\ sent'[p] = sent[p]
    BY <1>3, <1>5
  <2>2. Off(p) \in Nat
    BY <2>1, CallerFacts DEF Owner
  <2>3. /\ \A j \in Nat : In(j) /\ Pusher(j) = p => j <= Off(p)
        /\ pc[p] = "publish" => In(Off(p)) /\ ItemAt(Off(p)) = <<p, sent[p] + 1>>
    BY <2>1 DEF ItemsInv, PushersAreAhead
  <2>4. \A j \in Nat : In(j)' /\ Pusher(j)' = p => j <= Off(p)'
    BY <1>4, <2>1, <2>3
  <2>5. ASSUME pc'[p] = "publish"
        PROVE  In(Off(p))' /\ ItemAt(Off(p))' = <<p, sent'[p] + 1>>
    <3>1. In(Off(p)) /\ ItemAt(Off(p)) = <<p, sent[p] + 1>>
      BY <2>1, <2>3, <2>5
    <3>2. \A j \in Nat : j = Off(p) => In(j)' /\ ItemAt(j)' = <<p, sent'[p] + 1>>
      BY <1>4, <2>1, <3>1
    <3>3. \A j \in Nat : j = Off(p) =>
            (In(j)' <=> In(Off(p))') /\ ItemAt(j)' = ItemAt(Off(p))'
      BY <2>1 DEF In, ItemAt, Uses
    <3> QED BY <2>2, <3>2, <3>3
  <2> QED BY <2>4, <2>5
<1>10. SentAreIn'
  <2> SUFFICES ASSUME NEW p \in Producers, NEW b \in 1 .. sent'[p]
               PROVE  \E j \in Nat : In(j)' /\ ItemAt(j)' = <<p, b>>
    BY DEF SentAreIn
  <2>1. CASE b \in 1 .. sent[p]
    <3>1. PICK j \in Nat : In(j) /\ ItemAt(j) = <<p, b>>
      BY <2>1 DEF ItemsInv, SentAreIn
    <3> QED BY <1>4, <3>1
  <2>2. CASE p = t /\ b = sent[p] + 1
    <3>1. PICK o \in Nat : In(o) /\ ItemAt(o) = <<t, sent[t] + 1>>
      BY <1>6, <2>2
    <3> QED BY <1>4, <2>2, <3>1
  <2> QED BY <1>5, <2>1, <2>2
<1>11. GotAreOut' /\ OutAreGot' /\ GotOnce'
  BY <1>1, <1>4 DEF ItemsInv, GotAreOut, OutAreGot, GotOnce
<1>12. PopsAscend'
  BY <1>1, <1>4 DEF ItemsInv, PopsAscend
<1>13. PoppersAreAhead'
  <2> SUFFICES ASSUME NEW c \in Consumers, Owner(c)',
                      NEW i \in 1 .. Len(got[c]), NEW j \in Nat, Out(j), ItemAt(j) = got[c][i]
               PROVE  j <= Off(c)'
    BY <1>1, <1>4 DEF PoppersAreAhead
  <2>1. c \in Thread /\ Owner(c) /\ Off(c)' = Off(c)
    BY <1>3, LocationFacts
  <2> QED BY <2>1 DEF ItemsInv, PoppersAreAhead
<1> QED BY <1>7, <1>8, <1>9, <1>10, <1>11, <1>12, <1>13 DEF ItemsInv

\* A load, a look and a claim touch no payload.
LEMMA LoadItems ==
  ASSUME QInv, QInv', ItemsInv, NEW t \in Thread, NEW n \in Nat \ {0},
         \/ Call(t, n) \/ Reload(t, n) \/ ClaimFails(t, n) \/ Look(t, n)
  PROVE  ItemsInv'
<1>1. /\ memory' = memory /\ sent' = sent /\ got' = got /\ ~ Owner(t)
  BY DEF Call, Reload, ClaimFails, Look, LoadPosition, Owner
<1>2. \E label \in {"idle", "look", "reload", "claim"} :
        /\ pc' = [pc EXCEPT ![t] = label]
        /\ pos' = pos \/ \E w : pos' = [pos EXCEPT ![t] = w]
  BY DEF Call, Reload, ClaimFails, Look, LoadPosition, GoTo, Return, Stay
<1>3. PICK label \in {"idle", "look", "reload", "claim"} :
        /\ pc' = [pc EXCEPT ![t] = label]
        /\ pos' = pos \/ \E w : pos' = [pos EXCEPT ![t] = w]
  BY <1>2
<1>4. /\ pc'[t] = label
      /\ \A u \in Thread : u # t =>
           pc'[u] = pc[u] /\ Off(u)' = Off(u) /\ (Owner(u)' <=> Owner(u))
  BY <1>3, OthersKeep DEF QInv
<1>5. ~ Owner(t)'
  BY <1>4 DEF Owner
<1> QED BY <1>1, <1>4, <1>5, QuietItems

\* A claim's offset comes after all that were claimed.
LEMMA ClaimItems ==
  ASSUME QInv, QInv', ItemsInv, NEW t \in Thread, Claim(t)
  PROVE  ItemsInv'
<1>1. /\ pc[t] = "claim" /\ pc' = [pc EXCEPT ![t] = "use"] /\ pos' = pos
      /\ sent' = sent /\ got' = got /\ ~ Owner(t)
      /\ Newest(memory, Position(t)) = pos[t]
  BY DEF Claim, GoTo, Owner
<1>2. \A k \in Index : memory'[ValueLoc(k)] = memory[ValueLoc(k)]
  <2>1. \E v, r : memory' = [memory EXCEPT ![Position(t)] = Append(@, [val |-> v, view |-> r])]
    BY DEF Claim, Write
  <2>2. memory \in [Location -> Seq([val : Anything, view : View])]
    BY DEF QInv, TypeOK
  <2> QED BY <2>1, <2>2, LocationFacts
<1>3. /\ pc'[t] = "use"
      /\ \A u \in Thread : u # t =>
           pc'[u] = pc[u] /\ Off(u)' = Off(u) /\ (Owner(u)' <=> Owner(u))
  BY <1>1, OthersKeep DEF QInv
<1>4. Off(t)' = Off(t) /\ Off(t) \in Nat
  BY <1>1, CallerFacts DEF Off
<1>5. Off(t) = Claims(Position(t))
  BY <1>1, ClaimFinds
<1>6. \A j \in Nat : /\ In(j) => j < Claims(TailPos)
                     /\ Out(j) => j < Claims(HeadPos)
  BY DEF QInv, UsesAreClaimed, In, Out
<1>7. /\ t \in Producers => \A j \in Nat : In(j) => j < Off(t)'
      /\ t \in Consumers => \A j \in Nat : Out(j) => j < Off(t)'
  BY <1>4, <1>5, <1>6, LocationFacts
<1> QED BY <1>1, <1>2, <1>3, <1>4, <1>7, QuietItems

\* Nothing is in a slot at first.
LEMMA ItemsInit == Init => ItemsInv
<1> SUFFICES ASSUME Init PROVE ItemsInv
  OBVIOUS
<1>1. \A j \in Nat : ~ In(j) /\ ~ Out(j)
  <2> SUFFICES ASSUME NEW j \in Nat PROVE ~ In(j) /\ ~ Out(j)
    OBVIOUS
  <2>1. SlotAt(j) \in Index
    BY WordFacts
  <2>2. Uses(SlotAt(j)) = 1
    BY <2>1, LocationFacts DEF Init, Uses
  <2>3. Filled(j) \in Nat /\ Filled(j) >= 2
    BY TurnFacts
  <2> QED BY <2>2, <2>3 DEF In, Out
<1>2. \A t \in Thread : ~ Owner(t)
  BY DEF Init, Owner
<1>3. /\ \A c \in Consumers : Len(got[c]) = 0
      /\ \A p \in Producers : sent[p] = 0
      /\ \A t \in Producers \cup Consumers : ~ Owner(t)
  BY <1>2 DEF Init, Thread
<1>4. ItemsAreSent /\ PushesAscend /\ PushersAreAhead /\ SentAreIn
  BY <1>1, <1>3 DEF ItemsAreSent, PushesAscend, PushersAreAhead, SentAreIn
<1>5. GotAreOut /\ OutAreGot /\ GotOnce /\ PopsAscend /\ PoppersAreAhead
  BY <1>1, <1>3 DEF GotAreOut, OutAreGot, GotOnce, PopsAscend, PoppersAreAhead
<1> QED BY <1>4, <1>5 DEF ItemsInv

\* Every step keeps what is said of the items.
LEMMA ItemsNext == QInv /\ QInv' /\ ItemsInv /\ [Next]_vars => ItemsInv'
<1> SUFFICES ASSUME QInv, QInv', ItemsInv, [Next]_vars PROVE ItemsInv'
  OBVIOUS
<1>1. CASE UNCHANGED vars
  <2>1. /\ memory' = memory /\ sent' = sent /\ got' = got
        /\ \A u \in Thread : pc'[u] = pc[u] /\ Off(u)' = Off(u) /\ (Owner(u)' <=> Owner(u))
    BY <1>1 DEF vars, Off, Owner
  <2> QED BY <2>1, QuietItems
<1>2. CASE Next
  <2>1. PICK t \in Thread :
           \/ \E n \in Nat \ {0} : \/ Call(t, n) \/ Reload(t, n) \/ ClaimFails(t, n)
                                   \/ Look(t, n)
           \/ Claim(t) \/ Use(t) \/ Publish(t)
    BY <1>2, StepIs
  <2>2. ASSUME NEW n \in Nat \ {0},
               \/ Call(t, n) \/ Reload(t, n) \/ ClaimFails(t, n) \/ Look(t, n)
        PROVE  ItemsInv'
    BY <2>2, LoadItems
  <2>3. CASE Claim(t)
    BY <2>3, ClaimItems
  <2>4. CASE Use(t) /\ t \in Producers
    BY <2>4, PutItems
  <2>5. CASE Use(t) /\ t \in Consumers
    BY <2>5, TakeItems
  <2>6. CASE Publish(t)
    BY <2>6, PublishItems
  <2> QED BY <2>1, <2>2, <2>3, <2>4, <2>5, <2>6 DEF Thread
<1> QED BY <1>1, <1>2

\* The invariant of the items: a slot's history says who pushed what, and the
\* offsets say in which order.
THEOREM ItemsAreKept == Spec => [](QInv /\ ItemsInv)
<1>1. Init => QInv /\ ItemsInv
  BY QInit, ItemsInit
<1>2. (QInv /\ ItemsInv) /\ [Next]_vars => (QInv /\ ItemsInv)'
  BY QNext, ItemsNext
<1> QED BY <1>1, <1>2, PTL DEF Spec

\* A consumer sees the items of one producer in the order they were pushed.
THEOREM FifoIsKept == Spec => []FifoPerProducer
<1>1. QInv /\ ItemsInv => FifoPerProducer
  <2> SUFFICES ASSUME QInv, ItemsInv, NEW c \in Consumers,
                      NEW i \in DOMAIN got[c], NEW j \in DOMAIN got[c],
                      i < j, got[c][i][1] = got[c][j][1]
               PROVE  got[c][i][2] < got[c][j][2]
    BY DEF FifoPerProducer
  <2>1. i \in 1 .. Len(got[c]) /\ j \in 1 .. Len(got[c])
    BY DEF QInv, TypeOK
  <2>2. PICK h \in Nat : Out(h) /\ ItemAt(h) = got[c][i]
    BY <2>1 DEF ItemsInv, GotAreOut
  <2>3. PICK k \in Nat : Out(k) /\ ItemAt(k) = got[c][j]
    BY <2>1 DEF ItemsInv, GotAreOut
  <2>4. h < k
    BY <2>1, <2>2, <2>3 DEF ItemsInv, PopsAscend
  <2>5. In(h) /\ In(k) /\ Pusher(h) = Pusher(k)
    BY <2>2, <2>3, ItemFacts DEF Pusher
  <2> QED BY <2>2, <2>3, <2>4, <2>5 DEF ItemsInv, PushesAscend, Number
<1> QED BY <1>1, ItemsAreKept, PTL

\* What was pushed is in a slot or was popped, by one consumer, once.
THEOREM NothingIsLost == Spec => []Conserved
<1>1. QInv /\ ItemsInv => Conserved
  <2> SUFFICES ASSUME QInv, ItemsInv PROVE Conserved
    OBVIOUS
  <2>1. ASSUME NEW item \in Pushed, item \notin Popped
        PROVE  \E i \in Index : item = Newest(memory, Value(i))
    <3>1. PICK p \in Producers, a \in 1 .. MaxItems : item = <<p, a>> /\ a <= sent[p]
      BY <2>1 DEF Pushed, Item
    <3>2. a \in 1 .. sent[p]
      BY <3>1, Constants DEF QInv, TypeOK
    <3>3. PICK j \in Nat : In(j) /\ ItemAt(j) = item
      BY <3>1, <3>2 DEF ItemsInv, SentAreIn
    <3>4. ~ Out(j)
      <4> SUFFICES ASSUME Out(j) PROVE FALSE
        OBVIOUS
      <4>1. PICK c \in Consumers : \E i \in 1 .. Len(got[c]) : got[c][i] = item
        BY <3>3 DEF ItemsInv, OutAreGot
      <4>2. \E i \in DOMAIN got[c] : got[c][i] = item
        BY <4>1 DEF QInv, TypeOK
      <4> QED BY <2>1, <4>2 DEF Popped
    <3>5. PICK i \in Index : i = SlotAt(j)
      BY WordFacts
    <3>6. Uses(i) = Filled(j)
      <4>1. Uses(i) \in Nat /\ Filled(j) \in Nat
        BY TurnFacts, CountFacts
      <4> QED BY <3>3, <3>4, <3>5, <4>1 DEF In, Out
    <3>7. Value(i) = ValueLoc(i)
      <4>1. i % Cap = i
        BY Constants, SmallRemainder DEF Index
      <4> QED BY <4>1 DEF Value, ValueLoc
    <3>8. Newest(memory, Value(i)) = item
      BY <3>3, <3>5, <3>6, <3>7 DEF Newest, ItemAt, Uses
    <3> QED BY <3>8
  <2>2. \A c, d \in Consumers : \A i \in DOMAIN got[c], j \in DOMAIN got[d] :
          got[c][i] = got[d][j] => c = d /\ i = j
    <3>1. \A c \in Consumers : DOMAIN got[c] = 1 .. Len(got[c])
      BY DEF QInv, TypeOK
    <3> QED BY <3>1 DEF ItemsInv, GotOnce
  <2> QED BY <2>1, <2>2 DEF Conserved
<1> QED BY <1>1, ItemsAreKept, PTL
=============================================================================
