--------------------------- MODULE SeqLockProofs ---------------------------
(***************************************************************************)
(* No snapshot the seqlock accepts is torn, for every number of readers,   *)
(* words and stores, under the memory model of ViewMemory.                 *)
(*                                                                         *)
(* The argument follows the two fences.  Whoever has seen the counter even *)
(* at 2k has seen store k in every word (the release store of EndStore);   *)
(* whoever has read a word of store k has seen, after an acquire fence,    *)
(* the counter at 2k - 1 at least (the release fence of BeginStore).  So a *)
(* copy that begins under 2k holds nothing older than store k, and one     *)
(* that also ends under 2k holds nothing newer.                            *)
(***************************************************************************)
EXTENDS SeqLock, TLAPS

View == [Location -> Nat]

TypeOK ==
  /\ memory \in [Location -> Seq([val : Nat, view : View])]
  /\ view \in [Thread -> View]
  /\ pc \in [Thread -> {"idle", "write", "copy"}]
  /\ released \in View
  /\ carried \in [Readers -> View]
  /\ s0 \in [Readers -> Nat]
  /\ local \in [Readers -> [Words -> Nat \cup {None}]]
  /\ out \in [Readers -> [counter : Nat, value : [Words -> Nat]]]

\* The n-th write of the counter left n - 1 in it, that of a word store n - 1.
Numbered ==
  \A l \in Location :
    /\ Len(memory[l]) >= 1
    /\ \A n \in 1 .. Len(memory[l]) : memory[l][n].val = n - 1

\* The counter is odd while the writer is in a store, and a word is one write
\* behind or up with it then, up with it always otherwise.
InStep ==
  LET n == Len(memory[Counter])
  IN  \/ /\ n % 2 = 1 /\ pc[Writer] = "idle"
         /\ \A w \in Words : 2 * Len(memory[w]) = n + 1
      \/ /\ n % 2 = 0 /\ pc[Writer] = "write"
         /\ \A w \in Words : 2 * Len(memory[w]) \in {n, n + 2}

\* The writer sees its own writes, and has fenced the odd counter it stores
\* words under.
WriterSees ==
  /\ \A l \in Location : view[Writer][l] >= Len(memory[l])
  /\ pc[Writer] = "write" => released[Counter] >= Len(memory[Counter])

\* What a write of the counter and what a write of a word carry.
CounterCarries ==
  \A n \in 1 .. Len(memory[Counter]) :
    /\ memory[Counter][n].view[Counter] >= n
    /\ n % 2 = 1 => \A w \in Words : 2 * memory[Counter][n].view[w] >= n + 1

WordsCarry ==
  \A w \in Words : \A n \in 1 .. Len(memory[w]) :
    memory[w][n].view[Counter] >= 2 * (n - 1)

\* What a reader in the middle of a copy has seen and has copied.
ReaderSees ==
  \A r \in Readers :
    /\ view[r][Counter] >= out[r].counter + 1
    /\ pc[r] = "copy" =>
         /\ s0[r] % 2 = 0 /\ s0[r] >= out[r].counter
         /\ view[r][Counter] >= s0[r] + 1
         /\ \A w \in Words :
              /\ 2 * view[r][w] >= s0[r] + 2
              /\ local[r][w] # None =>
                   /\ 2 * local[r][w] >= s0[r]
                   /\ carried[r][Counter] >= 2 * local[r][w]

IInv ==
  /\ TypeOK /\ Numbered /\ InStep /\ WriterSees
  /\ CounterCarries /\ WordsCarry /\ ReaderSees /\ NotTorn

-----------------------------------------------------------------------------
\* The operators of ViewMemory return views, no older than those they are given.
LEMMA JoinFacts ==
  ASSUME NEW v \in View, NEW u \in View
  PROVE  /\ Join(v, u) \in View
         /\ \A l \in Location : Join(v, u)[l] >= v[l] /\ Join(v, u)[l] >= u[l]
  BY DEF View, Join, Later

\* What a view has seen after one more write.
LEMMA SeenFacts ==
  ASSUME NEW v \in View, NEW l \in Location, NEW n \in Nat
  PROVE  /\ Seen(v, l, n) \in View
         /\ \A m \in Location : Seen(v, l, n)[m] >= v[m]
         /\ Seen(v, l, n)[l] >= n
  BY DEF View, Seen, Later

\* The view that has seen nothing but the first writes.
LEMMA BottomFacts ==
  /\ Bottom(Location) \in View
  /\ \A l \in Location : Bottom(Location)[l] = 1
  BY DEF View, Bottom

\* A write adds itself to its location, carrying its own number, and the writer
\* has seen it; nothing else moves.
LEMMA WriteFacts ==
  ASSUME TypeOK, NEW l \in Location, NEW v \in Nat, NEW carries \in View,
         Write(l, v, carries)
  PROVE  /\ memory' \in [Location -> Seq([val : Nat, view : View])]
         /\ view' \in [Thread -> View]
         /\ \A m \in Location :
              Len(memory'[m]) = IF m = l THEN Len(memory[m]) + 1 ELSE Len(memory[m])
         /\ \A m \in Location : \A n \in 1 .. Len(memory[m]) :
              memory'[m][n] = memory[m][n]
         /\ LET n == Len(memory[l]) + 1
            IN  /\ memory'[l][n].val = v
                /\ memory'[l][n].view[l] >= n
                /\ \A m \in Location : memory'[l][n].view[m] >= carries[m]
                /\ view'[Writer][l] >= n
         /\ \A m \in Location : view'[Writer][m] >= view[Writer][m]
         /\ \A r \in Readers : view'[r] = view[r]
  <1> DEFINE n == Len(memory[l]) + 1
             rec == [val |-> v, view |-> Seen(carries, l, n)]
  <1>1. /\ memory[l] \in Seq([val : Nat, view : View])
        /\ n \in Nat
        /\ view[Writer] \in View
    <2>1. memory[l] \in Seq([val : Nat, view : View]) /\ view[Writer] \in View
      BY DEF TypeOK, Thread
    <2>2. \A T : \A s \in Seq(T) : Len(s) \in Nat
      OBVIOUS
    <2> QED
      BY <2>1, <2>2
  <1>2. /\ Seen(carries, l, n) \in View
        /\ \A m \in Location : Seen(carries, l, n)[m] >= carries[m]
        /\ Seen(carries, l, n)[l] >= n
    BY <1>1, SeenFacts
  <1>3. /\ Seen(view[Writer], l, n) \in View
        /\ \A m \in Location : Seen(view[Writer], l, n)[m] >= view[Writer][m]
        /\ Seen(view[Writer], l, n)[l] >= n
    BY <1>1, SeenFacts
  <1>4. rec \in [val : Nat, view : View]
    BY <1>2
  <1>5. /\ memory' = [memory EXCEPT ![l] = Append(memory[l], rec)]
        /\ view' = [view EXCEPT ![Writer] = Seen(view[Writer], l, n)]
    BY DEF Write
  <1>6. /\ Append(memory[l], rec) \in Seq([val : Nat, view : View])
        /\ Len(Append(memory[l], rec)) = n
        /\ \A i \in 1 .. Len(memory[l]) : Append(memory[l], rec)[i] = memory[l][i]
        /\ Append(memory[l], rec)[n] = rec
    BY <1>1, <1>4
  <1>7. /\ view' \in [Thread -> View]
        /\ view'[Writer] = Seen(view[Writer], l, n)
        /\ \A r \in Readers : view'[r] = view[r]
    BY <1>3, <1>5, SeqLockAssumption DEF TypeOK, Thread
  <1>8. /\ memory' \in [Location -> Seq([val : Nat, view : View])]
        /\ memory'[l] = Append(memory[l], rec)
        /\ \A m \in Location : m # l => memory'[m] = memory[m]
    BY <1>5, <1>6 DEF TypeOK
  <1>9. /\ rec.val = v
        /\ rec.view = Seen(carries, l, n)
    OBVIOUS
  <1> HIDE DEF rec
  <1>10. \A m \in Location :
          Len(memory'[m]) = IF m = l THEN Len(memory[m]) + 1 ELSE Len(memory[m])
    BY <1>6, <1>8
  <1>11. \A m \in Location : \A i \in 1 .. Len(memory[m]) :
           memory'[m][i] = memory[m][i]
    BY <1>6, <1>8
  <1> QED
    BY <1>2, <1>3, <1>6, <1>7, <1>8, <1>9, <1>10, <1>11

\* The sequence and the words are locations, and the sequence is no word.
LEMMA Locations ==
  /\ Counter \in Location /\ Counter \notin Words
  /\ Words \subseteq Location
  /\ \A l \in Location : l # Counter => l \in Words
  /\ Writer \in Thread /\ Readers \subseteq Thread
  /\ \A r \in Readers : r # Writer
  BY SeqLockAssumption DEF Counter, Location, Words, Thread

\* The half of a number and of the next, and which of them is odd.
LEMMA Parity ==
  ASSUME NEW n \in Nat
  PROVE  /\ n \div 2 \in Nat /\ n % 2 \in {0, 1}
         /\ n = 2 * (n \div 2) + (n % 2)
         /\ n % 2 = 0 => (n + 1) % 2 = 1 /\ (n + 1) \div 2 = n \div 2
         /\ n % 2 = 1 => (n + 1) % 2 = 0 /\ (n + 1) \div 2 = n \div 2 + 1
  OBVIOUS

\* The number of writes to a location says what is newest in it.
LEMMA NewestFacts ==
  ASSUME TypeOK, Numbered
  PROVE  /\ \A l \in Location : /\ Len(memory[l]) \in Nat /\ Len(memory[l]) >= 1
                                /\ Newest(memory, l) = Len(memory[l]) - 1
         /\ Stores = Len(memory[Counter]) \div 2
  <1>1. \A T : \A s \in Seq(T) : Len(s) \in Nat
    OBVIOUS
  <1>2. \A l \in Location : /\ Len(memory[l]) \in Nat /\ Len(memory[l]) >= 1
                            /\ Newest(memory, l) = Len(memory[l]) - 1
    BY <1>1 DEF TypeOK, Numbered, Newest
  <1>3. Newest(memory, Counter) + 1 = Len(memory[Counter])
    BY <1>2, Locations
  <1> QED
    BY <1>2, <1>3 DEF Stores

\* What is at a place of a location is a write.
LEMMA RecordOfWrite ==
  ASSUME NEW mem \in [Location -> Seq([val : Nat, view : View])],
         NEW l \in Location, NEW n \in 1 .. Len(mem[l])
  PROVE  /\ mem[l][n].val \in Nat /\ mem[l][n].view \in View
         /\ \A m \in Location : mem[l][n].view[m] \in Nat
  <1>1. mem[l] \in Seq([val : Nat, view : View])
    OBVIOUS
  <1>2. \A T : \A s \in Seq(T) : \A i \in 1 .. Len(s) : s[i] \in T
    OBVIOUS
  <1>3. mem[l][n] \in [val : Nat, view : View]
    BY <1>1, <1>2
  <1> QED
    BY <1>3 DEF View

\* What a step of the writer leaves alone in the readers.
LEMMA ReadersUntouched ==
  ASSUME IInv, UNCHANGED reader_vars,
         \A r \in Readers : view'[r] = view[r] /\ pc'[r] = pc[r]
  PROVE  ReaderSees' /\ NotTorn'
  BY DEF IInv, ReaderSees, NotTorn, reader_vars

-----------------------------------------------------------------------------
\* The store of the odd sequence keeps the invariant.
LEMMA BeginStoreStep == IInv /\ BeginStore => IInv'
  <1> SUFFICES ASSUME IInv, BeginStore PROVE IInv'
    OBVIOUS
  <1> USE Locations
  <1> DEFINE K == Len(memory[Counter])
  <1>1. /\ K \in Nat /\ K >= 1
        /\ Newest(memory, Counter) + 1 = K
        /\ \A l \in Location : Len(memory[l]) \in Nat /\ Len(memory[l]) >= 1
        /\ K % 2 = 1
        /\ \A w \in Words : 2 * Len(memory[w]) = K + 1
    <2>1. /\ \A l \in Location : Len(memory[l]) \in Nat /\ Len(memory[l]) >= 1
          /\ Newest(memory, Counter) = K - 1
      BY NewestFacts DEF IInv
    <2>2. pc[Writer] = "idle"
      BY DEF BeginStore
    <2>3. K % 2 = 1 /\ \A w \in Words : 2 * Len(memory[w]) = K + 1
      BY <2>2 DEF IInv, InStep
    <2>4. Newest(memory, Counter) + 1 = K
      BY <2>1
    <2> QED
      BY <2>1, <2>3, <2>4
  <1>2. TypeOK /\ released \in View /\ Write(Counter, K, released)
    BY <1>1 DEF IInv, TypeOK, BeginStore
  <1>3. /\ memory' \in [Location -> Seq([val : Nat, view : View])]
        /\ view' \in [Thread -> View]
        /\ \A m \in Location : Len(memory'[m])
             = IF m = Counter THEN Len(memory[m]) + 1 ELSE Len(memory[m])
        /\ \A m \in Location : \A n \in 1 .. Len(memory[m]) :
             memory'[m][n] = memory[m][n]
        /\ memory'[Counter][K + 1].val = K
        /\ memory'[Counter][K + 1].view[Counter] >= K + 1
        /\ view'[Writer][Counter] >= K + 1
        /\ \A m \in Location : view'[Writer][m] >= view[Writer][m]
        /\ \A r \in Readers : view'[r] = view[r]
    BY <1>1, <1>2, WriteFacts
  <1> HIDE DEF K
  <1>4. Len(memory'[Counter]) = K + 1 /\ \A w \in Words : Len(memory'[w]) = Len(memory[w])
    BY <1>3 DEF K
  <1>5. /\ pc' \in [Thread -> {"idle", "write", "copy"}]
        /\ pc'[Writer] = "write" /\ \A r \in Readers : pc'[r] = pc[r]
        /\ released' = view'[Writer]
        /\ UNCHANGED reader_vars
    BY DEF IInv, TypeOK, BeginStore, GoTo, ReleaseFence
  <1>6. TypeOK'
    BY <1>3, <1>5 DEF IInv, TypeOK, reader_vars
  <1>7. Numbered'
    <2> SUFFICES ASSUME NEW l \in Location
                 PROVE  /\ Len(memory'[l]) >= 1
                        /\ \A n \in 1 .. Len(memory'[l]) : memory'[l][n].val = n - 1
      BY DEF Numbered
    <2>1. \A n \in 1 .. Len(memory[l]) : memory'[l][n].val = n - 1
      BY <1>3, ZenonT(30) DEF IInv, Numbered
    <2> QED
      BY <1>1, <1>3, <1>4, <2>1 DEF K, Location
  <1>8. InStep'
    <2>1. (K + 1) % 2 = 0
      BY <1>1
    <2> QED
      BY <1>1, <1>4, <1>5, <2>1 DEF InStep
  <1>9. WriterSees'
    <2>1. \A l \in Location : view'[Writer][l] >= Len(memory'[l])
      <3> TAKE l \in Location
      <3>1. view[Writer][l] \in Nat /\ view'[Writer][l] \in Nat
        BY <1>6 DEF IInv, TypeOK, View
      <3>2. view[Writer][l] >= Len(memory[l])
        BY DEF IInv, WriterSees
      <3>3. CASE l = Counter
        BY <1>3, <1>4, <3>3
      <3>4. CASE l # Counter
        BY <1>1, <1>3, <1>4, <3>1, <3>2, <3>4, SMTT(30)
      <3> QED
        BY <3>3, <3>4
    <2> QED
      BY <1>5, <2>1 DEF WriterSees
  <1>10. CounterCarries'
    <2>1. \A n \in 1 .. K : memory'[Counter][n] = memory[Counter][n]
      BY <1>3 DEF K
    <2>2. (K + 1) % 2 = 0
      BY <1>1
    <2>3. \A n \in 1 .. K + 1 : n \in 1 .. K \/ n = K + 1
      BY <1>1
    <2> SUFFICES ASSUME NEW n \in 1 .. K + 1
                 PROVE  /\ memory'[Counter][n].view[Counter] >= n
                        /\ n % 2 = 1 => \A w \in Words :
                             2 * memory'[Counter][n].view[w] >= n + 1
      BY <1>4 DEF CounterCarries
    <2>4. CASE n \in 1 .. K
      BY <2>1, <2>4 DEF IInv, CounterCarries, K
    <2>5. CASE n = K + 1
      BY <1>3, <2>2, <2>5
    <2> QED
      BY <2>3, <2>4, <2>5
  <1>11. WordsCarry'
    BY <1>3, <1>4, SMTT(30) DEF IInv, WordsCarry
  <1>12. ReaderSees' /\ NotTorn'
    BY <1>3, <1>5, ReadersUntouched
  <1> QED
    BY <1>6, <1>7, <1>8, <1>9, <1>10, <1>11, <1>12 DEF IInv

\* The store of a word keeps it.
LEMMA WriteWordStep ==
  ASSUME NEW w \in Words PROVE IInv /\ WriteWord(w) => IInv'
  <1> SUFFICES ASSUME IInv, WriteWord(w) PROVE IInv'
    OBVIOUS
  <1> USE Locations
  <1> DEFINE K == Len(memory[Counter])
             L == Len(memory[w])
  <1>1. /\ \A l \in Location : Len(memory[l]) \in Nat /\ Len(memory[l]) >= 1
        /\ K \in Nat /\ L \in Nat /\ K >= 1 /\ L >= 1
        /\ Newest(memory, w) = L - 1
        /\ Stores = K \div 2
    BY NewestFacts DEF IInv
  <1>2. K % 2 = 0 /\ \A m \in Words : 2 * Len(memory[m]) \in {K, K + 2}
    BY DEF IInv, InStep, WriteWord
  <1>3. K = 2 * Stores /\ Stores \in Nat
    <2> HIDE DEF K
    <2>1. K = 2 * (K \div 2) + (K % 2) /\ K \div 2 \in Nat
      BY <1>1, Parity
    <2> QED
      BY <1>1, <1>2, <2>1
  <1>4. 2 * L = K /\ L = Stores
    <2>1. Newest(memory, w) # Stores /\ Newest(memory, w) = L - 1
      BY <1>1 DEF WriteWord
    <2>2. 2 * L \in {K, K + 2} /\ L \in Nat
      BY <1>1, <1>2
    <2> HIDE DEF K, L
    <2> QED
      BY <1>3, <2>1, <2>2
  <1>5. TypeOK /\ released \in View /\ Write(w, L, released)
    BY <1>4 DEF IInv, TypeOK, WriteWord
  <1>6. /\ memory' \in [Location -> Seq([val : Nat, view : View])]
        /\ view' \in [Thread -> View]
        /\ \A m \in Location : Len(memory'[m])
             = IF m = w THEN Len(memory[m]) + 1 ELSE Len(memory[m])
        /\ \A m \in Location : \A n \in 1 .. Len(memory[m]) :
             memory'[m][n] = memory[m][n]
        /\ memory'[w][L + 1].val = L
        /\ \A m \in Location : memory'[w][L + 1].view[m] >= released[m]
        /\ view'[Writer][w] >= L + 1
        /\ \A m \in Location : view'[Writer][m] >= view[Writer][m]
        /\ \A r \in Readers : view'[r] = view[r]
    BY <1>1, <1>5, WriteFacts
  <1> HIDE DEF K, L
  <1>7. /\ Len(memory'[w]) = L + 1
        /\ \A m \in Location : m # w => Len(memory'[m]) = Len(memory[m])
        /\ Len(memory'[Counter]) = K
    BY <1>6 DEF K, L
  <1>8. /\ pc' = pc /\ pc[Writer] = "write" /\ released' = released
        /\ UNCHANGED reader_vars
    BY DEF WriteWord
  <1>9. TypeOK'
    BY <1>6, <1>8 DEF IInv, TypeOK, reader_vars
  <1>10. Numbered'
    <2> SUFFICES ASSUME NEW l \in Location
                 PROVE  /\ Len(memory'[l]) >= 1
                        /\ \A n \in 1 .. Len(memory'[l]) : memory'[l][n].val = n - 1
      BY DEF Numbered
    <2>1. \A n \in 1 .. Len(memory[l]) : memory'[l][n].val = n - 1
      BY <1>6, ZenonT(30) DEF IInv, Numbered
    <2> QED
      <3>1. CASE l = w
        <4>1. Len(memory'[w]) = L + 1 /\ L \in Nat /\ memory'[w][L + 1].val = L
          BY <1>1, <1>6, <1>7
        <4>2. \A n \in 1 .. L : memory'[w][n].val = n - 1
          BY <2>1, <3>1 DEF L
        <4>3. \A n \in 1 .. L + 1 : n \in 1 .. L \/ n = L + 1
          BY <4>1
        <4> QED
          BY <3>1, <4>1, <4>2, <4>3
      <3>2. CASE l # w
        BY <1>1, <1>6, <1>7, <2>1, <3>2
      <3> QED
        BY <3>1, <3>2
  <1>11. InStep'
    <2>1. \A m \in Words : 2 * Len(memory'[m]) \in {K, K + 2}
      <3> TAKE m \in Words
      <3>1. CASE m = w
        BY <1>1, <1>4, <1>7, <3>1, SMTT(30)
      <3>2. CASE m # w
        BY <1>2, <1>7, <3>2
      <3> QED
        BY <3>1, <3>2
    <2> QED
      BY <1>2, <1>7, <1>8, <2>1 DEF InStep
  <1>12. WriterSees'
    <2>1. \A l \in Location : view'[Writer][l] >= Len(memory'[l])
      <3> TAKE l \in Location
      <3>1. view[Writer][l] \in Nat /\ view'[Writer][l] \in Nat
        BY <1>9 DEF IInv, TypeOK, View
      <3>2. view[Writer][l] >= Len(memory[l])
        BY DEF IInv, WriterSees
      <3>3. CASE l = w
        BY <1>6, <1>7, <3>3
      <3>4. CASE l # w
        BY <1>1, <1>6, <1>7, <3>1, <3>2, <3>4, SMTT(30)
      <3> QED
        BY <3>3, <3>4
    <2>2. released[Counter] >= K
      BY <1>8 DEF IInv, WriterSees, K
    <2> QED
      BY <1>7, <1>8, <2>1, <2>2 DEF WriterSees
  <1>13. CounterCarries'
    BY <1>6, <1>7, SMTT(30) DEF IInv, CounterCarries, K
  <1>14. WordsCarry'
    <2> SUFFICES ASSUME NEW m \in Words, NEW n \in 1 .. Len(memory'[m])
                 PROVE  memory'[m][n].view[Counter] >= 2 * (n - 1)
      BY DEF WordsCarry
    <2>1. CASE n \in 1 .. Len(memory[m])
      BY <1>6, <2>1 DEF IInv, WordsCarry
    <2>2. CASE n \notin 1 .. Len(memory[m])
      <3>1. m = w /\ n = L + 1
        BY <1>1, <1>7, <2>2 DEF L
      <3>2. memory'[w][L + 1].view[Counter] \in Nat
        <4>1. L + 1 \in 1 .. Len(memory'[w])
          BY <1>1, <1>7
        <4> QED
          BY <1>6, <4>1, RecordOfWrite
      <3>3. released[Counter] \in Nat /\ released[Counter] >= K
        BY <1>8 DEF IInv, TypeOK, View, WriterSees, K
      <3> QED
        BY <1>1, <1>4, <1>6, <3>1, <3>2, <3>3, SMTT(30)
    <2> QED
      BY <2>1, <2>2
  <1>15. ReaderSees' /\ NotTorn'
    BY <1>6, <1>8, ReadersUntouched
  <1> QED
    BY <1>9, <1>10, <1>11, <1>12, <1>13, <1>14, <1>15 DEF IInv

\* The release store of the even sequence keeps it.
LEMMA EndStoreStep == IInv /\ EndStore => IInv'
  <1> SUFFICES ASSUME IInv, EndStore PROVE IInv'
    OBVIOUS
  <1> USE Locations
  <1> DEFINE K == Len(memory[Counter])
  <1>1. /\ \A l \in Location : /\ Len(memory[l]) \in Nat /\ Len(memory[l]) >= 1
                               /\ Newest(memory, l) = Len(memory[l]) - 1
        /\ K \in Nat /\ K >= 1
        /\ Stores = K \div 2
        /\ Newest(memory, Counter) + 1 = K
    BY NewestFacts DEF IInv
  <1>2. K % 2 = 0
    BY DEF IInv, InStep, EndStore
  <1>3. K = 2 * Stores /\ Stores \in Nat
    <2> HIDE DEF K
    <2>1. K = 2 * (K \div 2) + (K % 2) /\ K \div 2 \in Nat
      BY <1>1, Parity
    <2> QED
      BY <1>1, <1>2, <2>1
  <1>4. \A m \in Words : 2 * Len(memory[m]) = K + 2
    <2> TAKE m \in Words
    <2>1. Newest(memory, m) = Stores
      BY DEF EndStore
    <2>2. Len(memory[m]) \in Nat /\ Newest(memory, m) = Len(memory[m]) - 1
      BY <1>1
    <2> HIDE DEF K
    <2> QED
      BY <1>3, <2>1, <2>2
  <1>5. TypeOK /\ view[Writer] \in View /\ Write(Counter, K, view[Writer])
    BY <1>1 DEF IInv, TypeOK, EndStore
  <1>6. /\ memory' \in [Location -> Seq([val : Nat, view : View])]
        /\ view' \in [Thread -> View]
        /\ \A m \in Location : Len(memory'[m])
             = IF m = Counter THEN Len(memory[m]) + 1 ELSE Len(memory[m])
        /\ \A m \in Location : \A n \in 1 .. Len(memory[m]) :
             memory'[m][n] = memory[m][n]
        /\ memory'[Counter][K + 1].val = K
        /\ memory'[Counter][K + 1].view[Counter] >= K + 1
        /\ \A m \in Location : memory'[Counter][K + 1].view[m] >= view[Writer][m]
        /\ view'[Writer][Counter] >= K + 1
        /\ \A m \in Location : view'[Writer][m] >= view[Writer][m]
        /\ \A r \in Readers : view'[r] = view[r]
    BY <1>1, <1>5, WriteFacts
  <1> HIDE DEF K
  <1>7. Len(memory'[Counter]) = K + 1 /\ \A w \in Words : Len(memory'[w]) = Len(memory[w])
    BY <1>6 DEF K
  <1>8. /\ pc' \in [Thread -> {"idle", "write", "copy"}]
        /\ pc'[Writer] = "idle" /\ \A r \in Readers : pc'[r] = pc[r]
        /\ released' = released
        /\ UNCHANGED reader_vars
    BY DEF IInv, TypeOK, EndStore, GoTo
  <1>9. TypeOK'
    BY <1>6, <1>8 DEF IInv, TypeOK, reader_vars
  <1>10. Numbered'
    <2> SUFFICES ASSUME NEW l \in Location
                 PROVE  /\ Len(memory'[l]) >= 1
                        /\ \A n \in 1 .. Len(memory'[l]) : memory'[l][n].val = n - 1
      BY DEF Numbered
    <2>1. \A n \in 1 .. Len(memory[l]) : memory'[l][n].val = n - 1
      BY <1>6, ZenonT(30) DEF IInv, Numbered
    <2> QED
      BY <1>1, <1>6, <1>7, <2>1, SMTT(30) DEF K, Location
  <1>11. InStep'
    <2>1. (K + 1) % 2 = 1
      BY <1>1, <1>2
    <2> QED
      BY <1>1, <1>4, <1>7, <1>8, <2>1, SMTT(30) DEF InStep
  <1>12. WriterSees'
    <2>1. \A l \in Location : view'[Writer][l] >= Len(memory'[l])
      <3> TAKE l \in Location
      <3>1. view[Writer][l] \in Nat /\ view'[Writer][l] \in Nat
        BY <1>9 DEF IInv, TypeOK, View
      <3>2. view[Writer][l] >= Len(memory[l])
        BY DEF IInv, WriterSees
      <3>3. CASE l = Counter
        BY <1>6, <1>7, <3>3
      <3>4. CASE l # Counter
        BY <1>1, <1>6, <1>7, <3>1, <3>2, <3>4
      <3> QED
        BY <3>3, <3>4
    <2> QED
      BY <1>8, <2>1 DEF WriterSees
  <1>13. CounterCarries'
    <2>1. \A n \in 1 .. K : memory'[Counter][n] = memory[Counter][n]
      BY <1>6 DEF K
    <2>2. \A w \in Words : 2 * memory'[Counter][K + 1].view[w] >= K + 2
      <3> TAKE w \in Words
      <3>1. memory'[Counter][K + 1].view[w] \in Nat /\ view[Writer][w] \in Nat
        <4>1. K + 1 \in 1 .. Len(memory'[Counter])
          BY <1>1, <1>7
        <4>2. memory'[Counter][K + 1].view[w] \in Nat
          BY <1>6, <4>1, RecordOfWrite
        <4> QED
          BY <4>2 DEF IInv, TypeOK, View
      <3>2. view[Writer][w] >= Len(memory[w])
        BY DEF IInv, WriterSees
      <3>3. 2 * Len(memory[w]) = K + 2 /\ Len(memory[w]) \in Nat
        BY <1>1, <1>4
      <3>4. memory'[Counter][K + 1].view[w] >= view[Writer][w]
        BY <1>6
      <3> DEFINE x == memory'[Counter][K + 1].view[w]
                 y == view[Writer][w]
                 z == Len(memory[w])
      <3>5. K \in Nat /\ x \in Nat /\ y \in Nat /\ z \in Nat
        BY <1>1, <3>1, <3>3
      <3>6. y >= z /\ 2 * z = K + 2 /\ x >= y
        BY <3>2, <3>3, <3>4
      <3> HIDE DEF x, y, z
      <3>7. 2 * x >= K + 2
        BY <3>5, <3>6
      <3> QED
        BY <3>7 DEF x
    <2>3. \A n \in 1 .. K + 1 : n \in 1 .. K \/ n = K + 1
      BY <1>1
    <2> SUFFICES ASSUME NEW n \in 1 .. K + 1
                 PROVE  /\ memory'[Counter][n].view[Counter] >= n
                        /\ n % 2 = 1 => \A w \in Words :
                             2 * memory'[Counter][n].view[w] >= n + 1
      BY <1>7 DEF CounterCarries
    <2>4. CASE n \in 1 .. K
      BY <2>1, <2>4 DEF IInv, CounterCarries, K
    <2>5. CASE n = K + 1
      BY <1>1, <1>6, <2>2, <2>5
    <2> QED
      BY <2>3, <2>4, <2>5
  <1>14. WordsCarry'
    BY <1>6, <1>7, SMTT(30) DEF IInv, WordsCarry
  <1>15. ReaderSees' /\ NotTorn'
    BY <1>6, <1>8, ReadersUntouched
  <1> QED
    BY <1>9, <1>10, <1>11, <1>12, <1>13, <1>14, <1>15 DEF IInv

-----------------------------------------------------------------------------
\* What a step of a reader leaves alone in the writer and in the memory.
LEMMA WriterUntouched ==
  ASSUME IInv, UNCHANGED <<memory, released>>,
         view'[Writer] = view[Writer], pc'[Writer] = pc[Writer]
  PROVE  Numbered' /\ InStep' /\ WriterSees' /\ CounterCarries' /\ WordsCarry'
  BY DEF IInv, Numbered, InStep, WriterSees, CounterCarries, WordsCarry

\* The acquire load of the sequence keeps it, whichever write it reads.
LEMMA BeginLoadStep ==
  ASSUME NEW r \in Readers, NEW n \in DOMAIN memory[Counter]
  PROVE  IInv /\ BeginLoad(r, n) => IInv'
  <1> SUFFICES ASSUME IInv, BeginLoad(r, n) PROVE IInv'
    OBVIOUS
  <1> USE Locations
  <1> DEFINE m == memory[Counter][n]
             saw == Join(view[r], m.view)
  <1>1. /\ n \in 1 .. Len(memory[Counter])
        /\ memory \in [Location -> Seq([val : Nat, view : View])]
        /\ n \in Nat /\ n >= view[r][Counter]
    <2>1. memory \in [Location -> Seq([val : Nat, view : View])]
      BY DEF IInv, TypeOK
    <2>2. memory[Counter] \in Seq([val : Nat, view : View])
      BY <2>1
    <2>3. DOMAIN memory[Counter] = 1 .. Len(memory[Counter])
      BY <2>2
    <2>4. n \in view[r][Counter] .. Len(memory[Counter])
      BY DEF BeginLoad, Visible
    <2>5. Len(memory[Counter]) \in Nat /\ view[r][Counter] \in Nat
      BY NewestFacts DEF IInv, TypeOK, View
    <2>6. n \in Nat /\ n >= view[r][Counter]
      BY <2>4, <2>5
    <2> QED
      BY <2>1, <2>3, <2>6
  <1>2. m.val \in Nat /\ m.view \in View /\ m.val = n - 1
    BY <1>1, RecordOfWrite DEF IInv, Numbered
  <1>3. m.view[Counter] >= n
        /\ (n % 2 = 1 => \A w \in Words : 2 * m.view[w] >= n + 1)
    BY <1>1 DEF IInv, CounterCarries
  <1>4. view[r] \in View
    BY DEF IInv, TypeOK
  <1>5. /\ saw \in View
        /\ \A l \in Location : saw[l] >= view[r][l] /\ saw[l] >= m.view[l]
    BY <1>2, <1>4, JoinFacts
  <1>6. view' = [view EXCEPT ![r] = saw] /\ pc[r] = "idle"
        /\ UNCHANGED <<memory, released, out>>
    BY DEF BeginLoad
  <1> HIDE DEF m, saw
  <1>7. /\ view' \in [Thread -> View] /\ view'[r] = saw
        /\ \A t \in Thread : t # r => view'[t] = view[t]
    BY <1>5, <1>6 DEF IInv, TypeOK
  <1>8. /\ \A l \in Location : /\ saw[l] \in Nat /\ view[r][l] \in Nat
                               /\ m.view[l] \in Nat
        /\ out[r].counter \in Nat
    BY <1>2, <1>4, <1>5 DEF IInv, TypeOK, View
  <1>9. view[r][Counter] >= out[r].counter + 1
    BY DEF IInv, ReaderSees
  <1>10. CASE m.val % 2 = 1
    <2>1. UNCHANGED <<pc, s0, local, carried>>
      BY <1>10 DEF BeginLoad, m
    <2>2. TypeOK'
      BY <1>6, <1>7, <2>1 DEF IInv, TypeOK
    <2>3. Numbered' /\ InStep' /\ WriterSees' /\ CounterCarries' /\ WordsCarry'
      BY <1>6, <1>7, <2>1, WriterUntouched
    <2>4. view'[r][Counter] >= out'[r].counter + 1
      BY <1>5, <1>6, <1>7, <1>8, <1>9
    <2>5. ReaderSees'
      BY <1>6, <1>7, <2>1, <2>4 DEF IInv, ReaderSees
    <2>6. NotTorn'
      BY <1>6 DEF IInv, NotTorn
    <2> QED
      BY <2>2, <2>3, <2>5, <2>6 DEF IInv
  <1>11. CASE m.val % 2 # 1
    <2>1. /\ GoTo(r, "copy")
          /\ s0' = [s0 EXCEPT ![r] = m.val]
          /\ local' = [local EXCEPT ![r] = Nothing]
          /\ carried' = [carried EXCEPT ![r] = Bottom(Location)]
      BY <1>11 DEF BeginLoad, m
    <2>2. /\ pc' \in [Thread -> {"idle", "write", "copy"}]
          /\ \A t \in Thread : t # r => pc'[t] = pc[t]
      BY <2>1 DEF GoTo, IInv, TypeOK
    <2>3. Nothing \in [Words -> Nat \cup {None}] /\ \A w \in Words : Nothing[w] = None
      BY DEF Nothing
    <2>4. /\ s0' \in [Readers -> Nat] /\ s0'[r] = n - 1
          /\ \A q \in Readers : q # r => s0'[q] = s0[q]
      BY <1>2, <2>1 DEF IInv, TypeOK
    <2>5. /\ local' \in [Readers -> [Words -> Nat \cup {None}]]
          /\ \A w \in Words : local'[r][w] = None
          /\ \A q \in Readers : q # r => local'[q] = local[q]
      BY <2>1, <2>3 DEF IInv, TypeOK
    <2>6. /\ carried' \in [Readers -> View]
          /\ \A q \in Readers : q # r => carried'[q] = carried[q]
      BY <2>1, BottomFacts DEF IInv, TypeOK
    <2>7. TypeOK'
      BY <1>6, <1>7, <2>2, <2>4, <2>5, <2>6 DEF IInv, TypeOK
    <2>8. Numbered' /\ InStep' /\ WriterSees' /\ CounterCarries' /\ WordsCarry'
      BY <1>6, <1>7, <2>2, WriterUntouched
    <2>9. n % 2 = 1 /\ (n - 1) % 2 = 0
      <3>1. n - 1 \in Nat /\ (n - 1) + 1 = n
        BY <1>1, <1>2
      <3>2. (n - 1) % 2 = 0
        BY <1>2, <1>11, <3>1, Parity
      <3> QED
        BY <3>1, <3>2, Parity
    <2>10. /\ view'[r][Counter] >= out'[r].counter + 1
           /\ s0'[r] % 2 = 0 /\ s0'[r] >= out'[r].counter
           /\ view'[r][Counter] >= s0'[r] + 1
      <3>1. saw[Counter] >= n
        BY <1>1, <1>3, <1>5, <1>8
      <3>2. n - 1 >= out[r].counter
        BY <1>1, <1>8, <1>9
      <3>3. saw[Counter] \in Nat /\ view'[r] = saw /\ out' = out /\ s0'[r] = n - 1
        BY <1>6, <1>7, <1>8, <2>4
      <3> QED
        BY <1>1, <1>8, <2>9, <3>1, <3>2, <3>3
    <2>11. \A w \in Words : 2 * view'[r][w] >= s0'[r] + 2
      <3> TAKE w \in Words
      <3>1. 2 * m.view[w] >= n + 1
        BY <1>3, <2>9
      <3>2. saw[w] >= m.view[w] /\ saw[w] \in Nat /\ m.view[w] \in Nat /\ n \in Nat
        BY <1>1, <1>5, <1>8
      <3>3. 2 * saw[w] >= (n - 1) + 2
        BY <3>1, <3>2
      <3>4. view'[r][w] = saw[w] /\ s0'[r] = n - 1
        BY <1>7, <2>4
      <3> QED
        BY <3>3, <3>4
    <2>12. ReaderSees'
      <3> SUFFICES ASSUME NEW q \in Readers
                   PROVE  /\ view'[q][Counter] >= out'[q].counter + 1
                          /\ pc'[q] = "copy" =>
                               /\ s0'[q] % 2 = 0 /\ s0'[q] >= out'[q].counter
                               /\ view'[q][Counter] >= s0'[q] + 1
                               /\ \A w \in Words :
                                    /\ 2 * view'[q][w] >= s0'[q] + 2
                                    /\ local'[q][w] # None =>
                                         /\ 2 * local'[q][w] >= s0'[q]
                                         /\ carried'[q][Counter] >= 2 * local'[q][w]
        BY DEF ReaderSees
      <3>1. CASE q = r
        BY <2>5, <2>10, <2>11, <3>1
      <3>2. CASE q # r
        <4>1. /\ view'[q] = view[q] /\ pc'[q] = pc[q] /\ s0'[q] = s0[q]
              /\ local'[q] = local[q] /\ carried'[q] = carried[q] /\ out' = out
          BY <1>6, <1>7, <2>2, <2>4, <2>5, <2>6, <3>2
        <4> QED
          BY <4>1 DEF IInv, ReaderSees
      <3> QED
        BY <3>1, <3>2
    <2>13. NotTorn'
      BY <1>6 DEF IInv, NotTorn
    <2> QED
      BY <2>7, <2>8, <2>12, <2>13 DEF IInv
  <1> QED
    BY <1>10, <1>11

\* The copy of a word keeps it, however stale the word is.
LEMMA CopyWordStep ==
  ASSUME NEW r \in Readers, NEW w \in Words, NEW n \in DOMAIN memory[w]
  PROVE  IInv /\ CopyWord(r, w, n) => IInv'
  <1> SUFFICES ASSUME IInv, CopyWord(r, w, n) PROVE IInv'
    OBVIOUS
  <1> USE Locations
  <1> DEFINE m == memory[w][n]
             saw == Seen(view[r], w, n)
             has == Join(carried[r], m.view)
  <1>1. /\ n \in 1 .. Len(memory[w])
        /\ memory \in [Location -> Seq([val : Nat, view : View])]
        /\ n \in Nat /\ n >= view[r][w]
    <2>1. memory \in [Location -> Seq([val : Nat, view : View])]
      BY DEF IInv, TypeOK
    <2>2. memory[w] \in Seq([val : Nat, view : View])
      BY <2>1
    <2>3. DOMAIN memory[w] = 1 .. Len(memory[w])
      BY <2>2
    <2>4. n \in view[r][w] .. Len(memory[w])
      BY DEF CopyWord, Visible
    <2>5. Len(memory[w]) \in Nat /\ view[r][w] \in Nat
      BY NewestFacts DEF IInv, TypeOK, View
    <2>6. n \in Nat /\ n >= view[r][w]
      BY <2>4, <2>5
    <2> QED
      BY <2>1, <2>3, <2>6
  <1>2. m.val \in Nat /\ m.view \in View /\ m.val = n - 1
    BY <1>1, RecordOfWrite DEF IInv, Numbered
  <1>3. m.view[Counter] >= 2 * (n - 1)
    BY <1>1 DEF IInv, WordsCarry
  <1>4. view[r] \in View /\ carried[r] \in View
    BY DEF IInv, TypeOK
  <1>5. saw \in View /\ \A l \in Location : saw[l] >= view[r][l]
    BY <1>1, <1>4, SeenFacts
  <1>6. /\ has \in View
        /\ \A l \in Location : has[l] >= carried[r][l] /\ has[l] >= m.view[l]
    BY <1>2, <1>4, JoinFacts
  <1>7. /\ view' = [view EXCEPT ![r] = saw] /\ pc[r] = "copy"
        /\ local' = [local EXCEPT ![r][w] = m.val]
        /\ carried' = [carried EXCEPT ![r] = has]
        /\ UNCHANGED <<memory, pc, released, s0, out>>
    BY DEF CopyWord
  <1> HIDE DEF m, saw, has
  <1>8. /\ view' \in [Thread -> View] /\ view'[r] = saw
        /\ \A t \in Thread : t # r => view'[t] = view[t]
        /\ carried' \in [Readers -> View] /\ carried'[r] = has
        /\ \A q \in Readers : q # r => carried'[q] = carried[q]
    BY <1>5, <1>6, <1>7 DEF IInv, TypeOK
  <1>9. /\ local' \in [Readers -> [Words -> Nat \cup {None}]]
        /\ local'[r][w] = n - 1
        /\ \A x \in Words : x # w => local'[r][x] = local[r][x]
        /\ \A q \in Readers : q # r => local'[q] = local[q]
    BY <1>2, <1>7 DEF IInv, TypeOK
  <1>10. TypeOK'
    BY <1>7, <1>8, <1>9 DEF IInv, TypeOK
  <1>11. Numbered' /\ InStep' /\ WriterSees' /\ CounterCarries' /\ WordsCarry'
    BY <1>7, <1>8, WriterUntouched
  <1>12. /\ \A l \in Location : /\ saw[l] \in Nat /\ view[r][l] \in Nat
                                /\ has[l] \in Nat /\ carried[r][l] \in Nat
                                /\ m.view[l] \in Nat
         /\ out[r].counter \in Nat /\ s0[r] \in Nat
    BY <1>2, <1>4, <1>5, <1>6 DEF IInv, TypeOK, View
  <1>13. /\ view[r][Counter] >= out[r].counter + 1
         /\ s0[r] % 2 = 0 /\ s0[r] >= out[r].counter
         /\ view[r][Counter] >= s0[r] + 1
         /\ \A x \in Words : 2 * view[r][x] >= s0[r] + 2
         /\ \A x \in Words : local[r][x] # None =>
              /\ 2 * local[r][x] >= s0[r]
              /\ carried[r][Counter] >= 2 * local[r][x]
    BY <1>7 DEF IInv, ReaderSees
  <1>14. ReaderSees'
    <2>1. /\ saw[Counter] >= out[r].counter + 1
          /\ saw[Counter] >= s0[r] + 1
      BY <1>5, <1>12, <1>13
    <2>2. ASSUME NEW x \in Words PROVE 2 * saw[x] >= s0[r] + 2
      <3>1. 2 * view[r][x] >= s0[r] + 2 /\ saw[x] >= view[r][x]
        BY <1>5, <1>13
      <3> QED
        BY <1>12, <3>1
    <2>3. /\ 2 * local'[r][w] >= s0[r]
          /\ has[Counter] >= 2 * local'[r][w]
      <3>1. 2 * view[r][w] >= s0[r] + 2 /\ view[r][w] \in Nat
        BY <1>12, <1>13
      <3>2. has[Counter] >= m.view[Counter]
        BY <1>6
      <3> QED
        <4>1. n \in Nat /\ n >= view[r][w] /\ local'[r][w] = n - 1
          BY <1>1, <1>9
        <4>2. 2 * (n - 1) >= s0[r]
          BY <1>12, <3>1, <4>1
        <4>3. has[Counter] \in Nat /\ m.view[Counter] \in Nat
          BY <1>12
        <4> QED
          BY <1>3, <3>2, <4>1, <4>2, <4>3
    <2>4. ASSUME NEW x \in Words, local'[r][x] # None
          PROVE  /\ 2 * local'[r][x] >= s0[r]
                 /\ has[Counter] >= 2 * local'[r][x]
      <3>1. CASE x = w
        BY <2>3, <3>1
      <3>2. CASE x # w
        <4>1. local[r][x] # None /\ local'[r][x] = local[r][x]
          BY <1>9, <2>4, <3>2
        <4>2. local[r][x] \in Nat
          BY <4>1 DEF IInv, TypeOK
        <4>3. /\ 2 * local[r][x] >= s0[r]
              /\ carried[r][Counter] >= 2 * local[r][x]
          BY <1>13, <4>1
        <4>4. has[Counter] >= carried[r][Counter]
          BY <1>6
        <4> QED
          BY <1>12, <4>1, <4>2, <4>3, <4>4
      <3> QED
        BY <3>1, <3>2
    <2> SUFFICES ASSUME NEW q \in Readers
                 PROVE  /\ view'[q][Counter] >= out'[q].counter + 1
                        /\ pc'[q] = "copy" =>
                             /\ s0'[q] % 2 = 0 /\ s0'[q] >= out'[q].counter
                             /\ view'[q][Counter] >= s0'[q] + 1
                             /\ \A x \in Words :
                                  /\ 2 * view'[q][x] >= s0'[q] + 2
                                  /\ local'[q][x] # None =>
                                       /\ 2 * local'[q][x] >= s0'[q]
                                       /\ carried'[q][Counter] >= 2 * local'[q][x]
      BY DEF ReaderSees
    <2>5. CASE q = r
      BY <1>7, <1>8, <1>13, <2>1, <2>2, <2>4, <2>5
    <2>6. CASE q # r
      <3>1. /\ view'[q] = view[q] /\ pc'[q] = pc[q] /\ s0'[q] = s0[q]
            /\ local'[q] = local[q] /\ carried'[q] = carried[q] /\ out' = out
        BY <1>7, <1>8, <1>9, <2>6
      <3> QED
        BY <3>1 DEF IInv, ReaderSees
    <2> QED
      BY <2>5, <2>6
  <1>15. NotTorn'
    BY <1>7 DEF IInv, NotTorn
  <1> QED
    BY <1>10, <1>11, <1>14, <1>15 DEF IInv

\* The second load finds a counter no older than any word of the copy asks for:
\* finding the first one again leaves the copy no choice.
LEMMA EndLoadStep ==
  ASSUME NEW r \in Readers, NEW n \in DOMAIN memory[Counter]
  PROVE  IInv /\ EndLoad(r, n) => IInv' /\ out'[r].counter >= out[r].counter
  <1> SUFFICES ASSUME IInv, EndLoad(r, n)
               PROVE  IInv' /\ out'[r].counter >= out[r].counter
    OBVIOUS
  <1> USE Locations
  <1> DEFINE seen == Join(view[r], carried[r])
             saw == Seen(seen, Counter, n)
             taken == [counter |-> s0[r], value |-> local[r]]
  <1>1. view[r] \in View /\ carried[r] \in View
    BY DEF IInv, TypeOK
  <1>2. /\ seen \in View
        /\ \A l \in Location : seen[l] >= view[r][l] /\ seen[l] >= carried[r][l]
    BY <1>1, JoinFacts
  <1>3. n \in 1 .. Len(memory[Counter]) /\ n \in Nat /\ n >= seen[Counter]
    <2>1. memory[Counter] \in Seq([val : Nat, view : View])
      BY DEF IInv, TypeOK
    <2>2. DOMAIN memory[Counter] = 1 .. Len(memory[Counter])
      BY <2>1
    <2>3. n \in seen[Counter] .. Len(memory[Counter])
      BY DEF EndLoad, Visible, AcquireFence
    <2>4. Len(memory[Counter]) \in Nat /\ seen[Counter] \in Nat
      BY <1>2, NewestFacts DEF IInv, View
    <2>5. n \in Nat /\ n >= seen[Counter]
      BY <2>3, <2>4
    <2> QED
      BY <2>2, <2>5
  <1>4. memory[Counter][n].val = n - 1
    BY <1>3 DEF IInv, Numbered
  <1>5. saw \in View /\ saw[Counter] >= n /\ \A l \in Location : saw[l] >= seen[l]
    BY <1>2, <1>3, SeenFacts
  <1>6. /\ view' = [view EXCEPT ![r] = saw] /\ pc[r] = "copy"
        /\ \A w \in Words : local[r][w] # None
        /\ out' = IF memory[Counter][n].val = s0[r]
                  THEN [out EXCEPT ![r] = taken] ELSE out
        /\ GoTo(r, "idle")
        /\ s0' = [s0 EXCEPT ![r] = 0]
        /\ local' = [local EXCEPT ![r] = Nothing]
        /\ carried' = [carried EXCEPT ![r] = Bottom(Location)]
        /\ UNCHANGED <<memory, released>>
    BY DEF EndLoad, AcquireFence
  <1> HIDE DEF seen, saw
  <1>7. /\ view' \in [Thread -> View] /\ view'[r] = saw
        /\ \A t \in Thread : t # r => view'[t] = view[t]
    BY <1>5, <1>6 DEF IInv, TypeOK
  <1>8. /\ pc' \in [Thread -> {"idle", "write", "copy"}] /\ pc'[r] = "idle"
        /\ \A t \in Thread : t # r => pc'[t] = pc[t]
    BY <1>6 DEF IInv, TypeOK, GoTo
  <1>9. /\ s0' \in [Readers -> Nat]
        /\ \A q \in Readers : q # r => s0'[q] = s0[q]
        /\ carried' \in [Readers -> View]
        /\ \A q \in Readers : q # r => carried'[q] = carried[q]
    BY <1>6, BottomFacts DEF IInv, TypeOK
  <1>10. /\ local' \in [Readers -> [Words -> Nat \cup {None}]]
         /\ \A q \in Readers : q # r => local'[q] = local[q]
    <2>1. Nothing \in [Words -> Nat \cup {None}]
      BY DEF Nothing
    <2> QED
      BY <1>6, <2>1 DEF IInv, TypeOK
  <1>11. /\ \A l \in Location : /\ saw[l] \in Nat /\ seen[l] \in Nat
                                /\ view[r][l] \in Nat /\ carried[r][l] \in Nat
         /\ out[r].counter \in Nat /\ s0[r] \in Nat
         /\ local[r] \in [Words -> Nat]
    BY <1>1, <1>2, <1>5, <1>6, SMTT(30) DEF IInv, TypeOK, View
  <1>12. /\ view[r][Counter] >= out[r].counter + 1
         /\ s0[r] % 2 = 0 /\ s0[r] >= out[r].counter
         /\ view[r][Counter] >= s0[r] + 1
         /\ \A x \in Words :
              /\ 2 * local[r][x] >= s0[r]
              /\ carried[r][Counter] >= 2 * local[r][x]
    BY <1>6 DEF IInv, ReaderSees
  <1>13. /\ taken \in [counter : Nat, value : [Words -> Nat]]
         /\ taken.counter = s0[r] /\ taken.value = local[r]
    BY <1>11
  <1> HIDE DEF taken
  <1>14. /\ \A q \in Readers : q # r => out'[q] = out[q]
         /\ out' \in [Readers -> [counter : Nat, value : [Words -> Nat]]]
    BY <1>6, <1>13 DEF IInv, TypeOK
  <1>15. /\ \A w \in Words : 2 * out'[r].value[w] = out'[r].counter
         /\ out'[r].counter >= out[r].counter
         /\ saw[Counter] >= out'[r].counter + 1
    <2>1. CASE n - 1 = s0[r]
      <3>1. out'[r] = taken
        BY <1>4, <1>6, <2>1 DEF IInv, TypeOK
      <3>2. ASSUME NEW w \in Words PROVE 2 * local[r][w] = s0[r]
        <4>1. local[r][w] \in Nat /\ 2 * local[r][w] >= s0[r]
          BY <1>11, <1>12
        <4>2. n >= 2 * local[r][w]
          <5>1. carried[r][Counter] >= 2 * local[r][w]
            BY <1>12
          <5>2. seen[Counter] >= carried[r][Counter]
            BY <1>2
          <5> QED
            BY <1>3, <1>11, <4>1, <5>1, <5>2
        <4>3. PICK half \in Nat : s0[r] = 2 * half
          <5>1. s0[r] \in Nat /\ s0[r] % 2 = 0
            BY <1>11, <1>12
          <5>2. s0[r] = 2 * (s0[r] \div 2) + (s0[r] % 2) /\ s0[r] \div 2 \in Nat
            BY <5>1, Parity
          <5>3. s0[r] = 2 * (s0[r] \div 2)
            BY <5>1, <5>2
          <5> QED
            BY <5>2, <5>3
        <4>4. n = s0[r] + 1
          BY <1>3, <1>11, <2>1
        <4> QED
          BY <4>1, <4>2, <4>3, <4>4
      <3>3. saw[Counter] >= s0[r] + 1
        BY <1>3, <1>5, <1>11, <2>1
      <3> QED
        BY <1>12, <1>13, <3>1, <3>2, <3>3
    <2>2. CASE n - 1 # s0[r]
      <3>1. out' = out
        BY <1>4, <1>6, <2>2
      <3>2. saw[Counter] >= view[r][Counter]
        BY <1>2, <1>5, <1>11
      <3>3. \A w \in Words : 2 * out[r].value[w] = out[r].counter
        BY DEF IInv, NotTorn
      <3> QED
        BY <1>11, <1>12, <3>1, <3>2, <3>3
    <2> QED
      BY <2>1, <2>2
  <1>16. TypeOK'
    BY <1>6, <1>7, <1>8, <1>9, <1>10, <1>14 DEF IInv, TypeOK
  <1>17. Numbered' /\ InStep' /\ WriterSees' /\ CounterCarries' /\ WordsCarry'
    BY <1>6, <1>7, <1>8, WriterUntouched
  <1>18. ReaderSees'
    <2> SUFFICES ASSUME NEW q \in Readers
                 PROVE  /\ view'[q][Counter] >= out'[q].counter + 1
                        /\ pc'[q] = "copy" =>
                             /\ s0'[q] % 2 = 0 /\ s0'[q] >= out'[q].counter
                             /\ view'[q][Counter] >= s0'[q] + 1
                             /\ \A x \in Words :
                                  /\ 2 * view'[q][x] >= s0'[q] + 2
                                  /\ local'[q][x] # None =>
                                       /\ 2 * local'[q][x] >= s0'[q]
                                       /\ carried'[q][Counter] >= 2 * local'[q][x]
      BY DEF ReaderSees
    <2>1. CASE q = r
      BY <1>7, <1>8, <1>15, <2>1
    <2>2. CASE q # r
      <3>1. /\ view'[q] = view[q] /\ pc'[q] = pc[q] /\ s0'[q] = s0[q]
            /\ local'[q] = local[q] /\ carried'[q] = carried[q] /\ out'[q] = out[q]
        BY <1>7, <1>8, <1>9, <1>10, <1>14, <2>2
      <3> QED
        BY <3>1 DEF IInv, ReaderSees
    <2> QED
      BY <2>1, <2>2
  <1>19. NotTorn'
    BY <1>14, <1>15 DEF IInv, NotTorn
  <1> QED
    BY <1>15, <1>16, <1>17, <1>18, <1>19 DEF IInv

-----------------------------------------------------------------------------
\* The invariant holds at first.
LEMMA InitHolds == Init => IInv
  <1> SUFFICES ASSUME Init PROVE IInv
    OBVIOUS
  <1> USE Locations, BottomFacts
  <1> DEFINE first == [val |-> 0, view |-> Bottom(Location)]
  <1>1. \A l \in Location : memory[l] = <<first>>
    BY DEF Init
  <1>2. first \in [val : Nat, view : View] /\ first.val = 0 /\ first.view = Bottom(Location)
    OBVIOUS
  <1> HIDE DEF first
  <1>3. /\ <<first>> \in Seq([val : Nat, view : View])
        /\ Len(<<first>>) = 1 /\ <<first>>[1] = first
    BY <1>2
  <1>4. \A l \in Location :
          /\ memory[l] \in Seq([val : Nat, view : View])
          /\ Len(memory[l]) = 1 /\ memory[l][1] = first
    BY <1>1, <1>3
  <1>5. /\ Nothing \in [Words -> Nat \cup {None}]
        /\ \A w \in Words : Nothing[w] = None
    BY DEF Nothing
  <1>6. TypeOK
    <2>1. memory \in [Location -> Seq([val : Nat, view : View])]
      BY <1>4 DEF Init
    <2> QED
      BY <1>5, <2>1 DEF Init, TypeOK
  <1>7. Numbered
    BY <1>2, <1>4 DEF Numbered
  <1>8. InStep
    BY <1>4 DEF InStep, Init
  <1>9. WriterSees
    BY <1>4 DEF WriterSees, Init
  <1>10. CounterCarries
    <2>1. \A n \in 1 .. Len(memory[Counter]) : n = 1 /\ memory[Counter][n] = first
      <3>1. Len(memory[Counter]) = 1 /\ memory[Counter][1] = first
        BY <1>4
      <3>2. \A n \in 1 .. Len(memory[Counter]) : n = 1
        BY <3>1
      <3> QED
        BY <3>1, <3>2
    <2>2. \A l \in Location : first.view[l] = 1
      BY <1>2
    <2> QED
      BY <2>1, <2>2 DEF CounterCarries
  <1>11. WordsCarry
    BY <1>2, <1>4 DEF WordsCarry
  <1>12. ReaderSees
    BY DEF ReaderSees, Init
  <1>13. NotTorn
    BY DEF NotTorn, Init
  <1> QED
    BY <1>6, <1>7, <1>8, <1>9, <1>10, <1>11, <1>12, <1>13 DEF IInv

\* Every step keeps the invariant.
LEMMA StepHolds == IInv /\ [Next]_vars => IInv'
  <1> SUFFICES ASSUME IInv, [Next]_vars PROVE IInv'
    OBVIOUS
  <1>1. CASE Store
    BY <1>1, BeginStoreStep, WriteWordStep, EndStoreStep DEF Store
  <1>2. ASSUME NEW r \in Readers, TryLoad(r) PROVE IInv'
    BY <1>2, BeginLoadStep, CopyWordStep, EndLoadStep DEF TryLoad
  <1>3. CASE UNCHANGED vars
    BY <1>3 DEF IInv, TypeOK, Numbered, InStep, WriterSees, CounterCarries,
                WordsCarry, ReaderSees, NotTorn, vars, Stores, Newest
  <1> QED
    BY <1>1, <1>2, <1>3 DEF Next

\* What the fences give: IInv holds of every state the seqlock reaches.
THEOREM InductiveInvariant == Spec => []IInv
  BY InitHolds, StepHolds, PTL DEF Spec

\* try_load never accepts a torn copy (the two loads of the counter around the
\* memcpy), for any number of readers, of words and of stores.
THEOREM NeverTorn == Spec => []NotTorn
  <1>1. IInv => NotTorn
    BY DEF IInv
  <1> QED
    BY <1>1, InductiveInvariant, PTL

-----------------------------------------------------------------------------
\* A reader that loads again never comes to hold an older value than the one
\* it has: the counter it starts from is no older than what it has seen.
NeverBack ==
  [][\A r \in Readers : out'[r].counter >= out[r].counter]_vars

\* A load that is accepted is no older than the one before.
LEMMA LoadsGoForward ==
  IInv /\ [Next]_vars => \A r \in Readers : out'[r].counter >= out[r].counter
  <1> SUFFICES ASSUME IInv, [Next]_vars, NEW r \in Readers
               PROVE  out'[r].counter >= out[r].counter
    OBVIOUS
  <1>1. out[r].counter \in Nat
    BY DEF IInv, TypeOK
  <1>2. CASE out' = out
    BY <1>1, <1>2
  <1>3. ASSUME NEW q \in Readers, NEW n \in DOMAIN memory[Counter], EndLoad(q, n)
        PROVE  out'[r].counter >= out[r].counter
    <2>1. CASE q = r
      BY <1>3, <2>1, EndLoadStep
    <2>2. CASE q # r
      BY <1>1, <1>3, <2>2 DEF EndLoad, IInv, TypeOK
    <2> QED
      BY <2>1, <2>2
  <1> QED
    BY <1>2, <1>3 DEF Next, Store, TryLoad, BeginStore, WriteWord, EndStore,
                      BeginLoad, CopyWord, reader_vars, vars

\* The snapshots a reader accepts are in the order they were stored.
THEOREM SnapshotsGoForward == Spec => NeverBack
  <1>1. IInv /\ [Next]_vars
          => [\A r \in Readers : out'[r].counter >= out[r].counter]_vars
    BY LoadsGoForward
  <1> QED
    BY <1>1, InductiveInvariant, PTL DEF Spec, NeverBack
=============================================================================
