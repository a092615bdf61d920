------------------------------ MODULE SeqLock ------------------------------
(***************************************************************************)
(* The seqlock of include/tick/seqlock.hpp: one writer publishes a value   *)
(* of several words, readers copy it without stopping the writer and throw *)
(* the copy away when the counter says it may be torn.                     *)
(*                                                                         *)
(* The payload is read and written with no atomics, so a reader may find   *)
(* in each word any write its view allows, and the words are copied and    *)
(* written in any order.  What makes the counter mean anything is the      *)
(* order the two fences, the release store and the acquire load give.      *)
(*                                                                         *)
(* The n-th store publishes n in every word; the constructor publishes 0.  *)
(* A relaxed write carries what its writer had seen at its last release    *)
(* fence (released), and an acquire fence joins what its reader's relaxed  *)
(* reads carried (carried).                                                *)
(***************************************************************************)
EXTENDS Integers, Sequences, ViewMemory

CONSTANTS
  Readers,    \* threads that load
  Writer,     \* the one thread that stores, not one of them
  Width,      \* words in the value, at least one
  MaxStores,  \* bound on the stores
  None        \* a word not copied yet, no number

ASSUME SeqLockAssumption ==
  /\ Writer \notin Readers
  /\ Width \in Nat \ {0} /\ MaxStores \in Nat
  /\ None \notin Nat

VARIABLES
  memory,    \* the writes to the counter seq_ and to each word of storage_
  view,      \* what each thread has seen of them
  pc,        \* where each thread is in its call
  released,  \* what the writer had seen at its last release fence
  carried,   \* what the words a reader has copied carried with them
  s0,        \* the counter as each reader first loaded it
  local,     \* the copy each reader is making
  out        \* the last value each reader accepted, and its counter

vars == <<memory, view, pc, released, carried, s0, local, out>>
reader_vars == <<carried, s0, local, out>>

Counter == 0
Words == 1 .. Width
Location == {Counter} \cup Words
Thread == Readers \cup {Writer}
Nothing == [w \in Words |-> None]

\* Stores begun so far.
Stores == (Newest(memory, Counter) + 1) \div 2

Write(l, v, carries) ==
  LET n == Len(memory[l]) + 1
  IN  /\ memory' = [memory EXCEPT
           ![l] = Append(@, [val |-> v, view |-> Seen(carries, l, n)])]
      /\ view' = [view EXCEPT ![Writer] = Seen(@, l, n)]

GoTo(t, label) == pc' = [pc EXCEPT ![t] = label]

ReleaseFence == released' = view'[Writer]

\* The counter becomes odd, with a relaxed store and a release fence after it.
BeginStore ==
  /\ pc[Writer] = "idle" /\ Stores < MaxStores
  /\ Write(Counter, Newest(memory, Counter) + 1, released)
  /\ ReleaseFence
  /\ GoTo(Writer, "write")
  /\ UNCHANGED reader_vars

\* The memcpy into storage_, in any order.
WriteWord(w) ==
  /\ pc[Writer] = "write"
  /\ Newest(memory, w) # Stores
  /\ Write(w, Stores, released)
  /\ UNCHANGED <<pc, released, reader_vars>>

\* Fault: the counter is left odd.
EndStoreOdd ==
  /\ pc[Writer] = "write"
  /\ \A w \in Words : Newest(memory, w) = Stores
  /\ GoTo(Writer, "idle")
  /\ UNCHANGED <<memory, view, released, reader_vars>>

\* The counter becomes even again, with a release store.
EndStore ==
  /\ pc[Writer] = "write"
  /\ \A w \in Words : Newest(memory, w) = Stores
  /\ Write(Counter, Newest(memory, Counter) + 1, view[Writer])
  /\ GoTo(Writer, "idle")
  /\ UNCHANGED <<released, reader_vars>>

\* try_load: the acquire load of the counter.  Odd, and the call is over.
BeginLoad(r, n) ==
  LET m == memory[Counter][n]
  IN  /\ pc[r] = "idle"
      /\ n \in Visible(memory, view[r], Counter)
      /\ view' = [view EXCEPT ![r] = Join(@, m.view)]
      /\ IF m.val % 2 = 1 THEN UNCHANGED <<pc, s0, local, carried>>
         ELSE /\ GoTo(r, "copy")
              /\ s0' = [s0 EXCEPT ![r] = m.val]
              /\ local' = [local EXCEPT ![r] = Nothing]
              /\ carried' = [carried EXCEPT ![r] = Bottom(Location)]
      /\ UNCHANGED <<memory, released, out>>

\* The memcpy out of storage_, in any order.
CopyWord(r, w, n) ==
  LET m == memory[w][n]
  IN  /\ pc[r] = "copy" /\ local[r][w] = None
      /\ n \in Visible(memory, view[r], w)
      /\ local' = [local EXCEPT ![r][w] = m.val]
      /\ view' = [view EXCEPT ![r] = Seen(@, w, n)]
      /\ carried' = [carried EXCEPT ![r] = Join(@, m.view)]
      /\ UNCHANGED <<memory, pc, released, s0, out>>

\* Fault: the fence before the second load is left out.
NoAcquireFence(r) == view[r]

AcquireFence(r) == Join(view[r], carried[r])

\* The second load of the counter, after the acquire fence: the copy is
\* accepted when the counter has not moved.  load() tries again otherwise.
EndLoad(r, n) ==
  LET seen == AcquireFence(r)
  IN  /\ pc[r] = "copy" /\ \A w \in Words : local[r][w] # None
      /\ n \in Visible(memory, seen, Counter)
      /\ view' = [view EXCEPT ![r] = Seen(seen, Counter, n)]
      /\ out' = IF memory[Counter][n].val = s0[r]
                THEN [out EXCEPT ![r] = [counter |-> s0[r], value |-> local[r]]]
                ELSE out
      /\ GoTo(r, "idle")
      /\ s0' = [s0 EXCEPT ![r] = 0]
      /\ local' = [local EXCEPT ![r] = Nothing]
      /\ carried' = [carried EXCEPT ![r] = Bottom(Location)]
      /\ UNCHANGED <<memory, released>>

Init ==
  /\ memory = [l \in Location |-> <<[val |-> 0, view |-> Bottom(Location)]>>]
  /\ view = [t \in Thread |-> Bottom(Location)]
  /\ pc = [t \in Thread |-> "idle"]
  /\ released = Bottom(Location)
  /\ carried = [r \in Readers |-> Bottom(Location)]
  /\ s0 = [r \in Readers |-> 0]
  /\ local = [r \in Readers |-> Nothing]
  /\ out = [r \in Readers |-> [counter |-> 0, value |-> [w \in Words |-> 0]]]

Store == BeginStore \/ (\E w \in Words : WriteWord(w)) \/ EndStore

TryLoad(r) ==
  \/ \E n \in DOMAIN memory[Counter] : BeginLoad(r, n) \/ EndLoad(r, n)
  \/ \E w \in Words : \E n \in DOMAIN memory[w] : CopyWord(r, w, n)

Next == Store \/ \E r \in Readers : TryLoad(r)

Spec == Init /\ [][Next]_vars

\* A store that has begun ends, readers keep loading, and what was stored
\* becomes visible in the end.
LoadNewest(r) ==
  LET n == Len(memory[Counter]) IN BeginLoad(r, n) \/ EndLoad(r, n)

FairSpec ==
  /\ Spec
  /\ WF_vars((\E w \in Words : WriteWord(w)) \/ EndStore)
  /\ \A r \in Readers :
       /\ SF_vars(LoadNewest(r))
       /\ WF_vars(\E w \in Words : \E n \in DOMAIN memory[w] : CopyWord(r, w, n))

-----------------------------------------------------------------------------
\* A snapshot that is accepted is whole: every word of it comes from the one
\* store that the counter it was accepted under announces.
NotTorn == \A r \in Readers, w \in Words : 2 * out[r].value[w] = out[r].counter

\* A reader "only wants the most recent one": when the writer pauses, a reader
\* that keeps loading comes to hold what was stored last.
ReadersCatchUp == <>[](\A r \in Readers : out[r].counter = Newest(memory, Counter))
=============================================================================
