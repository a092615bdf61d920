-------------------------- MODULE RetransmitStore --------------------------
(***************************************************************************)
(* The ring of recently published messages of include/tick/recovery.hpp,   *)
(* as the publisher of tools/tickerplant_pub.cpp uses it: the main thread  *)
(* stores each message before it goes out, and the thread of the           *)
(* retransmission server fetches whatever a receiver asks for, with no     *)
(* lock and no atomic between them.                                        *)
(*                                                                         *)
(* The two memcpys are not one access, so a payload is two words and each  *)
(* word is copied in a step of its own.  Message n is published as <<n, n>>. *)
(***************************************************************************)
EXTENDS Integers

CONSTANTS
  Cap,      \* slots in the ring (cap_)
  Last,     \* bound on the messages published
  NoBytes   \* a word never written, or not copied yet

VARIABLES
  slots,     \* slots_: the sequence of each slot, and whether it is present
  bytes,     \* bytes_: the two words of each slot
  sequence,  \* the message the publisher is at
  storing,   \* the words of it that store() has still to copy
  asked,     \* the sequence the server is fetching, or 0
  copied     \* the words fetch() has copied so far

vars == <<slots, bytes, sequence, storing, asked, copied>>

Word == {1, 2}
Index == 0 .. Cap - 1
Nothing == [w \in Word |-> NoBytes]

\* store(): memcpy of the payload into the slot, word by word.
StoreWord(w) ==
  /\ w \in storing
  /\ bytes' = [bytes EXCEPT ![sequence % Cap][w] = sequence]
  /\ storing' = storing \ {w}
  /\ UNCHANGED <<slots, sequence, asked, copied>>

\* store(): the sequence and the present flag; the publisher moves on.
StoreHeader ==
  /\ storing = {} /\ sequence <= Last
  /\ slots' = [slots EXCEPT ![sequence % Cap] = [seq |-> sequence, present |-> TRUE]]
  /\ sequence' = sequence + 1
  /\ storing' = IF sequence < Last THEN Word ELSE {}
  /\ UNCHANGED <<bytes, asked, copied>>

\* fetch(): the slot has to prove that it holds what was asked for.
FetchHeader(s) ==
  /\ asked = 0
  /\ slots[s % Cap].present /\ slots[s % Cap].seq = s
  /\ asked' = s
  /\ copied' = Nothing
  /\ UNCHANGED <<slots, bytes, sequence, storing>>

\* fetch(): memcpy of the slot into the answer, word by word.
FetchWord(w) ==
  /\ asked # 0 /\ copied[w] = NoBytes
  /\ copied' = [copied EXCEPT ![w] = bytes[asked % Cap][w]]
  /\ UNCHANGED <<slots, bytes, sequence, storing, asked>>

\* The answer goes out, and another one is looked for.
Fetched == asked # 0 /\ \A w \in Word : copied[w] # NoBytes

Answer ==
  /\ Fetched
  /\ asked' = 0
  /\ copied' = Nothing
  /\ UNCHANGED <<slots, bytes, sequence, storing>>

Init ==
  /\ slots = [i \in Index |-> [seq |-> 0, present |-> FALSE]]
  /\ bytes = [i \in Index |-> Nothing]
  /\ sequence = 1
  /\ storing = Word
  /\ asked = 0
  /\ copied = Nothing

Next ==
  \/ \E w \in Word : StoreWord(w) \/ FetchWord(w)
  \/ StoreHeader
  \/ \E s \in 1 .. Last : FetchHeader(s)
  \/ Answer

Spec == Init /\ [][Next]_vars

\* "The failure mode being avoided is answering with whatever bytes happen to
\* live in that ring slot now, which is a different message with the same
\* index": an answer for s is message s, every word of it.
AnswersAreGenuine == Fetched => copied = [w \in Word |-> asked]
=============================================================================
