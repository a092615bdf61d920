----------------------------- MODULE MpmcQueue -----------------------------
(***************************************************************************)
(* The bounded queue of include/tick/mpmc_queue.hpp, under the memory      *)
(* model its comments are written for: every load may be stale, the        *)
(* compare and exchange alone is certain to see the newest position, and   *)
(* only the release store and the acquire load of a slot's sequence order  *)
(* the payload.                                                            *)
(*                                                                         *)
(* One step is one access to shared memory.  try_push and try_pop run the  *)
(* same loop over their own position, so a thread is told apart by the     *)
(* position it works on, the sequence it waits for and the one it leaves.  *)
(* Positions are words that wrap; Start is how many items had gone through *)
(* the queue before the run, so that a small word can wrap in it.          *)
(*                                                                         *)
(* An assignment to or a move out of a payload is a write to the location  *)
(* "value"; it is ordered when the thread has seen all the earlier ones.   *)
(***************************************************************************)
EXTENDS Integers, Sequences, FiniteSets, ViewMemory

CONSTANTS
  Producers, Consumers,   \* threads
  Cap,                    \* slots in the ring
  Word,                   \* values of a position, 2^64 in the code
  Start,                  \* the position of the first push and the first pop
  MaxItems,               \* bound on the pushes
  None                    \* the item of a slot that was never filled

ASSUME MpmcAssumption ==
  /\ Producers \cap Consumers = {} /\ IsFiniteSet(Producers)
  /\ Cap \in Nat /\ Cap >= 2
  /\ Word \in Nat /\ Word % (2 * Cap) = 0
  /\ Start \in 0 .. Word - 1
  /\ MaxItems \in Nat /\ 2 * MaxItems < Word

VARIABLES
  memory,  \* the writes to each location, each with the view it releases
  view,    \* what each thread has seen of each location
  pc,      \* where each thread is in its call
  pos,     \* the local pos of each thread
  sent,    \* history: how many items each producer has pushed
  got      \* history: the items each consumer has popped, in order

vars == <<memory, view, pc, pos, sent, got>>

Thread == Producers \cup Consumers
Index == 0 .. Cap - 1
TailPos == <<"tail", 0>>
HeadPos == <<"head", 0>>
SeqAt(p) == <<"seq", p % Cap>>
Value(p) == <<"value", p % Cap>>
Location == {TailPos, HeadPos} \cup ({"seq", "value"} \X Index)
Item == Producers \X (1 .. MaxItems)

Position(t) == IF t \in Producers THEN TailPos ELSE HeadPos

\* Fault: positions are compared without wrapping.
DiffUnwrapped(a, b) == a - b

\* The difference of two words, as a signed word.
Diff(a, b) == ((a - b + Word \div 2) % Word) - Word \div 2

\* The sequence at which the slot of pos[t] is t's to claim, and the one t
\* leaves in it: a producer fills it for a consumer, a consumer frees it for
\* the producer one lap on.
Wanted(t) == IF t \in Producers THEN pos[t] ELSE pos[t] + 1
Left(t) == (IF t \in Producers THEN pos[t] + 1 ELSE pos[t] + Cap) % Word

Write(l, v, released) ==
  memory' = [memory EXCEPT ![l] = Append(@, [val |-> v, view |-> released])]

GoTo(t, label) == pc' = [pc EXCEPT ![t] = label]

\* pos is a local of the call.
Return(t) == GoTo(t, "idle") /\ pos' = [pos EXCEPT ![t] = Start]
Stay(t, label) == GoTo(t, label) /\ UNCHANGED pos

\* A relaxed load of the position: any value not older than the last one seen.
LoadPosition(t, n) ==
  /\ n \in Visible(memory, view[t], Position(t))
  /\ pos' = [pos EXCEPT ![t] = memory[Position(t)][n].val]
  /\ view' = [view EXCEPT ![t] = Seen(@, Position(t), n)]
  /\ GoTo(t, "look")
  /\ UNCHANGED <<memory, sent, got>>

\* Pushes that have claimed a position or may still claim one.
Started ==
  Len(memory[TailPos]) - 1
    + Cardinality({p \in Producers : pc[p] \in {"look", "reload", "claim"}})

Call(t, n) ==
  /\ pc[t] = "idle"
  /\ t \in Producers => Started < MaxItems
  /\ LoadPosition(t, n)

\* Fault: the sequence is loaded relaxed.
LookRelaxed(t, n) ==
  LET l == SeqAt(pos[t])
      d == Diff(memory[l][n].val, Wanted(t))
  IN  /\ pc[t] = "look"
      /\ n \in Visible(memory, view[t], l)
      /\ view' = [view EXCEPT ![t] = Seen(@, l, n)]
      /\ \/ d = 0 /\ Stay(t, "claim")
         \/ d < 0 /\ Return(t)
         \/ d > 0 /\ Stay(t, "reload")
      /\ UNCHANGED <<memory, sent, got>>

\* Fault: a slot of the previous lap is good enough.
LookNotFull(t, n) ==
  LET l == SeqAt(pos[t])
      d == Diff(memory[l][n].val, Wanted(t))
  IN  /\ pc[t] = "look"
      /\ n \in Visible(memory, view[t], l)
      /\ view' = [view EXCEPT ![t] = Seen(Join(@, memory[l][n].view), l, n)]
      /\ \/ (d = 0 \/ (d < 0 /\ t \in Producers)) /\ Stay(t, "claim")
         \/ d < 0 /\ t \in Consumers /\ Return(t)
         \/ d > 0 /\ Stay(t, "reload")
      /\ UNCHANGED <<memory, sent, got>>

\* The acquire load of the slot's sequence, and what it says: the slot is
\* there to claim, or the call returns false (the queue is full, or empty), or
\* another thread has taken the position and it is loaded again.
Look(t, n) ==
  LET l == SeqAt(pos[t])
      d == Diff(memory[l][n].val, Wanted(t))
  IN  /\ pc[t] = "look"
      /\ n \in Visible(memory, view[t], l)
      /\ view' = [view EXCEPT ![t] = Seen(Join(@, memory[l][n].view), l, n)]
      /\ \/ d = 0 /\ Stay(t, "claim")
         \/ d < 0 /\ Return(t)
         \/ d > 0 /\ Stay(t, "reload")
      /\ UNCHANGED <<memory, sent, got>>

\* Fault: the loop goes round with the position it has.
ReloadNothing(t, n) ==
  /\ pc[t] = "reload" /\ n = 1
  /\ GoTo(t, "look")
  /\ UNCHANGED <<memory, view, pos, sent, got>>

Reload(t, n) == pc[t] = "reload" /\ LoadPosition(t, n)

\* The compare and exchange fails, because the position moved or for no reason
\* at all, and leaves a value of the position in pos.
ClaimFails(t, n) == pc[t] = "claim" /\ LoadPosition(t, n)

\* Fault: a load, a comparison and a store, and not one exchange.
ClaimBlindly(t) ==
  LET l == Position(t)
  IN  /\ pc[t] = "claim"
      /\ Write(l, (pos[t] + 1) % Word, Bottom(Location))
      /\ view' = [view EXCEPT ![t] = Seen(@, l, Len(memory[l]) + 1)]
      /\ GoTo(t, "use")
      /\ UNCHANGED <<pos, sent, got>>

Claim(t) ==
  LET l == Position(t)
  IN  /\ pc[t] = "claim"
      /\ Newest(memory, l) = pos[t]
      /\ Write(l, (pos[t] + 1) % Word, Bottom(Location))
      /\ view' = [view EXCEPT ![t] = Seen(@, l, Len(memory[l]) + 1)]
      /\ GoTo(t, "use")
      /\ UNCHANGED <<pos, sent, got>>

\* The payload is assigned by a producer and moved out by a consumer.
Use(t) ==
  LET l == Value(pos[t])
      old == Newest(memory, l)
  IN  /\ pc[t] = "use"
      /\ Write(l, IF t \in Producers THEN <<t, sent[t] + 1>> ELSE old,
               Bottom(Location))
      /\ view' = [view EXCEPT ![t] = Seen(@, l, Len(memory[l]) + 1)]
      /\ got' = IF t \in Producers THEN got
                ELSE [got EXCEPT ![t] = Append(@, old)]
      /\ GoTo(t, "publish")
      /\ UNCHANGED <<pos, sent>>

\* The release store of the slot's sequence; the call returns true.
Publish(t) ==
  LET l == SeqAt(pos[t])
      seen == Seen(view[t], l, Len(memory[l]) + 1)
  IN  /\ pc[t] = "publish"
      /\ Write(l, Left(t), seen)
      /\ view' = [view EXCEPT ![t] = seen]
      /\ sent' = IF t \in Producers THEN [sent EXCEPT ![t] = @ + 1] ELSE sent
      /\ Return(t)
      /\ UNCHANGED got

\* The first position from Start on that falls in slot i.
FirstIn(i) == (Start + ((i - Start) % Cap)) % Word

Init ==
  /\ memory = [l \in Location |->
                 <<[val |-> IF l \in {TailPos, HeadPos} THEN Start
                            ELSE IF l[1] = "seq" THEN FirstIn(l[2]) ELSE None,
                    view |-> Bottom(Location)]>>]
  /\ view = [t \in Thread |-> Bottom(Location)]
  /\ pc = [t \in Thread |-> "idle"]
  /\ pos = [t \in Thread |-> Start]
  /\ sent = [p \in Producers |-> 0]
  /\ got = [c \in Consumers |-> << >>]

\* The loads have one write to choose, the n-th.
Load(t, n) == Call(t, n) \/ Look(t, n) \/ Reload(t, n) \/ ClaimFails(t, n)

Next ==
  \E t \in Thread :
    \/ \E l \in {Position(t), SeqAt(pos[t])} : \E n \in DOMAIN memory[l] : Load(t, n)
    \/ Claim(t)
    \/ Use(t)
    \/ Publish(t)

Spec == Init /\ [][Next]_vars

\* No thread is stopped inside a call for ever, an exchange that can succeed
\* does not fail for ever, and a store becomes visible in the end.
Onwards(t) ==
  \/ Look(t, Len(memory[SeqAt(pos[t])]))
  \/ Reload(t, Len(memory[Position(t)]))
  \/ Newest(memory, Position(t)) # pos[t] /\ ClaimFails(t, Len(memory[Position(t)]))
  \/ Use(t)
  \/ Publish(t)

FairSpec ==
  /\ Spec
  /\ \A t \in Thread : SF_vars(Onwards(t)) /\ SF_vars(Claim(t))
  /\ \A c \in Consumers : SF_vars(Call(c, Len(memory[HeadPos])))

-----------------------------------------------------------------------------
\* "The payload write happens before the read", and the read before the next
\* lap's write: whoever is about to use a payload has seen every earlier use
\* of it, which the acquire and the release on the slot alone provide.
NoDataRace ==
  \A t \in Thread : pc[t] = "use" =>
    view[t][Value(pos[t])] = Len(memory[Value(pos[t])])

Pushed == {item \in Item : item[2] <= sent[item[1]]}
Popped == UNION {{got[c][i] : i \in DOMAIN got[c]} : c \in Consumers}

\* A consumer sees the items of one producer in the order they were pushed.
FifoPerProducer ==
  \A c \in Consumers : \A i, j \in DOMAIN got[c] :
    i < j /\ got[c][i][1] = got[c][j][1] => got[c][i][2] < got[c][j][2]

\* Every item that was pushed is still in a slot or was popped, and it was popped
\* once, by one consumer: nobody reuses a slot before it is free, and no two
\* consumers claim the same position, on a ring that is full again and again.
Conserved ==
  /\ Pushed \ Popped \subseteq {Newest(memory, Value(i)) : i \in Index}
  /\ \A c, d \in Consumers : \A i \in DOMAIN got[c], j \in DOMAIN got[d] :
       got[c][i] = got[d][j] => c = d /\ i = j

\* Every try_push and try_pop returns, however far behind the loads run.
EveryCallReturns == \A t \in Thread : pc[t] # "idle" ~> pc[t] = "idle"

\* With consumers that keep calling try_pop, what was pushed is popped.
NothingStranded == \A item \in Item : item \in Pushed ~> item \in Popped
=============================================================================
