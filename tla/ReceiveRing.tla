----------------------------- MODULE ReceiveRing -----------------------------
(***************************************************************************)
(* IoUringStrategy of receive_strategy.hpp: which of its buffers the       *)
(* kernel may write, which hold a datagram not yet reaped and which the    *)
(* caller reads.  The kernel completes receives at any point of the loop,  *)
(* in any order, some of them with an error.                               *)
(***************************************************************************)
EXTENDS Integers, Sequences, SequencesExt, FiniteSetsExt

CONSTANTS Depth,            \* slots of the ring, kDefaultDepth in the code
          MaxBatch          \* the largest max the caller passes

VARIABLES inflight,         \* inflight_, as the set of slots marked
          handed,           \* handed_out_[0 .. handed_count_), as a set
          armed,            \* slots with a receive in the kernel
          completed,        \* the completion queue: [slot, res]
          at,               \* where in receive() the thread is, or "caller"
          room              \* max - count

ringVars == <<inflight, handed, armed, completed, at, room>>

Slots == 0..(Depth - 1)

\* Fault: arming hands the caller's own buffers back at once, as the first
\* version of the file did.
ArmEveryReapedSlot(marked) ==
    /\ armed' = armed \union (Slots \ {completed[i].slot : i \in DOMAIN completed})
    /\ inflight' = Slots

\* arm_free_slots
ArmFreeSlots(marked) ==
    /\ armed' = armed \union (Slots \ marked)
    /\ inflight' = Slots

RingInit ==
    /\ inflight = Slots /\ armed = Slots
    /\ handed = {} /\ completed = <<>> /\ at = "caller" /\ room = 0

\* release_handed_out, then the first peek.
BeginReceive(max) ==
    /\ at = "caller"
    /\ inflight' = inflight \ handed
    /\ handed' = {}
    /\ at' = IF completed = <<>> THEN "wait" ELSE "reap"
    /\ room' = max
    /\ UNCHANGED <<armed, completed>>

\* io_uring_wait_cqe_timeout: -ETIME returns before anything is armed.
WaitTimesOut ==
    /\ at = "wait" /\ completed = <<>>
    /\ at' = "caller" /\ room' = 0
    /\ UNCHANGED <<inflight, handed, armed, completed>>

WaitEnds ==
    /\ at = "wait" /\ completed # <<>>
    /\ at' = "reap"
    /\ UNCHANGED <<inflight, handed, armed, completed, room>>

Reap ==
    /\ at = "reap" /\ room > 0 /\ completed # <<>>
    /\ LET cqe == Head(completed)
       IN IF cqe.res = "error"
          THEN inflight' = inflight \ {cqe.slot} /\ UNCHANGED <<handed, room>>
          ELSE handed' = handed \union {cqe.slot} /\ room' = room - 1 /\ UNCHANGED inflight
    /\ completed' = Tail(completed)
    /\ UNCHANGED <<armed, at>>

EndReceive ==
    /\ at = "reap" /\ (room = 0 \/ completed = <<>>)
    /\ ArmFreeSlots(inflight)
    /\ at' = "caller" /\ room' = 0
    /\ UNCHANGED <<handed, completed>>

Receive ==
    \/ \E max \in 1..MaxBatch : BeginReceive(max)
    \/ WaitTimesOut
    \/ WaitEnds
    \/ Reap
    \/ EndReceive

\* The kernel finishes a receive, with a datagram or with an error.
Complete ==
    /\ \E s \in armed, res \in {"datagram", "error"} :
          /\ armed' = armed \ {s}
          /\ completed' = Append(completed, [slot |-> s, res |-> res])
    /\ UNCHANGED <<inflight, handed, at, room>>

RingNext == Receive \/ Complete

RingSpec == RingInit /\ [][RingNext]_ringVars

(***************************************************************************)
(* A buffer has one owner: while the caller may read a datagram, until its *)
(* next call, no receive is armed on that buffer and no completion names   *)
(* it; no slot is armed twice; and the marks of inflight_ say exactly      *)
(* which slots are not free.                                               *)
(***************************************************************************)
BuffersHaveOneOwner ==
    LET reaped == {completed[i].slot : i \in DOMAIN completed}
    IN /\ Cardinality(reaped) = Len(completed)
       /\ handed \intersect (armed \union reaped) = {}
       /\ armed \intersect reaped = {}
       /\ inflight = armed \union reaped \union handed

(***************************************************************************)
(* receive_strategy.hpp, above arm_free_slots: "Every slot whose           *)
(* completion has been reaped is armed again, so the kernel always has     *)
(* somewhere to put the next datagram".  With nothing armed, nothing       *)
(* completed and nothing handed out, every later call waits, times out and *)
(* returns without arming: the strategy never receives again.              *)
(***************************************************************************)
KernelHasSomewhereToWrite ==
    at = "caller" => armed # {} \/ completed # <<>> \/ handed # {}
=============================================================================
