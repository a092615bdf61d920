----------------------------- MODULE ViewMemory -----------------------------
(***************************************************************************)
(* The part of the C++ memory model that the lock-free headers rely on, as *)
(* message passing with views.  A location is the sequence of the writes   *)
(* made to it, in modification order.  A thread does not have to see the   *)
(* newest one: its view says, of every location, how far along it is, and  *)
(* it may read any write from there on.  A release write carries the view  *)
(* of its writer and an acquire read joins it to the view of its reader;   *)
(* a relaxed write carries nothing, or what the last release fence before  *)
(* it saw.  A read-modify-write reads the newest write.                    *)
(***************************************************************************)
EXTENDS Integers, Sequences

Later(m, n) == IF m >= n THEN m ELSE n

\* A view that has seen the first write of each location and nothing else.
Bottom(locations) == [l \in locations |-> 1]

Join(v, w) == [l \in DOMAIN v |-> Later(v[l], w[l])]

\* v, having seen the n-th write to l.
Seen(v, l, n) == [v EXCEPT ![l] = Later(@, n)]

\* The writes to l that a thread with view v may read.
Visible(memory, v, l) == v[l] .. Len(memory[l])

Newest(memory, l) == memory[l][Len(memory[l])].val
=============================================================================
