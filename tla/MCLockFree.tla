----------------------------- MODULE MCLockFree -----------------------------
(***************************************************************************)
(* The seqlock, and what must go on in the queue, one per behaviour: the   *)
(* other one stays as it is constructed.  The queue wraps after the second *)
(* push.                                                                   *)
(***************************************************************************)
EXTENDS SeqLock

CONSTANTS p1, c1, c2

VARIABLES part, cells, seen, at, pos, sent, got

queue == <<cells, seen, at, pos, sent, got>>
all == <<part, vars, queue>>

Queue == INSTANCE MpmcQueue WITH
  memory <- cells, view <- seen, pc <- at, Producers <- {p1},
  Consumers <- {c1, c2}, Cap <- 2, Word <- 16, Start <- 15, MaxItems <- 3

LockFreeInit == Init /\ Queue!Init /\ part \in {"lock", "queue"}

OfLock(A) == part = "lock" /\ A /\ UNCHANGED <<part, queue>>
OfQueue(A) == part = "queue" /\ A /\ UNCHANGED <<part, vars>>

LockFreeNext == OfLock(Next) \/ OfQueue(Queue!Next)

\* The fairness of each, as its module justifies it.
LockFreeSpec ==
  /\ LockFreeInit /\ [][LockFreeNext]_all
  /\ WF_all(OfLock((\E w \in Words : WriteWord(w)) \/ EndStore))
  /\ \A r \in Readers :
       /\ SF_all(OfLock(LoadNewest(r)))
       /\ WF_all(OfLock(\E w \in Words : \E n \in DOMAIN memory[w] : CopyWord(r, w, n)))
  /\ \A t \in {p1, c1, c2} :
       SF_all(OfQueue(Queue!Onwards(t))) /\ SF_all(OfQueue(Queue!Claim(t)))
  /\ \A c \in {c1, c2} : SF_all(OfQueue(Queue!Call(c, Len(cells[Queue!HeadPos]))))

\* Every try_push and try_pop returns, however far behind the loads run.
EveryCallReturns == Queue!EveryCallReturns

\* With consumers that keep calling try_pop, what was pushed is popped.
NothingStranded == Queue!NothingStranded
=============================================================================
