---------------------------- MODULE RateLimiter ----------------------------
(***************************************************************************)
(* The message rate limiter of include/tick/risk.hpp: a ring of buckets,   *)
(* each with the absolute index of the tenth of a second it counts, so     *)
(* that a bucket of an earlier lap is ignored instead of being cleared.    *)
(***************************************************************************)
EXTENDS Integers, FiniteSetsExt

CONSTANTS
  Buckets,    \* kBuckets
  BucketNs,   \* kBucketNs, in ticks of the clock
  MaxTime     \* bound on the clock

ASSUME RateAssumption ==
  Buckets \in Nat \ {0} /\ BucketNs \in Nat \ {0} /\ MaxTime \in Nat

VARIABLES
  now,      \* the caller's clock
  index,    \* index_
  count,    \* count_
  sent_at   \* history: how many messages were sent at each tick

rate_vars == <<index, count, sent_at>>

Ring == 0 .. Buckets - 1
Bucket == now \div BucketNs

\* Fault: a bucket from one lap ago is still live.
LiveTooLong == {i \in Ring : index[i] <= Bucket /\ index[i] + Buckets >= Bucket}

\* The buckets inside the window that ends now.
Live == {i \in Ring : index[i] <= Bucket /\ index[i] + Buckets > Bucket}

\* count_at(now).
CountAt == SumFunctionOnSet(count, Live)

\* record(now).
Record ==
  LET slot == Bucket % Buckets
  IN  /\ index' = [index EXCEPT ![slot] = Bucket]
      /\ count' = [count EXCEPT ![slot] = IF index[slot] = Bucket THEN @ + 1 ELSE 1]
      /\ sent_at' = [sent_at EXCEPT ![now] = @ + 1]

RateInit ==
  /\ now = 0
  /\ index = [i \in Ring |-> 0]
  /\ count = [i \in Ring |-> 0]
  /\ sent_at = [t \in 0 .. MaxTime |-> 0]

\* Messages sent less than d ticks ago.
SentWithin(d) ==
  SumFunctionOnSet(sent_at, {t \in 0 .. now : now - t < d})
=============================================================================
