--------------------------- MODULE RecoveryClient ---------------------------
(***************************************************************************)
(* RecoveryClient of recovery.hpp: the queue of missing ranges, what is    *)
(* asked next, when to ask again and when to stop.  The caller registers   *)
(* every gap once, in ascending order, and the server answers any request  *)
(* ever sent, late, twice or in part, from the front of what was asked.    *)
(***************************************************************************)
EXTENDS Integers, Sequences, SequencesExt, FiniteSetsExt, Ascending

CONSTANTS Sequences,       \* sequence numbers: 1..Sequences
          MaxCount,        \* kMaxCount, what one request can name
          MaxOutstanding, InitialTimeout, MaxTimeout, MaxAttempts

\* What the constructor makes of its configuration.
ASSUME RecoveryAssumption ==
    /\ Sequences \in Nat /\ MaxCount \in Nat \ {0}
    /\ MaxOutstanding \in Nat \ {0} /\ MaxAttempts \in Nat \ {0}
    /\ InitialTimeout \in Nat \ {0} /\ MaxTimeout \in Nat /\ MaxTimeout >= InitialTimeout

VARIABLES entries,         \* entries_
          wire,            \* requests handed to the caller, as <<first, count>>
          named,           \* the highest sequence a gap has named
          answered, abandoned, refused,
          asked            \* how many requests named each sequence

recoveryVars == <<entries, wire, named, answered, abandoned, refused, asked>>

Run(first, count) == first..(first + count - 1)

Entry(first, count) ==
    [first |-> first, count |-> count, in_flight |-> FALSE, attempts |-> 0, timeout |-> 0, left |-> 0]

Outstanding == UNION {Run(e.first, e.count) : e \in ToSet(entries)}

RecoveryInit ==
    /\ entries = <<>>
    /\ wire = {}
    /\ named = 0
    /\ answered = {} /\ abandoned = {} /\ refused = {}
    /\ asked = [s \in 1..Sequences |-> 0]

SmallerOf(a, b) == IF a < b THEN a ELSE b

\* The chunks need() pushes, as far as there is room for them.
Chunks(first, count) ==
    LET wanted == (count + MaxCount - 1) \div MaxCount
    IN [i \in 1..SmallerOf(wanted, MaxOutstanding - Len(entries)) |->
            LET seq == first + (i - 1) * MaxCount
            IN Entry(seq, SmallerOf(MaxCount, first + count - seq))]

\* need: a gap in chunks the wire can name; what does not fit is refused.
Need(first, count) ==
    LET chunks == Chunks(first, count)
        taken == UNION {Run(chunks[i].first, chunks[i].count) : i \in DOMAIN chunks}
    IN /\ first > named
       /\ first + count - 1 <= Sequences
       /\ entries' = entries \o chunks
       /\ named' = first + count - 1
       /\ refused' = refused \union (Run(first, count) \ taken)
       /\ UNCHANGED <<wire, answered, abandoned, asked>>

Expired(e) == e.in_flight /\ e.left = 0

Spent(e) == Expired(e) /\ e.attempts >= MaxAttempts

\* Fault: a retry forgets to count.
RetriedUncounted(e) ==
    LET timeout == IF e.timeout > MaxTimeout \div 2 THEN MaxTimeout ELSE 2 * e.timeout
    IN [e EXCEPT !.timeout = timeout, !.left = timeout]

Retried(e) ==
    LET timeout == IF e.timeout > MaxTimeout \div 2 THEN MaxTimeout ELSE 2 * e.timeout
    IN [e EXCEPT !.timeout = timeout, !.left = timeout, !.attempts = @ + 1]

FirstSent(e) ==
    [e EXCEPT !.in_flight = TRUE, !.timeout = InitialTimeout, !.left = InitialTimeout, !.attempts = 1]

\* entries_ after the erasures of a scan, the others in their order.
Kept(queue, gone) ==
    LET left == InOrderOf(DOMAIN queue \ gone)
    IN [n \in DOMAIN left |-> queue[left[n]]]

\* The range at i goes out as e.
Ask(i, e, gone) ==
    /\ entries' = Kept([entries EXCEPT ![i] = e], gone)
    /\ wire' = wire \union {<<entries[i].first, entries[i].count>>}
    /\ asked' = [s \in DOMAIN asked |->
                    IF s \in Run(entries[i].first, entries[i].count) THEN asked[s] + 1 ELSE asked[s]]

\* next_request: spent ranges in front of the first one to retry go; then that
\* retry, or else the first range never sent.
NextRequest ==
    LET due == {i \in DOMAIN entries : Expired(entries[i]) /\ ~Spent(entries[i])}
        fresh == {i \in DOMAIN entries : ~entries[i].in_flight}
        gone == {i \in DOMAIN entries : Spent(entries[i]) /\ (due # {} => i < Min(due))}
    IN /\ abandoned' = abandoned \union
              UNION {Run(entries[i].first, entries[i].count) : i \in gone}
       /\ \/ due # {} /\ Ask(Min(due), Retried(entries[Min(due)]), gone)
          \/ due = {} /\ fresh # {} /\ Ask(Min(fresh), FirstSent(entries[Min(fresh)]), gone)
          \/ due = {} /\ fresh = {} /\ entries' = Kept(entries, gone) /\ UNCHANGED <<wire, asked>>
       /\ UNCHANGED <<named, answered, refused>>

Overlaps(e, first, end) == first < e.first + e.count /\ end > e.first

Covered(e, first, end) == Overlaps(e, first, end) /\ end >= e.first + e.count

\* An answer is taken off the front of an entry, never out of its middle.
Trimmed(e, first, end) ==
    IF Overlaps(e, first, end) /\ first <= e.first
    THEN [e EXCEPT !.first = end, !.count = e.first + e.count - end]
    ELSE e

OnResponse(first, count) ==
    LET end == first + count
    IN /\ entries' = Kept([i \in DOMAIN entries |-> Trimmed(entries[i], first, end)],
                             {i \in DOMAIN entries : Covered(entries[i], first, end)})
       /\ answered' = answered \union Run(first, count)
       /\ UNCHANGED <<wire, named, abandoned, refused, asked>>

\* clear: a session reset; the answers of the old session are not delivered.
Clear == entries # <<>> /\ entries' = <<>> /\ wire' = {} /\ named' = 0
         /\ answered' = {} /\ abandoned' = {} /\ refused' = {}
         /\ asked' = [s \in 1..Sequences |-> 0]

Elapse ==
    /\ \E e \in ToSet(entries) : e.left > 0
    /\ entries' = [i \in DOMAIN entries |->
                      [entries[i] EXCEPT !.left = IF @ > 0 THEN @ - 1 ELSE 0]]
    /\ UNCHANGED <<wire, named, answered, abandoned, refused, asked>>

RecoveryNext ==
    \/ \E first, count \in 1..Sequences : Need(first, count)
    \/ NextRequest
    \/ \E r \in wire : \E count \in 1..r[2] : OnResponse(r[1], count)
    \/ Clear
    \/ Elapse

RecoverySpec == RecoveryInit /\ [][RecoveryNext]_recoveryVars

(***************************************************************************)
(* Whatever is lost, late or answered in part: a sequence still asked for  *)
(* has not been answered, one no longer asked for was answered, or given   *)
(* up after exactly MaxAttempts requests that named it, or refused for     *)
(* want of room, and no sequence is ever asked for more often.             *)
(***************************************************************************)
EveryGapIsSettled ==
    /\ Outstanding \intersect answered = {}
    /\ \A e \in ToSet(entries) : Run(e.first, e.count) \intersect refused = {}
    /\ \A s \in 1..Sequences :
          /\ asked[s] <= MaxAttempts
          /\ s \in abandoned => asked[s] = MaxAttempts
          /\ asked[s] > 0 => s \in Outstanding \union answered \union abandoned
          /\ s \in Outstanding => \A i, j \in DOMAIN entries :
                 s \in Run(entries[i].first, entries[i].count)
                     \intersect Run(entries[j].first, entries[j].count) => i = j
=============================================================================
