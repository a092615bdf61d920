---------------------------- MODULE PoolResource ----------------------------
(***************************************************************************)
(* PoolResource of pool_resource.hpp: blocks of a few size classes carved  *)
(* from chunks, freed blocks kept on one list per class whose links are    *)
(* stored inside the free blocks.  Memory is numbered byte by byte across  *)
(* the chunks in the order they were taken.                                *)
(***************************************************************************)
EXTENDS Integers, FiniteSets

CONSTANTS Granularity, MaxBlock,      \* kGranularity, kMaxBlock
          ChunkBytes,                 \* chunk_bytes_, at least MaxBlock
          Requests,                   \* the sizes callers ask for
          MaxChunks, MaxLive          \* bounds

\* Every class is a whole number of units, and a chunk holds a block of any class.
ASSUME PoolAssumption ==
    /\ Granularity \in Nat \ {0} /\ MaxBlock \in Nat /\ MaxBlock % Granularity = 0
    /\ ChunkBytes \in Nat /\ ChunkBytes >= MaxBlock
    /\ Requests \subseteq Nat

VARIABLES free,         \* free_[cls]: the head of each list
          link,         \* FreeNode::next, by address of the block
          carve, carve_left, chunks,
          live,         \* blocks the callers hold: [at, bytes]
          upstream      \* blocks taken straight from upstream_

poolVars == <<free, link, carve, carve_left, chunks, live, upstream>>

Null == -1
Classes == 0..(MaxBlock \div Granularity - 1)

ClassOf(bytes) == (bytes + Granularity - 1) \div Granularity - 1
SizeOf(cls) == (cls + 1) * Granularity
AtLeastOne(bytes) == IF bytes = 0 THEN 1 ELSE bytes

PoolInit ==
    /\ free = [c \in Classes |-> Null]
    /\ link = [a \in {} |-> Null]
    /\ carve = Null /\ carve_left = 0 /\ chunks = 0
    /\ live = {} /\ upstream = 0

\* do_allocate, from the list of the class.
Reuse(bytes) ==
    LET cls == ClassOf(bytes)
    IN /\ free[cls] # Null
       /\ free' = [free EXCEPT ![cls] = link[@]]
       /\ link' = [a \in DOMAIN link \ {free[cls]} |-> link[a]]
       /\ live' = live \union {[at |-> free[cls], bytes |-> bytes]}
       /\ UNCHANGED <<carve, carve_left, chunks, upstream>>

\* Fault: looks only whether anything is left.
NeedsChunkWhenEmpty(size) == carve_left = 0

NeedsChunk(size) == carve_left < size

\* do_allocate, by carving; new_chunk leaves what remains of the old chunk.
Carve(bytes) ==
    LET cls == ClassOf(bytes)
        size == SizeOf(cls)
        fresh == NeedsChunk(size)
        at == IF fresh THEN chunks * ChunkBytes ELSE carve
    IN /\ free[cls] = Null
       /\ fresh => chunks < MaxChunks
       /\ chunks' = IF fresh THEN chunks + 1 ELSE chunks
       /\ carve' = at + size
       /\ carve_left' = (IF fresh THEN ChunkBytes ELSE carve_left) - size
       /\ live' = live \union {[at |-> at, bytes |-> bytes]}
       /\ UNCHANGED <<free, link, upstream>>

Allocate(bytes) ==
    \/ bytes <= MaxBlock /\ Cardinality(live) < MaxLive /\ (Reuse(bytes) \/ Carve(bytes))
    \/ /\ bytes > MaxBlock /\ upstream = 0
       /\ upstream' = 1
       /\ UNCHANGED <<free, link, carve, carve_left, chunks, live>>

Deallocate ==
    \/ \E b \in live :
          LET cls == ClassOf(b.bytes)
          IN /\ link' = [a \in DOMAIN link \union {b.at} |-> IF a = b.at THEN free[cls] ELSE link[a]]
             /\ free' = [free EXCEPT ![cls] = b.at]
             /\ live' = live \ {b}
             /\ UNCHANGED <<carve, carve_left, chunks, upstream>>
    \/ /\ upstream > 0
       /\ upstream' = 0
       /\ UNCHANGED <<free, link, carve, carve_left, chunks, live>>

\* release, once nothing handed out is used any more.
ReleaseAll ==
    /\ live = {} /\ upstream = 0
    /\ free' = [c \in Classes |-> Null] /\ link' = [a \in {} |-> Null]
    /\ carve' = Null /\ carve_left' = 0 /\ chunks' = 0
    /\ UNCHANGED <<live, upstream>>

PoolNext ==
    \/ \E bytes \in Requests : Allocate(AtLeastOne(bytes))
    \/ Deallocate
    \/ ReleaseAll

PoolSpec == PoolInit /\ [][PoolNext]_poolVars

Cells(at, size) == at..(at + size - 1)

\* The blocks reachable from the head of a list, at most as many as have links.
Listed(cls) ==
    LET node[n \in 0..Cardinality(DOMAIN link)] ==
            IF n = 0 THEN free[cls]
            ELSE IF node[n - 1] \in DOMAIN link THEN link[node[n - 1]] ELSE Null
    IN {node[n] : n \in DOMAIN node} \ {Null}

(***************************************************************************)
(* Memory is handed out once: every block a caller holds lies in one chunk *)
(* and is as large as was asked, no two of them overlap, none overlaps a   *)
(* free block, whose link the caller would overwrite, or the part still to *)
(* be carved, and every free block is on one list only.                    *)
(***************************************************************************)
BlocksAreDisjoint ==
    LET held == {Cells(b.at, SizeOf(ClassOf(b.bytes))) : b \in live}
        listed == UNION {{Cells(a, SizeOf(c)) : a \in Listed(c)} : c \in Classes}
        uncarved == IF carve_left = 0 THEN {} ELSE {Cells(carve, carve_left)}
        parts == held \union listed \union uncarved
    IN /\ Cardinality(held) = Cardinality(live)
       /\ Cardinality(listed) = Cardinality(DOMAIN link)
       /\ held \intersect (listed \union uncarved) = {}
       /\ \A a, b \in parts : a # b => a \intersect b = {}
       /\ \A p \in parts : \E c \in 0..(chunks - 1) : p \subseteq Cells(c * ChunkBytes, ChunkBytes)
       /\ \A b \in live : SizeOf(ClassOf(b.bytes)) >= b.bytes
=============================================================================
