----------------------------- MODULE WireBytes -----------------------------
(***************************************************************************)
(* How a field gets into and out of a buffer of bytes: endian.hpp and the  *)
(* primitives the writers and encoders are built from.  A byte is a value  *)
(* without structure; a host integer is the sequence of its bytes, least   *)
(* significant first, which is how it lies in the memory of the little     *)
(* endian hosts the program runs on.                                       *)
(***************************************************************************)
EXTENDS Integers, Sequences, SequencesExt

Space == <<"space">>
Zero  == <<"zero">>

Zeros(w) == [k \in 1..w |-> Zero]

\* bswap16, bswap32 and bswap64: the bytes in the other order.
Swapped(v) == Reverse(v)

\* A conversion to a narrower integer keeps the low bytes, one to a wider
\* integer adds zeros on top.
Narrow(v, w)  == SubSeq(v, 1, w)
Widen(v, w)   == v \o Zeros(w - Len(v))
ShiftRight(v, n) == SubSeq(v, n + 1, Len(v)) \o Zeros(n)
ShiftLeft(v, n)  == Zeros(n) \o SubSeq(v, 1, Len(v) - n)

BeStore(v) == Swapped(v)
BeLoad(bytes) == Swapped(bytes)

\* The six byte timestamp of ITCH, as a four byte and a two byte field.
BeStoreU48(v) == BeStore(Narrow(ShiftRight(v, 2), 4)) \o BeStore(Narrow(v, 2))
BeLoadU48(bytes) ==
  LET hi == Widen(BeLoad(SubSeq(bytes, 1, 4)), 8)
      lo == Widen(BeLoad(SubSeq(bytes, 5, 6)), 8)
      shifted == ShiftLeft(hi, 2)
  IN  [k \in 1..8 |-> IF k <= 2 THEN lo[k] ELSE shifted[k]]

\* An alpha field: cut to its width, or padded with spaces up to it.
PutAlpha(s, w) == [k \in 1..w |-> IF k <= Len(s) THEN s[k] ELSE Space]

\* The view of an alpha field without its trailing spaces.
Trimmed(bytes) ==
  LET text == {k \in DOMAIN bytes : bytes[k] # Space}
  IN  SubSeq(bytes, 1, IF text = {} THEN 0 ELSE Max(text))

\* A buffer is a function on 0..N-1.  A writer is the sequence of its stores,
\* each <<offset, bytes>>: where two overlap, the later one wins.
Written(buf, stores) ==
  LET Hits(i) == {s \in DOMAIN stores :
                    i \in stores[s][1] .. stores[s][1] + Len(stores[s][2]) - 1}
  IN  [i \in DOMAIN buf |->
         LET hits == Hits(i)
         IN  IF hits = {} THEN buf[i]
             ELSE LET s == stores[Max(hits)] IN s[2][i - s[1] + 1]]

\* The bytes of a field where it lies, and the integer read from it.
Bytes(p, off, w) == [k \in 1..w |-> p[off + k - 1]]
Load(p, off, w)  == BeLoad(Bytes(p, off, w))
=============================================================================
