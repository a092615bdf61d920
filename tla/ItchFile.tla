------------------------------ MODULE ItchFile ------------------------------
(***************************************************************************)
(* The reader of a day's file: frames of a two byte length and a body,     *)
(* decompressed in pieces into a buffer that is compacted, never cycled.   *)
(* A byte of the buffer is the offset in the file it was read from.        *)
(***************************************************************************)
EXTENDS Integers, Sequences, FiniteSets

CONSTANTS BufferSize,   \* kBufferSize
          Lengths,      \* the lengths a frame of the file may announce
          MaxFrames     \* bound: frames in the file

ASSUME FileAssumption == /\ BufferSize \in Nat /\ BufferSize >= 2
                         /\ Lengths \subseteq Nat /\ MaxFrames \in Nat

VARIABLES frames,     \* the file: the lengths of its frames, in order
          fileSize,   \* and how many bytes of it there are
          data,       \* buf_: file offsets
          pos_, end_,
          consumed,   \* bytes gzread has given out so far
          spans,      \* the frames handed to the caller, as the bytes of each
          truncated,  \* truncated_
          done        \* next() has returned false

fileVars == <<frames, fileSize, data, pos_, end_, consumed, spans, truncated, done>>
file == <<frames, fileSize>>

FrameSize(len) == 2 + len
StartOf[k \in 1..Len(frames) + 1] ==
  IF k = 1 THEN 0 ELSE StartOf[k - 1] + FrameSize(frames[k - 1])
Starts == {k \in 1..Len(frames) : StartOf[k] + 2 <= fileSize}

Bytes(buf, from, n) == [i \in 1..n |-> buf[from + i - 1]]

\* What the two bytes at pos_ say, if they are the two bytes of a prefix:
\* anything else would be read as a number no frame announced.
NoFrame == BufferSize + 1
LengthAt(buf, p) ==
  LET k == {s \in Starts : buf[p] = StartOf[s] /\ buf[p + 1] = StartOf[s] + 1}
  IN  IF k = {} THEN NoFrame ELSE frames[CHOOSE s \in k : TRUE]

\* The reader between two steps.
Reader == [ok |-> TRUE, data |-> data, pos |-> pos_, end |-> end_, consumed |-> consumed]
Unread(r) == r.end - r.pos

\* refill(want): the unread tail moves to the front, and gzread gives any
\* number of bytes above none until there is enough, so the buffer may end
\* anywhere from want to what there is room and file for.  At the end of the
\* file what is left is taken and it fails; for a want wider than the buffer
\* nothing moves.
MovedNot(r) == r.data   \* Fault: the tail stays where it is
Moved(r) == [i \in 0..BufferSize - 1 |-> IF i < Unread(r) THEN r.data[r.pos + i] ELSE r.data[i]]
Given(buf, from, e, next) ==
  [i \in 0..BufferSize - 1 |-> IF i \in from..e - 1 THEN next + i - from ELSE buf[i]]
Refill(r, want) ==
  LET tail   == Unread(r)
      supply == tail + fileSize - r.consumed
      most   == IF supply < BufferSize THEN supply ELSE BufferSize
      ends   == IF supply >= want THEN want..most ELSE {supply}
  IN  IF want > BufferSize THEN {[r EXCEPT !.ok = FALSE]}
      ELSE {[ok |-> e >= want, data |-> Given(Moved(r), tail, e, r.consumed), pos |-> 0,
             end |-> e, consumed |-> r.consumed + e - tail] : e \in ends}
Ensure(r, want) == IF Unread(r) < want THEN Refill(r, want) ELSE {r}

-----------------------------------------------------------------------------
FileInit ==
  /\ frames \in UNION {[1..n -> Lengths] : n \in 0..MaxFrames}
  /\ fileSize \in {StartOf[Len(frames) + 1]} \cup
                  (IF frames = <<>> THEN {} ELSE StartOf[Len(frames)]..StartOf[Len(frames) + 1])
  /\ data = [i \in 0..BufferSize - 1 |-> -1]
  /\ pos_ = 0 /\ end_ = 0 /\ consumed = 0
  /\ spans = <<>> /\ truncated = 0 /\ done = FALSE

Keeps(r) == /\ data' = r.data /\ pos_' = r.pos /\ end_' = r.end /\ consumed' = r.consumed

\* No whole prefix is left: clean end of file.
NextAtEnd ==
  \E r \in Ensure(Reader, 2) : /\ ~r.ok /\ Keeps(r)
                               /\ done' = TRUE /\ UNCHANGED <<spans, truncated>>

\* A zero length is the mark some files end with.
NextAtMark ==
  \E r \in Ensure(Reader, 2) : /\ r.ok /\ LengthAt(r.data, r.pos) = 0 /\ Keeps(r)
                               /\ done' = TRUE /\ UNCHANGED <<spans, truncated>>

\* The span handed out lies in the buffer and is read before the next call.
NextFrame ==
  \E r \in {q \in Ensure(Reader, 2) : q.ok /\ LengthAt(q.data, q.pos) # 0} :
    LET len == LengthAt(r.data, r.pos)
    IN  \E b \in Ensure(r, FrameSize(len)) :
          /\ b.ok
          /\ Keeps([b EXCEPT !.pos = @ + FrameSize(len)])
          /\ spans' = Append(spans, Bytes(b.data, b.pos + 2, len))
          /\ UNCHANGED <<truncated, done>>

NextCutOff ==
  \E r \in {q \in Ensure(Reader, 2) : q.ok /\ LengthAt(q.data, q.pos) # 0} :
    \E b \in Ensure(r, FrameSize(LengthAt(r.data, r.pos))) :
      /\ ~b.ok /\ Keeps(b)
      /\ truncated' = truncated + 1 /\ done' = TRUE
      /\ UNCHANGED spans

FileNext == ~done /\ UNCHANGED file /\ (NextAtEnd \/ NextAtMark \/ NextFrame \/ NextCutOff)

FileSpec == FileInit /\ [][FileNext]_fileVars

-----------------------------------------------------------------------------
\* The frames a reader should hand out: all before the first that is a mark,
\* is cut off by the end of the file or cannot fit the buffer.
Whole(k) == /\ frames[k] # 0 /\ FrameSize(frames[k]) <= BufferSize
            /\ StartOf[k] + FrameSize(frames[k]) <= fileSize
Readable == {k \in 1..Len(frames) : \A j \in 1..k : Whole(j)}
LastWhole == Cardinality(Readable)

(* However the pieces of the decompressed file fall and wherever a frame   *)
(* straddles them, the caller is handed the bodies of its frames, each     *)
(* whole and in order, and at the end all of them; a file that stops       *)
(* inside a body is counted as truncated, one that stops at a frame or at  *)
(* a mark is not (itch_file.hpp, next and refill).                         *)
FileIsReadWhole ==
  /\ \A k \in DOMAIN spans : /\ k <= LastWhole
                             /\ spans[k] = [i \in 1..frames[k] |-> StartOf[k] + 1 + i]
  /\ done => /\ Len(spans) = LastWhole
             /\ (truncated = 1) <=>
                  (LastWhole < Len(frames) /\ frames[LastWhole + 1] # 0
                     /\ StartOf[LastWhole + 1] + 2 <= fileSize)
=============================================================================
