------------------------------ MODULE OuchWire ------------------------------
(***************************************************************************)
(* OUCH 4.2 messages both ways: the encoders of the participant with the   *)
(* decoders of the venue, the encoders of the venue with the participant's *)
(* decoder.  One buffer each way is written again and again, so a byte no  *)
(* store reaches belongs to an earlier message.  An order is a record of   *)
(* fields; a layout says where a message carries them.                     *)
(***************************************************************************)
EXTENDS WireBytes, TLC

CONSTANT MaxOrders   \* bound: messages written in one direction

VARIABLES way,     \* "in" to the exchange or "out" from it, fixed by the session
          order,   \* the message last encoded: type, generation and fields
          buffer,  \* the bytes
          read     \* what the other end made of them: how many bytes it was given,
                   \* the type it looked for, and the outcome

ouchVars == <<way, order, buffer, read>>

kTokenLen == 14
BufferLen == 80

\* How wide a field is, and whether it is an integer (stored big endian) or an
\* array of characters (copied).
Ints4 == {"shares", "price", "time_in_force", "min_quantity"}
Ints8 == {"timestamp", "reference", "match"}
Tokens == {"token", "replacement", "previous"}
Width(f) == IF f \in Ints4 THEN 4
            ELSE IF f \in Ints8 THEN 8
            ELSE IF f \in Tokens THEN kTokenLen
            ELSE IF f = "stock" THEN 8
            ELSE IF f = "firm" THEN 4 ELSE 1

\* The namespaces of offsets.  The type is always at offset zero.
enter == [token |-> 1, side |-> 15, shares |-> 16, stock |-> 20, price |-> 28,
          time_in_force |-> 32, firm |-> 36, display |-> 40, capacity |-> 41, iso |-> 42,
          min_quantity |-> 43, cross_type |-> 47, customer_type |-> 48]
replace == [token |-> 1, replacement |-> 15, shares |-> 29, price |-> 33,
            time_in_force |-> 37, display |-> 41, iso |-> 42, min_quantity |-> 43]
cancel == [token |-> 1, shares |-> 15]

sysevt == [timestamp |-> 1, event |-> 9]
accepted == [timestamp |-> 1, token |-> 9, side |-> 23, shares |-> 24, stock |-> 28,
             price |-> 36, time_in_force |-> 40, firm |-> 44, display |-> 48,
             reference |-> 49, capacity |-> 57, iso |-> 58, min_quantity |-> 59,
             cross_type |-> 63, order_state |-> 64, bbo |-> 65]
replaced == [previous |-> 65, bbo |-> 79]
canceled == [timestamp |-> 1, token |-> 9, shares |-> 23, reason |-> 27]
executed == [timestamp |-> 1, token |-> 9, shares |-> 23, price |-> 27, liquidity |-> 31,
             match |-> 32]
rejected == [timestamp |-> 1, token |-> 9, reason |-> 23]

InLengths == [O |-> 49, U |-> 47, X |-> 19, M |-> 20]
OutLengths == [S |-> 10, A |-> 66, U |-> 80, C |-> 28, D |-> 38, E |-> 40, B |-> 32,
               G |-> 45, J |-> 24, P |-> 23, I |-> 23, T |-> 36, M |-> 28]
LengthOf(lengths, type) == IF type \in DOMAIN lengths THEN lengths[type] ELSE 0

-----------------------------------------------------------------------------
(* Encoders.                                                               *)

Stored(f, v) == IF f \in Ints4 \cup Ints8 THEN BeStore(v) ELSE v
StoreField(layout, o, f, buf) == Written(buf, << <<layout[f], Stored(f, o[f])>> >>)
StoreAll(buf, layout, o) ==
  FoldSet(LAMBDA f, b : StoreField(layout, o, f, b), buf, DOMAIN layout)

\* write_common: what Accepted and Replaced share, at the offsets of Accepted.
Common == [f \in DOMAIN accepted \ {"bbo"} |-> accepted[f]]

\* Fault: the BBO weight indicator of a Replaced goes where Accepted has it.
OutLayoutOneBbo(type) ==
  CASE type = "S" -> sysevt [] type = "C" -> canceled
    [] type = "A" -> [bbo |-> accepted.bbo] @@ Common
    [] type = "U" -> [previous |-> replaced.previous, bbo |-> accepted.bbo] @@ Common
    [] type = "E" -> executed [] type = "J" -> rejected

InLayout(type) == CASE type = "O" -> enter [] type = "U" -> replace [] type = "X" -> cancel
OutLayout(type) ==
  CASE type = "S" -> sysevt [] type = "A" -> [bbo |-> accepted.bbo] @@ Common
    [] type = "U" -> replaced @@ Common [] type = "C" -> canceled
    [] type = "E" -> executed [] type = "J" -> rejected

\* Nothing is written into a buffer that is too small, and zero is returned.
Encode(buf, size, lengths, layout, o) ==
  IF size < lengths[o.type] THEN [sent |-> 0, buf |-> buf]
  ELSE [sent |-> lengths[o.type],
        buf |-> StoreAll(Written(buf, << <<0, << <<o.type>> >> >> >>), layout, o)]

-----------------------------------------------------------------------------
(* Decoders.                                                               *)

Get(p, f, at) == LET b == Bytes(p, at, Width(f))
                 IN  IF f \in Ints4 \cup Ints8 THEN BeLoad(b) ELSE b
Fields(p, layout) == [f \in DOMAIN layout |-> Get(p, f, layout[f])]

\* decode_enter_order, decode_replace_order, decode_cancel_order.
DecodeIn(p, n, type) ==
  IF n < InLengths[type] \/ p[0] # <<type>> THEN [ok |-> FALSE]
  ELSE [ok |-> TRUE, type |-> type, fields |-> Fields(p, InLayout(type))]

\* The shared prefix by one function; BBO weight at the call site, because it
\* sits elsewhere in a Replaced.
ReadCommon(p) == Fields(p, Common)

HandlerCall(p, type) ==
  CASE type = "E" -> Fields(p, executed)
    [] type = "C" -> Fields(p, canceled)
    [] type = "A" -> [bbo |-> Get(p, "bbo", accepted.bbo)] @@ ReadCommon(p)
    [] type = "U" -> [previous |-> Get(p, "previous", replaced.previous),
                      bbo |-> Get(p, "bbo", replaced.bbo)] @@ ReadCommon(p)
    [] type = "J" -> Fields(p, rejected)
    [] type = "S" -> Fields(p, sysevt)
    [] OTHER      -> [timestamp |-> Get(p, "timestamp", 1)]

\* OuchDecoder::decode: a length that is checked before a byte of the body.
DecodeOut(p, n) ==
  IF n = 0 THEN [ok |-> FALSE]
  ELSE LET len == LengthOf(OutLengths, p[0][1])
       IN  IF len = 0 \/ n < len THEN [ok |-> FALSE]
           ELSE [ok |-> TRUE, type |-> p[0][1], fields |-> HandlerCall(p, p[0][1])]

-----------------------------------------------------------------------------
AllFields == UNION {DOMAIN l : l \in {enter, replace, cancel, sysevt, accepted, replaced,
                                      canceled, executed, rejected}}

\* The bytes of one message are found in no other.  The ticker is short: the
\* struct holds it padded.
Value(g, f) == IF f = "stock" THEN PutAlpha([k \in 1..3 |-> <<f, g, k>>], 8)
               ELSE [k \in 1..Width(f) |-> <<f, g, k>>]
Order(g, type) == [type |-> type, generation |-> g] @@ [f \in AllFields |-> Value(g, f)]
NoOrder == [generation |-> 0]
Unread == [ok |-> FALSE, given |-> 0]

OuchInit ==
  /\ way \in {"in", "out"}
  /\ order = NoOrder
  /\ buffer = [i \in 0..BufferLen - 1 |-> Zero]
  /\ read = Unread

Send(type, size) ==
  LET o == Order(order.generation + 1, type)
      e == IF way = "in" THEN Encode(buffer, size, InLengths, InLayout(type), o)
                         ELSE Encode(buffer, size, OutLengths, OutLayout(type), o)
  IN  /\ order.generation < MaxOrders
      /\ buffer' = e.buf
      /\ order' = IF e.sent = 0 THEN order ELSE o
      /\ read' = Unread
      /\ UNCHANGED way

\* A message type the venue may send and this build only knows the length of.
SendForeign(type) ==
  LET g == order.generation + 1
      filling == <<0, [k \in 1..BufferLen |-> <<"foreign", g, k>>]>>
      o == Order(g, type)
  IN  /\ way = "out" /\ order.generation < MaxOrders
      /\ buffer' = Written(buffer, <<filling, <<0, << <<type>> >> >>,
                                     <<1, Stored("timestamp", o.timestamp)>> >>)
      /\ order' = o
      /\ read' = Unread
      /\ UNCHANGED way

Receive(n, type) ==
  LET p == [i \in 0..n - 1 |-> buffer[i]]
  IN  /\ order # NoOrder
      /\ read' = [given |-> n, asked |-> type] @@
                 (IF way = "in" THEN DecodeIn(p, n, type) ELSE DecodeOut(p, n))
      /\ UNCHANGED <<way, order, buffer>>

InTypes  == {"O", "U", "X"}
OutTypes == {"S", "A", "U", "C", "E", "J"}
OurLength == LengthOf(IF way = "in" THEN InLengths ELSE OutLengths, order.type)

OuchNext ==
  \/ \E type \in IF way = "in" THEN InTypes ELSE OutTypes, size \in {18, BufferLen} :
       Send(type, size)
  \/ \E type \in (DOMAIN OutLengths \ OutTypes) \cup {"?"} : SendForeign(type)
  \/ order # NoOrder /\ \E n \in {0, OurLength - 1, OurLength, BufferLen} \ {-1} :
       \E type \in IF way = "in" THEN InTypes ELSE {order.type} : Receive(n, type)

-----------------------------------------------------------------------------
(* An order or an answer that was encoded is read at the other end exactly *)
(* when its whole length is there: a decoder given that length or more,    *)
(* and looking for that type, always takes it, with the type and every     *)
(* field it was written from, token and previous token included; given one *)
(* byte less, or looking for another type, it refuses and reads nothing.   *)
(* Every byte of the message was written for it, none left over from an    *)
(* earlier one (ouch.hpp:699-702 and 848-853).                             *)
OrdersSurvive ==
  LET ours == IF way = "in" THEN InTypes ELSE OutTypes
  IN  /\ read # Unread =>
           (read.ok <=> /\ OurLength > 0 /\ read.given >= OurLength
                        /\ read.asked = order.type)
      /\ read.ok => /\ read.type = order.type
                    /\ \A f \in DOMAIN read.fields : read.fields[f] = order[f]
                    /\ order.type \in ours =>
                         DOMAIN read.fields = DOMAIN (IF way = "in" THEN InLayout(order.type)
                                                      ELSE OutLayout(order.type))
      /\ order # NoOrder /\ order.type \in ours =>
           \A i \in 0..OurLength - 1 :
             Len(buffer[i]) = 3 => buffer[i][2] = order.generation
=============================================================================
