------------------------------ MODULE ItchWire ------------------------------
(***************************************************************************)
(* ITCH 5.0 messages between the writer and the two decoders.  A caller    *)
(* owns one buffer and writes one message after the other into it, so a    *)
(* byte no store reaches is a byte of an earlier message; the copying      *)
(* decoder owns a staging array with the same habit.  A byte remembers the *)
(* message, the field and the position it was written for.                 *)
(***************************************************************************)
EXTENDS WireBytes, TLC

CONSTANTS Symbols,      \* lengths of the tickers the caller writes
          MaxMessages   \* bound: messages written into the buffer

VARIABLES buf,      \* the caller's buffer
          sent,     \* what the last message was written from
          staging,  \* CopyingDecoder::staging_
          heard     \* how many bytes were handed over last, and what each decoder
                    \* made of them

itchVars == <<buf, sent, staging, heard>>

kMaxMessageLen == 50

LengthTable ==
  [S |-> 12, R |-> 39, H |-> 25, Y |-> 20, L |-> 26, V |-> 35, W |-> 12, K |-> 28,
   J |-> 35, h |-> 21, A |-> 36, F |-> 40, E |-> 31, C |-> 36, X |-> 23, D |-> 19,
   U |-> 35, P |-> 44, Q |-> 40, B |-> 19, I |-> 50, N |-> 20, O |-> 48]

\* Zero for a type the table does not know.
MessageLength(type) == IF type \in DOMAIN LengthTable THEN LengthTable[type] ELSE 0

\* itch::off and, for the bytes no decoder reads, itch::woff.
off ==
  [Locate |-> 1, Tracking |-> 3, Timestamp |-> 5, EventCode |-> 11,
   DirStock |-> 11, DirMarketCat |-> 19, DirFinStatus |-> 20, DirRoundLot |-> 21,
   DirRoundLotsOnly |-> 25, ActionStock |-> 11, ActionState |-> 19, ActionReason |-> 21,
   AddRef |-> 11, AddSide |-> 19, AddShares |-> 20, AddStock |-> 24, AddPrice |-> 32,
   AddMpid |-> 36, ExecRef |-> 11, ExecShares |-> 19, ExecMatch |-> 23,
   ExecPxRef |-> 11, ExecPxShares |-> 19, ExecPxMatch |-> 23, ExecPxPrintable |-> 31,
   ExecPxPrice |-> 32, CancelRef |-> 11, CancelShares |-> 19, DeleteRef |-> 11,
   ReplaceOldRef |-> 11, ReplaceNewRef |-> 19, ReplaceShares |-> 27, ReplacePrice |-> 31,
   TradeRef |-> 11, TradeSide |-> 19, TradeShares |-> 20, TradeStock |-> 24,
   TradePrice |-> 32, TradeMatch |-> 36, CrossShares |-> 11, CrossStock |-> 19,
   CrossPrice |-> 27, CrossMatch |-> 31, CrossType |-> 39, BrokenMatch |-> 11]

woff ==
  [DirIssueClass |-> 26, DirIssueSubType |-> 27, DirAuthenticity |-> 29,
   DirShortSaleThreshold |-> 30, DirIpoFlag |-> 31, DirLuldTier |-> 32,
   DirEtpFlag |-> 33, DirEtpLeverage |-> 34, DirInverse |-> 38, ActionReserved |-> 20]

-----------------------------------------------------------------------------
(* The writers.  A message m is a record of its type and its arguments.    *)

Char(o, c)     == <<o, <<c>>>>
Num(o, v)      == <<o, BeStore(v)>>
Alpha(o, s, w) == <<o, PutAlpha(s, w)>>

WriteHeader(m) ==
  << Char(0, <<m.type>>), Num(off.Locate, m.locate), Num(off.Tracking, m.tracking),
     <<off.Timestamp, BeStoreU48(m.timestamp)>> >>

WriteSystemEvent(m) == << Char(off.EventCode, m.aux) >>

WriteStockDirectory(m) ==
  << Alpha(off.DirStock, m.stock, 8), Char(off.DirMarketCat, m.aux),
     Char(off.DirFinStatus, m.other), Num(off.DirRoundLot, m.lot),
     Char(off.DirRoundLotsOnly, m.other), Char(woff.DirIssueClass, m.other),
     Alpha(woff.DirIssueSubType, <<m.other>>, 2), Char(woff.DirAuthenticity, m.other),
     Char(woff.DirShortSaleThreshold, m.other), Char(woff.DirIpoFlag, m.other),
     Char(woff.DirLuldTier, m.other), Char(woff.DirEtpFlag, m.other),
     Num(woff.DirEtpLeverage, m.price), Char(woff.DirInverse, m.other) >>

\* Fault: the reserved byte is left to whatever the buffer held.
WriteTradingActionUnreserved(m) ==
  << Alpha(off.ActionStock, m.stock, 8), Char(off.ActionState, m.aux),
     Alpha(off.ActionReason, <<>>, 4) >>

WriteTradingAction(m) ==
  << Alpha(off.ActionStock, m.stock, 8), Char(off.ActionState, m.aux),
     Char(woff.ActionReserved, Space), Alpha(off.ActionReason, <<>>, 4) >>

WriteAddOrder(m) ==
  << Num(off.AddRef, m.ref), Char(off.AddSide, m.side), Num(off.AddShares, m.shares),
     Alpha(off.AddStock, m.stock, 8), Num(off.AddPrice, m.price) >>

\* An add order whose type is stored over, with four more bytes.
WriteAddOrderMpid(m) ==
  WriteAddOrder(m) \o << Char(0, <<"F">>), Alpha(off.AddMpid, <<m.other>>, 4) >>

WriteOrderExecuted(m) ==
  << Num(off.ExecRef, m.ref), Num(off.ExecShares, m.shares), Num(off.ExecMatch, m.match) >>

WriteOrderExecutedPrice(m) ==
  << Num(off.ExecPxRef, m.ref), Num(off.ExecPxShares, m.shares),
     Num(off.ExecPxMatch, m.match),
     Char(off.ExecPxPrintable, <<IF m.printable THEN "Y" ELSE "N">>),
     Num(off.ExecPxPrice, m.price) >>

WriteOrderCancel(m) == << Num(off.CancelRef, m.ref), Num(off.CancelShares, m.shares) >>
WriteOrderDelete(m) == << Num(off.DeleteRef, m.ref) >>

WriteOrderReplace(m) ==
  << Num(off.ReplaceOldRef, m.ref), Num(off.ReplaceNewRef, m.ref2),
     Num(off.ReplaceShares, m.shares), Num(off.ReplacePrice, m.price) >>

WriteTrade(m) ==
  << Num(off.TradeRef, m.ref), Char(off.TradeSide, m.side), Num(off.TradeShares, m.shares),
     Alpha(off.TradeStock, m.stock, 8), Num(off.TradePrice, m.price),
     Num(off.TradeMatch, m.match) >>

\* Shares are eight bytes wide in this message and four in every other.
WriteCrossTrade(m) ==
  << Num(off.CrossShares, m.wide), Alpha(off.CrossStock, m.stock, 8),
     Num(off.CrossPrice, m.price), Num(off.CrossMatch, m.match),
     Char(off.CrossType, m.aux) >>

WriteBrokenTrade(m) == << Num(off.BrokenMatch, m.match) >>

\* write_add_order_mpid writes an 'A' first and stores the type over it.
Writer(m) ==
  LET header == WriteHeader([m EXCEPT !.type = IF @ = "F" THEN "A" ELSE @])
      body == CASE m.type = "S" -> WriteSystemEvent(m)
                [] m.type = "R" -> WriteStockDirectory(m)
                [] m.type = "H" -> WriteTradingAction(m)
                [] m.type = "A" -> WriteAddOrder(m)
                [] m.type = "F" -> WriteAddOrderMpid(m)
                [] m.type = "E" -> WriteOrderExecuted(m)
                [] m.type = "C" -> WriteOrderExecutedPrice(m)
                [] m.type = "X" -> WriteOrderCancel(m)
                [] m.type = "D" -> WriteOrderDelete(m)
                [] m.type = "U" -> WriteOrderReplace(m)
                [] m.type = "P" -> WriteTrade(m)
                [] m.type = "Q" -> WriteCrossTrade(m)
                [] m.type = "B" -> WriteBrokenTrade(m)
  IN  header \o body

WrittenTypes == {"S", "R", "H", "A", "F", "E", "C", "X", "D", "U", "P", "Q", "B"}

-----------------------------------------------------------------------------
(* The decoders.  p is the span handed over, a function on 0..n-1: reading *)
(* past its end would be an evaluation error.                              *)

U16(p, o) == Load(p, o, 2)
U32(p, o) == Load(p, o, 4)
U64(p, o) == Load(p, o, 8)
Timestamp(p) == BeLoadU48(Bytes(p, off.Timestamp, 6))

\* ZeroCopyDecoder reads each argument where it lies in the buffer.
ZeroCopyCall(p, type) ==
  LET loc == U16(p, off.Locate)
      ts  == Timestamp(p)
  IN  CASE type = "A" -> <<"on_add", loc, ts, U64(p, off.AddRef), p[off.AddSide],
                           U32(p, off.AddShares), U32(p, off.AddPrice), FALSE>>
        [] type = "D" -> <<"on_delete", loc, ts, U64(p, off.DeleteRef)>>
        [] type = "U" -> <<"on_replace", loc, ts, U64(p, off.ReplaceOldRef),
                           U64(p, off.ReplaceNewRef), U32(p, off.ReplaceShares),
                           U32(p, off.ReplacePrice)>>
        [] type = "E" -> <<"on_execute", loc, ts, U64(p, off.ExecRef),
                           U32(p, off.ExecShares), U64(p, off.ExecMatch)>>
        [] type = "X" -> <<"on_cancel", loc, ts, U64(p, off.CancelRef),
                           U32(p, off.CancelShares)>>
        [] type = "C" -> <<"on_execute_price", loc, ts, U64(p, off.ExecPxRef),
                           U32(p, off.ExecPxShares), U64(p, off.ExecPxMatch),
                           p[off.ExecPxPrintable] = <<"Y">>, U32(p, off.ExecPxPrice)>>
        [] type = "F" -> <<"on_add", loc, ts, U64(p, off.AddRef), p[off.AddSide],
                           U32(p, off.AddShares), U32(p, off.AddPrice), TRUE>>
        [] type = "P" -> <<"on_trade", loc, ts, U64(p, off.TradeRef), p[off.TradeSide],
                           U32(p, off.TradeShares), U32(p, off.TradePrice),
                           U64(p, off.TradeMatch)>>
        [] type = "Q" -> <<"on_cross_trade", loc, ts, Narrow(U64(p, off.CrossShares), 4),
                           U32(p, off.CrossPrice), U64(p, off.CrossMatch),
                           p[off.CrossType]>>
        [] type = "B" -> <<"on_broken_trade", loc, ts, U64(p, off.BrokenMatch)>>
        [] type = "R" -> <<"on_stock_directory", loc, ts,
                           Trimmed(Bytes(p, off.DirStock, 8)), U32(p, off.DirRoundLot)>>
        [] type = "H" -> <<"on_trading_action", loc, ts, p[off.ActionState]>>
        [] type = "S" -> <<"on_system_event", ts, p[off.EventCode]>>
        [] OTHER      -> <<"on_other", type, loc, ts>>

\* NormalizedEvent: every event starts from zeros, so that no field of an
\* earlier message shows through.
NormalizedEvent ==
  [ref |-> Zeros(8), ref2 |-> Zeros(8), match |-> Zeros(8), shares |-> Zeros(4),
   price |-> Zeros(4), lot |-> Zeros(4), side |-> Zero, aux |-> Zero,
   mpid |-> FALSE, printable |-> FALSE, symbol |-> <<>>]

\* CopyingDecoder::normalize: every field of the type, wanted or not.
Body(p, type) ==
  CASE type \in {"A", "F"} ->
         [ref |-> U64(p, off.AddRef), side |-> p[off.AddSide],
          shares |-> U32(p, off.AddShares), price |-> U32(p, off.AddPrice),
          mpid |-> type = "F", symbol |-> Trimmed(Bytes(p, off.AddStock, 8))]
    [] type = "E" -> [ref |-> U64(p, off.ExecRef), shares |-> U32(p, off.ExecShares),
                      match |-> U64(p, off.ExecMatch)]
    [] type = "C" -> [ref |-> U64(p, off.ExecPxRef), shares |-> U32(p, off.ExecPxShares),
                      match |-> U64(p, off.ExecPxMatch),
                      printable |-> p[off.ExecPxPrintable] = <<"Y">>,
                      price |-> U32(p, off.ExecPxPrice)]
    [] type = "X" -> [ref |-> U64(p, off.CancelRef), shares |-> U32(p, off.CancelShares)]
    [] type = "D" -> [ref |-> U64(p, off.DeleteRef)]
    [] type = "U" -> [ref |-> U64(p, off.ReplaceOldRef), ref2 |-> U64(p, off.ReplaceNewRef),
                      shares |-> U32(p, off.ReplaceShares),
                      price |-> U32(p, off.ReplacePrice)]
    [] type = "P" -> [ref |-> U64(p, off.TradeRef), side |-> p[off.TradeSide],
                      shares |-> U32(p, off.TradeShares), price |-> U32(p, off.TradePrice),
                      match |-> U64(p, off.TradeMatch),
                      symbol |-> Trimmed(Bytes(p, off.TradeStock, 8))]
    [] type = "Q" -> [shares |-> Narrow(U64(p, off.CrossShares), 4),
                      price |-> U32(p, off.CrossPrice), match |-> U64(p, off.CrossMatch),
                      aux |-> p[off.CrossType],
                      symbol |-> Trimmed(Bytes(p, off.CrossStock, 8))]
    [] type = "B" -> [match |-> U64(p, off.BrokenMatch)]
    [] type = "R" -> [lot |-> U32(p, off.DirRoundLot), aux |-> p[off.DirMarketCat],
                      symbol |-> Trimmed(Bytes(p, off.DirStock, 8))]
    [] type = "H" -> [aux |-> p[off.ActionState],
                      symbol |-> Trimmed(Bytes(p, off.ActionStock, 8))]
    [] type = "S" -> [aux |-> p[off.EventCode]]
    [] OTHER      -> <<>>

Normalize(p, type) ==
  [type |-> type, locate |-> U16(p, off.Locate), tracking |-> U16(p, off.Tracking),
   timestamp |-> Timestamp(p)] @@ Body(p, type) @@ NormalizedEvent

\* CopyingDecoder::dispatch: the owned event as a handler call.
Dispatch(e) ==
  CASE e.type \in {"A", "F"} -> <<"on_add", e.locate, e.timestamp, e.ref, e.side,
                                  e.shares, e.price, e.mpid>>
    [] e.type = "E" -> <<"on_execute", e.locate, e.timestamp, e.ref, e.shares, e.match>>
    [] e.type = "C" -> <<"on_execute_price", e.locate, e.timestamp, e.ref, e.shares,
                         e.match, e.printable, e.price>>
    [] e.type = "X" -> <<"on_cancel", e.locate, e.timestamp, e.ref, e.shares>>
    [] e.type = "D" -> <<"on_delete", e.locate, e.timestamp, e.ref>>
    [] e.type = "U" -> <<"on_replace", e.locate, e.timestamp, e.ref, e.ref2,
                         e.shares, e.price>>
    [] e.type = "P" -> <<"on_trade", e.locate, e.timestamp, e.ref, e.side, e.shares,
                         e.price, e.match>>
    [] e.type = "Q" -> <<"on_cross_trade", e.locate, e.timestamp, e.shares, e.price,
                         e.match, e.aux>>
    [] e.type = "B" -> <<"on_broken_trade", e.locate, e.timestamp, e.match>>
    [] e.type = "R" -> <<"on_stock_directory", e.locate, e.timestamp, e.symbol, e.lot>>
    [] e.type = "H" -> <<"on_trading_action", e.locate, e.timestamp, e.aux>>
    [] e.type = "S" -> <<"on_system_event", e.timestamp, e.aux>>
    [] OTHER        -> <<"on_other", e.type, e.locate, e.timestamp>>

Nothing == <<>>
Result(result, call, consumed) ==
  [result |-> result, call |-> call, consumed |-> consumed]

\* What both decoders decide before they read a field of the body.
Framed(n, type) ==
  LET len == MessageLength(type)
  IN  IF n = 0 THEN "Truncated"
      ELSE IF len = 0 THEN "UnknownType"
      ELSE IF n < len THEN "Truncated" ELSE "Ok"

ZeroCopyDecode(p, n) ==
  LET type   == p[0][1]
      framed == IF n = 0 THEN "Truncated" ELSE Framed(n, type)
  IN  IF framed = "Ok" THEN Result("Ok", ZeroCopyCall(p, type), MessageLength(type))
      ELSE Result(framed, Nothing, 0)

\* Fault: the last byte stays that of an earlier message.
StagedShort(p, n) ==
  IF n = 0 \/ Framed(n, p[0][1]) # "Ok" THEN staging
  ELSE [i \in DOMAIN staging |->
          IF i < MessageLength(p[0][1]) - 1 THEN p[i] ELSE staging[i]]

\* The message is copied over the front of the staging array and read there.
Staged(p, n) ==
  IF n = 0 \/ Framed(n, p[0][1]) # "Ok" THEN staging
  ELSE [i \in DOMAIN staging |-> IF i < MessageLength(p[0][1]) THEN p[i] ELSE staging[i]]

CopyingDecode(p, n, staged) ==
  LET type   == p[0][1]
      framed == IF n = 0 THEN "Truncated" ELSE Framed(n, type)
  IN  IF framed = "Ok"
      THEN Result("Ok", Dispatch(Normalize(staged, type)), MessageLength(type))
      ELSE Result(framed, Nothing, 0)

-----------------------------------------------------------------------------
(* Inputs: the arguments of the g-th message are bytes found in no other.  *)

Field(g, name, w) == [k \in 1..w |-> <<name, g, k>>]

Message(g, type, n, printable) ==
  [generation |-> g, type |-> type, locate |-> Field(g, "locate", 2),
   tracking |-> Field(g, "tracking", 2),
   timestamp |-> Widen(Field(g, "timestamp", 6), 8),
   ref |-> Field(g, "ref", 8), ref2 |-> Field(g, "ref2", 8),
   match |-> Field(g, "match", 8), shares |-> Field(g, "shares", 4),
   wide |-> Widen(Field(g, "wide", 4), 8), price |-> Field(g, "price", 4),
   lot |-> Field(g, "lot", 4), side |-> <<"side", g, 1>>, aux |-> <<"aux", g, 1>>,
   other |-> <<"other", g, 1>>, stock |-> Field(g, "stock", n), printable |-> printable]

WithStock == {"R", "H", "A", "F", "P", "Q"}
Unsent == [generation |-> 0]
Silence == [given |-> 0, zero |-> Nothing, copy |-> Nothing]

ItchInit ==
  /\ buf = [i \in 0..kMaxMessageLen - 1 |-> Zero]
  /\ staging = [i \in 0..kMaxMessageLen - 1 |-> Zero]
  /\ sent = Unsent
  /\ heard = Silence

Write(type, n, printable) ==
  LET m == Message(sent.generation + 1, type, n, printable)
  IN  /\ sent.generation < MaxMessages
      /\ n = 0 \/ type \in WithStock
      /\ printable => type = "C"
      /\ buf' = Written(buf, Writer(m))
      /\ sent' = m
      /\ heard' = Silence
      /\ UNCHANGED staging

\* A message no writer here can produce, from a foreign feed.
Receive(type) ==
  LET m == Message(sent.generation + 1, type, 0, FALSE)
      filling == <<0, Field(m.generation, "foreign", kMaxMessageLen)>>
  IN  /\ sent.generation < MaxMessages
      /\ buf' = Written(buf, <<filling>> \o WriteHeader(m))
      /\ sent' = m
      /\ heard' = Silence
      /\ UNCHANGED staging

\* Both decoders get the first n bytes of the buffer.
Decode(n) ==
  LET p == [i \in 0..n - 1 |-> buf[i]]
      staged == Staged(p, n)
  IN  /\ sent # Unsent
      /\ staging' = staged
      /\ heard' = [given |-> n, zero |-> ZeroCopyDecode(p, n),
                   copy |-> CopyingDecode(p, n, staged)]
      /\ UNCHANGED <<buf, sent>>

\* Spans that end before, inside, at and after the message.
Spans == LET len == MessageLength(sent.type) IN {0, 1, len - 1, len, kMaxMessageLen} \ {-1}

UnwrittenTypes == (DOMAIN LengthTable \ WrittenTypes) \cup {"?"}

ItchNext ==
  \/ \E type \in WrittenTypes, n \in Symbols \cup {0}, printable \in BOOLEAN :
       Write(type, n, printable)
  \/ \E type \in UnwrittenTypes : Receive(type)
  \/ sent # Unsent /\ \E n \in Spans : Decode(n)

-----------------------------------------------------------------------------
(* The two decoders make the same handler call, with the same arguments,   *)
(* of any bytes and any span, whatever messages went through the staging   *)
(* array before ("Two decoders that produce exactly the same sequence of   *)
(* handler calls from the same bytes", itch_decoder.hpp:11).               *)
DecodersAgree == heard.zero = heard.copy

\* What the handler is told when the message m was written.
Said(m) ==
  LET ts == m.timestamp
      on(name, args) == <<name, m.locate, ts>> \o args
      symbol == SubSeq(m.stock, 1, Min({8, Len(m.stock)}))
  IN  CASE m.type \in {"A", "F"} ->
             on("on_add", <<m.ref, m.side, m.shares, m.price, m.type = "F">>)
        [] m.type = "E" -> on("on_execute", <<m.ref, m.shares, m.match>>)
        [] m.type = "C" -> on("on_execute_price",
                              <<m.ref, m.shares, m.match, m.printable, m.price>>)
        [] m.type = "X" -> on("on_cancel", <<m.ref, m.shares>>)
        [] m.type = "D" -> on("on_delete", <<m.ref>>)
        [] m.type = "U" -> on("on_replace", <<m.ref, m.ref2, m.shares, m.price>>)
        [] m.type = "P" -> on("on_trade", <<m.ref, m.side, m.shares, m.price, m.match>>)
        [] m.type = "Q" -> on("on_cross_trade",
                              <<SubSeq(m.wide, 1, 4), m.price, m.match, m.aux>>)
        [] m.type = "B" -> on("on_broken_trade", <<m.match>>)
        [] m.type = "R" -> on("on_stock_directory", <<symbol, m.lot>>)
        [] m.type = "H" -> on("on_trading_action", <<m.aux>>)
        [] m.type = "S" -> <<"on_system_event", ts, m.aux>>
        [] OTHER        -> <<"on_other", m.type, m.locate, ts>>

(* A message written into a used buffer is whole: no byte of an earlier    *)
(* message lies inside its length and no byte of it outside.  A decoder    *)
(* given that length or more always takes it: it calls the handler with    *)
(* exactly what was written and consumes the length.  Given one byte less, *)
(* or any shorter span, it says Truncated and calls nothing; of a type it  *)
(* has no length for it says UnknownType and calls nothing                 *)
(* (itch_writer.hpp:20-22 and itch_decoder.hpp:137-138).                   *)
MessagesSurvive ==
  LET len == MessageLength(sent.type)
      Of(i) == IF Len(buf[i]) = 3 THEN buf[i][2] ELSE sent.generation
      Outside(i) == IF Len(buf[i]) = 3 THEN buf[i][2] ELSE 0
  IN  sent # Unsent =>
        /\ sent.type \in WrittenTypes =>
             \A i \in DOMAIN buf : IF i < len THEN Of(i) = sent.generation
                                            ELSE Outside(i) < sent.generation
        /\ heard # Silence =>
             heard.zero =
               IF len > 0 /\ heard.given >= len THEN Result("Ok", Said(sent), len)
               ELSE Result(IF len = 0 /\ heard.given > 0 THEN "UnknownType" ELSE "Truncated",
                           Nothing, 0)
=============================================================================
