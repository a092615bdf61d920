---------------------------- MODULE MCComponents ----------------------------
(***************************************************************************)
(* The components that do not interact, one per behaviour: which one it is *)
(* is chosen in the initial state, and the others stay as they are         *)
(* constructed.  Those that are proved about have variables of their own;  *)
(* the rest share s1 .. s6, which are the variables of the chosen one in   *)
(* the order it declares them; those it does not need stay Unused.         *)
(***************************************************************************)
EXTENDS MpmcQueue, BookBuilder, ReceiveRing, RecoveryClient, PoolResource,
        OuchOrder, ItchFile, TokenGenerator, BookSide, TLC

CONSTANTS
  x1, x2,         \* prices of the book, and the producers of the queue
  y1, y2, y3,     \* storage of its orders; the first two, the consumers
  Unused

VARIABLES part, s1, s2, s3, s4, s5, s6

\* The references of the book cluster around the end of tables of any size.
Clustered == <<7, 7, 0, 6>>

\* What the first message of a day does.
ASSUME FirstMessageIsObeyed == MessagesMeanWhatTheySay(EmptyBook)

\* A ticker that needs padding and one that is cut, two messages.
Itch == INSTANCE ItchWire WITH
  buf <- s1, sent <- s2, staging <- s3, heard <- s4,
  Symbols <- {3, 9}, MaxMessages <- 2

\* A byte of two values: a packet holds at most two blocks, a block three bytes,
\* and two full blocks do not fit.
Mold == INSTANCE MoldWire WITH
  buf <- s1, size <- s2, count <- s3, session <- s4, packet <- s5, view <- s6,
  Base <- 2, BufLen <- 27, Sessions <- {4, 12}, Firsts <- {1, 200},
  Messages <- {<<>>, <<1>>, <<0, 1, 1>>, <<1, 1, 1, 1>>}, MaxPackets <- 2

Ouch == INSTANCE OuchWire WITH
  way <- s1, order <- s2, buffer <- s3, read <- s4, MaxOrders <- 2

-----------------------------------------------------------------------------
Blank5 == s5 = Unused /\ s6 = Unused
Blank1 == s1 = Unused /\ s2 = Unused /\ s3 = Unused /\ s4 = Unused /\ Blank5

ComponentsInit ==
  /\ Init /\ BookInit /\ RingInit /\ RecoveryInit /\ PoolInit /\ OrderInit
  /\ \/ /\ part \in {"queue", "books", "ring", "recovery", "pool", "order", "reader", "token",
                     "sides"}
        /\ Blank1
     \/ part = "itch" /\ Itch!ItchInit /\ Blank5
     \/ part = "mold" /\ Mold!MoldInit
     \/ part = "ouch" /\ Ouch!OuchInit /\ Blank5
  /\ FileInit  /\ (part # "reader" => frames = <<>>)
  /\ TokenInit /\ (part # "token" => prefix_len = TokenLen /\ counter = 0)
  /\ SideInit  /\ (part # "sides" => isBid)

unused == <<s1, s2, s3, s4, s5, s6>>

ComponentsNext ==
  /\ UNCHANGED part
  /\ part # "queue" => UNCHANGED vars
  /\ part # "books" => UNCHANGED book
  /\ part # "ring" => UNCHANGED ringVars
  /\ part # "recovery" => UNCHANGED recoveryVars
  /\ part # "pool" => UNCHANGED poolVars
  /\ part # "order" => UNCHANGED orderVars
  /\ part # "reader" => UNCHANGED fileVars
  /\ part # "token" => UNCHANGED tokenVars
  /\ part # "sides" => UNCHANGED sideVars
  /\ \/ part = "queue"    /\ Next         /\ UNCHANGED unused
     \/ part = "books"    /\ BookNext     /\ UNCHANGED unused
     \/ part = "ring"     /\ RingNext     /\ UNCHANGED unused
     \/ part = "recovery" /\ RecoveryNext /\ UNCHANGED unused
     \/ part = "pool"     /\ PoolNext     /\ UNCHANGED unused
     \/ part = "order"    /\ OrderNext    /\ UNCHANGED unused
     \/ part = "reader"   /\ FileNext     /\ UNCHANGED unused
     \/ part = "token"    /\ NextToken    /\ UNCHANGED unused
     \/ part = "sides"    /\ SideNext     /\ UNCHANGED unused
     \/ part = "itch"     /\ Itch!ItchNext /\ UNCHANGED <<s5, s6>>
     \/ part = "mold"     /\ Mold!MoldNext
     \/ part = "ouch"     /\ Ouch!OuchNext /\ UNCHANGED <<s5, s6>>

ComponentsSpec ==
  /\ ComponentsInit
  /\ [][ComponentsNext]_<<part, vars, book, ringVars, recoveryVars, poolVars, orderVars,
                          fileVars, tokenVars, sideVars, unused>>

-----------------------------------------------------------------------------
(***************************************************************************)
(* The properties of the components that share their variables, each       *)
(* stated by its module; those of the others are their modules' own.       *)
(***************************************************************************)

\* Both ITCH decoders make the same call of the same bytes.
DecodersAgree == part = "itch" => Itch!DecodersAgree

\* An ITCH message written into a used buffer is whole.
MessagesSurvive == part = "itch" => Itch!MessagesSurvive

\* A packet is read as it was built, or refused.
PacketsSurvive == part = "mold" => Mold!PacketsSurvive

\* An OUCH message comes out of the decoder as it went into the encoder.
OrdersSurvive == part = "ouch" => Ouch!OrdersSurvive

\* Prices and storage are found by equality alone; threads of one role run the
\* same code over the same position.  The third place of storage is no thread.
Interchangeable ==
  Permutations({x1, x2}) \cup Permutations({y1, y2})
=============================================================================
