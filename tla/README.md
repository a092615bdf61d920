# Tickerplant in TLA+

Tickerplant is a C++20 feed handler for the NASDAQ ITCH feed: a publisher sends a
numbered stream over two lossy multicast lines, a receiver arbitrates the lines,
asks a unicast server for what both lost, rebuilds the order books, and a small
trading process quotes on top of them through pre-trade risk checks.  This
directory holds the TLA+ specifications of its protocols and concurrent
structures, the TLC configurations that check them on small instances and the
TLAPS proofs about them.  Every definition is a translation of the code under
`src/`; `PROJECT.json` says which lines.

Running it, from this directory:

    tlc -workers 2 -config MCSequencer.cfg MCSequencer.tla
    tlapm RiskEngineProofs.tla


## 1. Inventory

Paths are relative to `src/include/tick/` unless they begin with `tools/`.

| component | state it keeps | operations | talks to | what is hard | what makes it correct |
|---|---|---|---|---|---|
| line arbitrator, `sequencer.hpp` | next sequence owed, a ring of held messages, the state of the feed, deadline and attempts of one recovery | `on_message`, `on_retransmit`, `poll`, `reset` | called by the receive loop; calls the sink | loss, duplicates and reordering over two lines, a ring indexed modulo its size, timers that race answers | strictly increasing and intact output; nothing lost while the feed is not Stale; the window counts are exact; requests name exactly what is missing |
| queue, `mpmc_queue.hpp` | two positions, a sequence number and a payload per slot | `try_push`, `try_pop` | threads of tests and benchmarks | lock free, weak memory, wrap | no race on a payload; nothing lost, doubled or reordered; every call returns |
| seqlock, `seqlock.hpp` | a counter and an unsynchronised payload | `store`, `try_load`, `load` | threads of tests and benchmarks | weak memory, torn reads | a snapshot that is accepted is one store's value; readers catch up |
| retransmission store, `recovery.hpp` | a ring of recent messages | `store`, `fetch` | publisher's main thread and server thread, with no lock | two threads on one slot | what is fetched as message s is message s |
| recovery client, `recovery.hpp` | a queue of missing ranges with deadlines and attempts | `need`, `next_request`, `on_response`, `clear` | its tests (the receive tool uses the sequencer's own requests) | retries with a doubling timeout, partial answers, a full queue | a missing number is outstanding, answered or reported abandoned |
| MoldUDP64 framing, `moldudp64.hpp` | a packet under construction | `try_append`, `finish`, heartbeat, end of session, request; `parse` | publisher, receiver, server | batch limits, truncated packets | every message of a packet keeps its number |
| receiver, `tools/tickerplant_rx.cpp` | arrival stamps, exit conditions | the polling loop | sockets, arbitrator, books | loss at the tail, stamps of duplicates, request and answer on one loop | what the publisher sent is applied or the loss is noticed |
| publisher, `tools/tickerplant_pub.cpp` | sequence, pending datagram, injected loss, skew and reordering | send, flush, end of session, the retransmission server | both lines, receiver | a server with a limited answer, the end of a session | every message is stored before it goes out; the session's end says how far it went |
| risk engine, `risk.hpp` | exposure and position per symbol, open orders, kill switch, message rate | `check`, `on_order_sent`, `on_fill`, `on_cancel_acked`, `on_reject`, `trip`, `reset` | the trading loop | fills crossing cancels, overfills, a table with deletions, the edges of a rate window | exposure equals the open orders; a tripped switch stays tripped; limits are never passed by accepted orders |
| trading process, `tools/tickerplant_trade.cpp` | the live quote of each side, a simulated venue | one loop: book, quote, risk, venue, fills | all of the above | orders cancelled at one party and alive at the other | venue, risk engine and quoter agree on what is live |
| quoting strategy, `strategy.hpp` | position and last quotes | `on_top_of_book`, `on_fill`, `reset` | trading loop | inventory skew at its limits, crossed books | never quotes through its position limit |
| OUCH order entry, `ouch.hpp` | token counter; per order state, leaves and cumulated quantity | the client's transitions, the token generator, codecs | tests, trading loop (tokens) | fills crossing cancels and replaces | tokens unique and increasing; no shares lost or invented |
| book builder, `book_builder.hpp` | orders by reference, aggregated levels | add, execute, cancel, delete, replace, trade | receiver, replay tool | replace as delete and add, exhausted pool, duplicate references | the levels are the sum of the orders |
| order map, `flat_order_map.hpp` | open addressing table | insert, find, erase, grow | book builder | backward shift deletion over a wrapped cluster | every key stays reachable from its home slot |
| book sides, `book_side.hpp` | sorted levels | add, reduce, best | book builder | a level that empties | both containers agree |
| pool resource, `pool_resource.hpp` | chunks and free lists | allocate, deallocate, release | book builder | reuse by size class | no block is handed out twice |
| receive strategies, `receive_strategy.hpp` | the provided buffers of io_uring | `receive` | receiver | ownership of a buffer the kernel may refill | a buffer is not refilled while it is read |
| ITCH messages, decoders, writers, `itch*.hpp`, `endian.hpp` | a buffer used again and again | write, decode in place, decode by copy | publisher, receiver, tests | a byte left over from an earlier message, a field at a wrong offset | what is written is what both decoders read |
| file reader, `itch_file.hpp` | a buffer that is compacted and refilled | `next` | publisher, replay tool | a frame across a refill, a file that ends inside one | every frame whole, once, in order |
| sockets, `udp_socket.hpp` | none | system calls | receiver, publisher | - | - |
| measurement, synthetic feed, symbol table, replay tool, benches, scripts | counters | none of the protocols | all | - | - |

The parts interact along one path.  The publisher stores each message, batches it
into datagrams and sends those over two lines with independent loss, delay and
reordering.  The receive loop is a single thread: it reads both lines and the
unicast socket, hands each message to the arbitrator, polls it, and sends the
request the poll returns.  The arbitrator calls the sink (decoder and book)
synchronously.  Threads meet only at the retransmission store and in the two lock
free containers.


## 2. Plan

| stage | modules | state |
|---|---|---|
| 1. the arbitrator and what it promises | `Sequencer`, `OrderedFeed` | done, proved |
| 2. shared memory | `ViewMemory`, `MpmcQueue`, `SeqLock`, `RetransmitStore` | done |
| 3. risk | `OpenOrderTable`, `RateLimiter`, `RiskEngine` | done |
| 4. books | `FlatOrderMap`, `BookBuilder`, `BookSide`, `PoolResource` | done, but for volume totals |
| 5. the feed end to end | `FeedPipeline` over `Sequencer`; `RecoveryClient`, `ReceiveRing` | done, but for stamps and pacing |
| 6. trading and order entry | `TradeLoop`, `OuchOrder`, `TokenGenerator` | done |
| 7. bytes | `WireBytes`, `ItchWire`, `OuchWire`, `MoldWire`, `ItchFile` | done |
| 8. proofs | `SequencerProofs`, `SeqLockProofs`, `MpmcQueueProofs`, `FeedPipelineProofs`, `RiskEngineProofs`, `BookBuilderProofs`, over `RingLemmas` | done for the arbitrator, the seqlock, the queue, the pipeline, the risk engine and the books |
| 9. more proofs | `ComponentProofs`, over `RingLemmas` | done for the receive ring, the recovery client, the order, the pool, the file reader, the tokens and the book sides |

What is left to prove is the wire formats (`ItchWire`, `MoldWire`, `OuchWire`); see
"Only model-checked" in section 5.


## 3. What is modelled

### Sequencer (`sequencer.hpp`)

Each public call is one atomic step, because the receive loop is one thread.  The
steps of `ingest` are named after its paths:

| code | action |
|---|---|
| `seq == expected_`: deliver, `drain`, `settle` | `InOrder` |
| ahead and within the window, or room was made: copy to the slot | `Hold` |
| payload wider than `max_payload` | `TooWide` |
| the slide of `skip_to` drained up to the message itself | `CatchUp` |
| beyond two windows: wipe the ring and resynchronise | `Jump` |
| `poll` in Gap / Recovering / out of attempts / Stale | `PollAsk`, `PollRetry`, `PollGiveUp`, `PollStepOver` |
| `reset` | `Reset` |

The ring is the code's ring: an array of headers `{seq, present}` and an array of
bytes, both indexed by sequence modulo capacity, never a set of held numbers,
since the thing that can go wrong is a slot of an earlier lap being taken for this
one.  A payload is the number it was published under.  The sink is the history
`delivered`.  A duplicate changes only counters and is no step.  Time is the
caller's: `gap_since_ns_` and `recovery_deadline_ns_` are kept as the distances
the code compares with, so the clock is bounded without being cut off.  Left out:
the counters nothing reads (`duplicates`, `out_of_order`, `window_high_water`,
wins per line, requests and retries, `from_recovery`), which is also why the two
lines are one source, told apart only from the retransmission server.

`OrderedFeed` is what the book behind it was promised, with no ring, clock or
request: deliver the next messages in order, or give something up and never again
claim to be complete in this session.  `Downstream` in `Sequencer` is the
refinement mapping (`started`, `expected_`, what the sink saw, state is not Stale).

### MpmcQueue, SeqLock (`mpmc_queue.hpp`, `seqlock.hpp`) over ViewMemory

Both headers argue in terms of acquire, release, fences and stale loads, so an
interleaving of sequentially consistent accesses would assume what is to be
checked.  `ViewMemory` gives every location the sequence of its writes and every
thread a view of how far along each location it is; a load may return any write
not older than the view, a release write carries the writer's view, an acquire
load joins it, an exchange reads the newest write.  One step of `MpmcQueue` is one
access: the relaxed load of the position, the acquire load of the slot's sequence
with the three-way comparison, the weak exchange (which may fail although it could
succeed), the payload, the release store.  Positions are words that wrap.  In
`SeqLock` the payload is written and read word by word in any order; a release
fence makes later relaxed writes carry what was seen at the fence, and an acquire
fence joins what earlier relaxed reads carried.

`size`, `empty` of the queue change nothing and are left out.  Two writers of a
seqlock are outside the contract of its header.

### RetransmitStore (`recovery.hpp`, used by `tools/tickerplant_pub.cpp`)

`store` on the publishing thread and `fetch` on the server thread, split where the
two can be interleaved: the bytes word by word, then the header; the check of the
header, then the bytes word by word.  Accesses are interleaved in program order,
which is the most favourable machine; the disagreement below is already there.

### RiskEngine, OpenOrderTable, RateLimiter (`risk.hpp`)

One thread calls the engine, so each call is one step.  `check` is the guard
`Check`, in the code's order of tests; `SendOrder` is the sending path, where an
order that passes is written and counted at once.  The answers of the exchange are
`OnFill`, `OnCancelAcked` and `OnReject` for any token and any number of shares, in
any order: overfills, a fill after a partial cancel, an answer about an unknown
order.  `Reduce` is what they share: shares leave the exposure, and with the last of
them the order leaves the table and, if it was the last of its side, the best price
is cleared.  The human's calls (`TripKillSwitch`, `ResetKillSwitchAfterHumanReview`,
`SetLimits`, `EnableSymbol`) and the feed's `SetHalted` come at any time.

`OpenOrderTable` is the table itself, a function from slots to entries with a
probe and a deletion that shifts the cluster back; the hash is a constant, chosen to
collide.  `RateLimiter` is the ring of buckets with their absolute index, and a
history of what was sent when.  Positions are integers; their 64 bits are far
beyond anything the limits allow.  Checks that read no state (a price of zero, a
stale or one sided market, a price far from it) are not listed, since the requests
that fail them do nothing.

### BookBuilder, FlatOrderMap (`book_builder.hpp`, `flat_order_map.hpp`)

`FlatOrderMap` is pure: slots, the probe, insertion with growth before six tenths
are full, deletion by backward shift.  `BookBuilder` is one record of the map, the
pool, the levels and `live_orders`, and an operator for each of the four things a
message does to it (`Add`, `Reduce`, `RemoveOrder`, `Replace`), each with the
order of the code's calls.  Any message may come at any time, as after a gap; an
orphan changes only a counter and is no step.  A price level is the set of orders
linked into it and the total it keeps, and a missing level is distinguished from an
empty one.  `Rest` forgets the table, the pool and the levels, and
`MessagesMeanWhatTheySay` compares what each message does to it with what the feed
says; `FeedIsObeyed` says that it holds in every reachable book.

Abstracted: the queue of one price is a set (nothing in this program matches
orders), which storage the pool hands out next, volume totals, the messages that
touch no order.  A reference of zero is not in the model: the map refuses it, and
`on_add` ignores that the map did.


### FeedPipeline (`tools/tickerplant_pub.cpp`, `tools/tickerplant_rx.cpp`)

The composition: it EXTENDS `Sequencer`, so the arbitrator in it is the whole one, and
puts the two processes around it.

| code | action |
|---|---|
| the store of a message before it is appended | `Store` |
| `try_append`, `flush_packet` when the batch is full or the message does not fit | `AppendMessage`, `Flush` |
| the last flush, the wait for what is held back, the end of session, the stop | `LastPacket`, `Drain`, `End`, `Stop` |
| `RetransmitServer::serve` | `Serve` |
| `main` opens the session: `seq.reset(1)` | `StartSession` |
| one turn of `run_loop`: line A, line B, the unicast socket, poll and request, idle exit | `ReadLine`, `ReadAnswer`, `NothingToRead`, `EndTurn` |
| the wait of a receive call, and the instants read after it | `Clock` |
| `handle`, `on_message`, `on_retransmit` for each block of a packet | `GiveToArbitrator` |

`Flush` draws, for each packet and each line, whether it is lost; whether the packet is
held back for both lines (reordering) or for line B alone (skew); and how many of the
packets held back earlier are due now.  Requests and answers are datagrams too: an
answer may be lost, it stops at the first message the store no longer has, and at what
one packet holds, so a request can be answered in part.

The arbitrator starts a session at sequence 1 before the loop looks at a line
(`StartSession`), so whatever the head of the session loses, or one line has late, is a
gap that is held, asked for and stepped over like any other; the lines may have packets
on them before that.

The receiver's clock moves while its loop is in a receive call, at most `Wait` ticks for
each call, and each call that returns a datagram is followed by another of the same line.
So `Wait` is what tells the receive strategies apart: 200 ms when the socket blocks
(`tools/tickerplant_rx.cpp:660`), 10 ms for epoll and kqueue (`receive_strategy.hpp:329`
and `:411`), next to nothing for one that spins; a thread that the operating system puts
aside is in `Wait` too.  A call may also return at once.  The rest of a turn takes no
time: the code reads the clock once after the lines are drained, and gives that instant to
the answers, to `poll` and to the idle time.  A receiver with one line is one whose
line B carries the end of the session and nothing else.

### RecoveryClient (`recovery.hpp`)

The queue of ranges with deadlines, attempts and the doubling timeout.  The caller is
the one the class asks for, which names every gap once and in ascending order; the
server answers any request ever sent, late, twice or from the front in part.  No tool
uses the class; its tests do.

### ReceiveRing (`receive_strategy.hpp`)

`IoUringStrategy::receive` in its steps (release what was handed out, peek, wait, reap,
arm), with the kernel completing receives between any two of them, in any order and
with errors.  The slots' data is who owns them.

### TradeLoop (`tools/tickerplant_trade.cpp`, `strategy.hpp`)

One feed message is one step, because the loop is one thread and nothing else runs: the
market's trade against our resting quotes, the halt, the quoter's decision (guards,
micro price, inventory skew, rounding, backing off, inventory cap, threshold), the
cancels, the two risk checks, the submissions, and the drain of the fills, in the code's
order.  The risk engine in it is what the loop tells it and what it answers about
exposure; `RiskEngine` has the rest.  The venue's matching engine belongs to another
project and is modelled from what `Venue` does with it: price and time priority.

### OuchOrder, TokenGenerator (`ouch.hpp`)

`OuchOrder` is `ClientOrderState` between two streams and an exchange, which the
repository does not contain and which answers as the message comments of `ouch.hpp` say:
partial and unsolicited cancels, entries accepted for fewer shares or dead, an Accepted
sent again after a connection failure, and the Executed that arrives after a Canceled that
crossed it (`ouch.hpp:1120-1126`).  There are two of the last.  `VenueCrosses`: a fill and
a Canceled of shares it left arrive in the other order.  `VenueFillsLate`: shares that the
Canceled which ended the order had taken off execute after all, so that the client is told
of a fill of a terminal order, which it counts as an orphan and adds to its total all the
same.  Shares that a Canceled takes off an order that goes on do not execute later: its
decrement is what it says.  `TokenGenerator` is the prefix, the counter in a
fixed number of digits, and the capacity computed in a word that overflows.  `Power` is
what the loop of `pow36` multiplies up, `Pow36` what it returns.

### BookSide, PoolResource (`book_side.hpp`, `pool_resource.hpp`)

Both layouts of a side run under the same calls; the search by halving is the first
level the price does not come after.  The pool numbers its memory byte by byte, and the
links of its free lists lie inside the free blocks, where a caller's write would hit
them.

### WireBytes, ItchWire, OuchWire, MoldWire, ItchFile

These are about bytes that survive from one use of a buffer to the next, and lengths.
In `ItchWire` and `OuchWire` a byte is opaque: it remembers the message, the field and
the position it was written for, so a field at a wrong offset, in a wrong width or order,
or a byte no store reaches is visible in what the other side reads.  Conversions are
modelled by what they do (`bswap`, narrowing, six byte timestamps, padding of names).
In `MoldWire` bytes are small numbers, since the receiver computes with counts and
lengths; a byte of two values makes a block of three bytes the largest its length can
say.  `ItchFile` is the reader's buffer, whose bytes are offsets of the file.


## 4. What is checked

| run | instance | shows |
|---|---|---|
| `sequencer_window` | 4 slots, 10 numbers, a wide payload, 2 attempts, requests of at most 2 | order, exact window, completeness, truthful state, exact requests; a held message is never thrown away by a slide; the counters are exact |
| `sequencer_feed` | 2 slots, 5 numbers, one reset, grace and timeout of 2 ticks, 2 attempts | the arbitrator implements `OrderedFeed`, and what is held is eventually released |
| `feed_pipeline` | 4 messages of which 2 are large, batches of 2, a store of 2, one packet held back, 2 attempts, receive calls that wait up to a tick, an idle exit after 4 | nothing is sent, held back or asked for that is not stored; the end of the session comes last; a receiver that leaves with messages held is Stale and had no time for more |
| `lock_free` | the seqlock: 1 writer, 1 reader, 2 words, 3 stores; the queue: 1 producer, 2 consumers, 2 slots, 3 pushes, words of 16 starting at 15 | no torn snapshot is accepted, and the reader comes to hold the last value; every call of the queue returns, and what is pushed is popped |
| `risk_engine` | 2 symbols, 3 orders on a table of 4 slots that collide across its end, 2 sizes, 2 prices, 2 sets of limits, 2 buckets | exposure is exactly that of the open orders; limits hold if everything fills; no two own orders cross; every order is found; the limiter's laps do not mix; a tripped switch stays tripped and lets exposure only shrink |
| `components` | twelve components, one per behaviour, see below | what each of them promises |
| `rate_window` | the code's 10 buckets of 2 ticks, a limit of one message | a disagreement, see 7 |
| `book_reuse` | the books, and a replace may name a reference that rests | a disagreement, see 7 |
| `retransmit_race` | 2 slots, 4 messages | a disagreement, see 7 |
| `uring_deaf` | 3 buffers, a caller that takes up to 4 | a disagreement, see 7 |
| `trade_loop` | one symbol, 4 tops of book, quotes of 2 shares | a disagreement, see 7 |
| `tail_lost` | 2 messages, each a packet | a disagreement, see 7 |

**The parts of `components`.**  They share no state, so one run checks them side by
side: the initial state chooses the component and every later step is that
component's.  The state space is the sum of theirs, not the product.  The parts that
are proved about keep their own variables, which rest in the other parts, so their
properties are stated as the theorems state them; the three wire formats share
`s1` to `s6`, and their properties say which part they are about.

| part | instance | property |
|---|---|---|
| books | 4 references that collide in tables of 2, 4 and 8 slots, storage for 3 orders, 2 prices, 2 sides, 2 sizes | `LevelsAreTheOrders`, `FeedIsObeyed` (of the first, empty book the assumption `FirstMessageIsObeyed` of `MCComponents`, which TLC evaluates once), `EveryReferenceIsFound` |
| queue | 2 producers, 2 consumers, 2 slots, 3 pushes, words of 16 values starting at 15 | `NoDataRace`, `FifoPerProducer`, `Conserved` |
| itch | any two messages of the 23 types into one buffer, a ticker that is padded and one that is cut | `DecodersAgree`, `MessagesSurvive` |
| mold | a buffer for two blocks, bytes of two values, messages that are empty, full and too long, datagrams cut or with bytes behind | `PacketsSurvive` |
| ouch | any two messages each way into one buffer | `OrdersSurvive` |
| reader | up to three frames that fill, straddle and overflow a buffer of 6, cut anywhere | `FileIsReadWhole` |
| recovery | 4 numbers, requests of at most 2, a queue of 2, 2 attempts | `EveryGapIsSettled` |
| ring | 3 buffers, a caller that takes up to 4 | `BuffersHaveOneOwner` |
| sides | 4 prices, either side | `LayoutsAgree` |
| pool | 2 size classes, 2 chunks whose tail is too small, blocks from upstream, 4 live blocks | `BlocksAreDisjoint` |
| order | 2 shares, 2 messages in flight each way | `ClientSeesTheOrder` |
| token | digits of two values, tokens of 4 characters, a word of 8 | `TokensAscendUntilExhausted` |

**Bounds.**  Ten numbers on a ring of four reach a full window, a slide by one and
by several, a slide that drains into the message, a jump past two windows (which
needs at least eight) and a second lap of every slot; two numbers per request make
a hole wider than a request can name; `Wide` is inside the first window and can be
met in order, ahead, and again as a duplicate, and `MaxDropped` only stops a wide
payload from being counted for ever.  The run with resets has a ring of two so
that the window of one session is full when the next begins.  With two slots and
three pushes the queue is full, meets a slot of the next lap, and wraps after the
first push: position 15 is the last of the word.  A word has to be a multiple of
the capacity and more than twice the number of items for the signed difference to
mean anything, as 2^64 is.  Three stores let a copy span two of them and let a
reader hold a value that is two stores old; a reader of a seqlock writes nothing that
another thread reads, so one is as good as many.

For the risk engine two sizes make partial fills, partial cancels and overfills; two
of the tokens probe from the last slot and one from the first, so clusters wrap and
deletions shift entries across the end; one set of limits binds on the position, one
on the number of open orders, and both can be swapped when nothing is open.  Two
buckets and three ticks give the limiter a second lap.  For the books four references
against storage for three exhaust the pool; the table starts at two slots so that
it grows twice with entries in it.

In the pipeline four messages on a window of four never overflow it; that is what
`sequencer_window` is for.  Two large messages make a packet that closes early and an
answer that ends early; a store of two has lost the first message when the fourth is
sent, so a request can go unanswered until the attempts run out and the feed is Stale;
one packet held back is enough to be overtaken by the next and by the end.  Every message
can be the one that is lost, the first included.  Calls that wait a tick, against
a grace period and a timeout of one, let two timers run out between one poll and the next;
the idle exit after 4 ticks is the shortest that still gives one hole up, and too short
for the second: receivers that leave with messages held are among the states (with 3 ticks
TLC finds one that is not Stale).  Two
messages into one buffer are all that a stale byte needs.  In the order part two
shares make every fill partial or whole and two messages in flight let a fill cross
the request and the answer to it, and a Canceled overtake a fill.  The token's word of eight overflows where the
code's 2^64 does, before the digits run out or after.

Prices, storage (two of the three places of it in `components`), symbols, two of the
tokens of the risk engine and threads of one role are interchangeable and reduced by symmetry; no liveness is checked in those
runs.

**Deadlock** is checked in `lock_free` and `risk_engine`, where a caller may
always call again, and switched off where the system may stop: a finite set of
numbers is used up and the clock of an idle arbitrator has nothing left to count;
the publisher ends its session and the receiver leaves; a file is read to its end, an
order is dead, the bounds on packets, pushes and tokens are reached.

**Fairness.**  The receive loop calls `poll` on every turn whether or not anything
arrived, and the clock moves: weak fairness of `Poll` and of `Tick`, none of any
arrival.  For the queue: no thread is stopped inside a call for ever, a weak
exchange that can succeed does not fail spuriously for ever, and a store becomes
visible to a thread that keeps loading in the end (the standard asks for that "in a
reasonable amount of time"); all are strong, since other threads may disable a step
in between, and producers need not call at all.  For the seqlock: the writer does
not stop inside `store`, readers keep loading, and the newest counter is seen in
the end.  The pipeline states no fairness: `HeldAtExitIsLoud` is what its loop
owes without it.

Every property has a mutant in `PROJECT.json`: a plausible slip in the modelled
code (the operators marked "Fault" in the modules) under which TLC finds the
property violated on the same instance.


## 5. What is proved

Eight modules hold proofs; all of them are checked to the last leaf.  What is proved
holds for every value of the constants that the named assumptions allow.

| module | theorems | assumed of the constants |
|---|---|---|
| `RingLemmas` | facts about numbers, rings, induction, recursion and sums that the others cite; open addressing with backward shift, for both tables of the program | nothing |
| `SequencerProofs` | the arbitrator | `SequencerAssumption`: naturals; a ring, an attempt and a request of none are excluded |
| `SeqLockProofs` | the seqlock under the view memory | `SeqLockAssumption`: readers are not the writer, at least one word, and what stands for no value is no number |
| `MpmcQueueProofs` | the queue under the view memory | `MpmcAssumption`: finitely many producers, no thread is both a producer and a consumer, two slots at least, a lap and another fit evenly into the positions, and fewer than half of all positions are pushed in one run |
| `FeedPipelineProofs` | publisher, store, lines and receiver together | `PipelineAssumption`: a batch and a store of at least one message, room in a packet for at least two units and for fewer than the count 65535 that announces the end, a file that fits into `Numbers`, one session to start, a receive call that may take time; and `SequencerAssumption`; for `ExitIsLoud` and `ExitIsEmpty` also `IdleIsLong`, see there |
| `RiskEngineProofs` | the table of open orders and the risk engine | `TableAssumption`: at least one slot, every token's probe starts at one; `RiskAssumption`: sizes and prices are positive, the limit on open orders is below the number of slots, which is how `size_open_order_table` makes it; `VacantAssumption`: the mark of a slot that is not occupied is no order; `RateAssumption`: the ring has buckets, and a bucket is longer than nothing |
| `BookBuilderProofs` | the order map and the books | `BookAssumption`: the map starts with a slot, a hash is a natural, sizes are positive, storage is finite, and no entry, order or level is taken for its absence; and no replace names another reference that rests (`~ ReusesLive`), see there |
| `ComponentProofs` | the components that share no state: one section, one specification and one inductive invariant each | `RecoveryAssumption`: a request, the queue and the attempts are at least one, and the first timeout is no longer than the longest, as the constructor makes them; `OrderAssumption`: the bounds are naturals; `PoolAssumption`: the largest block is a whole number of units and fits into a chunk (`pool_resource.hpp`, its constants); `FileAssumption`: a buffer for a prefix at least, lengths are naturals; `TokenAssumption`: an alphabet of two characters at least, a word of two values at least; `SideAssumption`: prices are integers |

### The arbitrator

- `TypeCorrect`: every variable stays in its type; `pending_` never goes below zero
  and no hole is asked for more often than configured.
- `StreamIsOrdered`: strictly increasing (`StrictlyIncreasing`), and each message with
  its own bytes (`Intact`, which no run repeats).
- `WindowIsExactAlways`: `pending_` is the number of slots in use, each holding its
  own sequence ahead of the front by less than the capacity.
- `NothingIsLostSilently`: a feed that is not Stale has handed over everything
  since the session began.
- `StateIsTrue`: the state agrees with the window, and gaps recovered never
  outnumber gaps detected.
- `RequestsAreExact`: a request names the run missing at the front.
- `ReceivedIsNotDropped`: no step throws away a message the window holds
  (`HeldIsDelivered`), and `CountersAddUp`: the counters of a step are exact
  (`FrontIsAccounted`).  Both are action properties, from `IInv`.
- `Refinement`: `Spec => ImplementsOrderedFeed`.

`FrontIsAccounted` says of each step within a session that `accepted` grows by the number
of messages the sink was handed, and `dropped` by the number of sequences the front passed
that are not among them, and by one more if the step throws a wide payload away.  The proof
is in two halves that meet at the end: each action counts its own releases and the runs
missing between them (`EveryStepAccounts`), and each step downstream, as the refinement has
it, appends a feed of the range that the front passes (`StepAppends`), so what is left of
the range is as many as the feed is shorter than it (`LeftOut`).

The invariant that carries them is `IInv` of `SequencerProofs`.  The properties
are not inductive alone: that a drain hands over intact messages needs the window
to be exact (a slot's bytes are those of the sequence in its header, and no two
sequences of one window share a slot); that the window stays exact needs the
stream's past to lie below the front (`Passed`); that the first message may set the
front anywhere needs an arbitrator that has not started to hold nothing
(`NotStarted`); completeness and the counters need the state to match the window.
The proof has one lemma per action, each with one step per conjunct the action can
disturb; `TickStep` and the polls are short, `HoldStep` is the long one, because the
slide, the drain and the store into a slot just vacated all happen in it.
The first part of `SequencerProofs` says what a drain, a slide and a vacated ring are.  The
refinement is step by step: in-order delivery is `Deliver` or, for the first
message of all, `Join`; a slide, a jump and a skipped hole are `GiveUp`; a message
that is only held, a request and a tick are stutters; a reset is `Start`.

### The seqlock

`NeverTorn` (`NotTorn`) and `SnapshotsGoForward` (`NeverBack`), for any number of
readers, words and stores.  `NotTorn` speaks of a reader that has finished a copy; the
invariant has to say what the orders of the header buy in the middle of one.  Whoever
has seen the counter even at 2k has seen store k in every word: that is the release
store of `EndStore`.  Whoever has read a word of store k has, after its acquire fence,
seen the counter at 2k - 1 at least: that is the release fence of `BeginStore`.  So a
copy begun under 2k holds nothing older than store k, and one that also ends under 2k
holds nothing newer.

### The queue

`NoDataRaceAlways` (`NoDataRace`), `FifoIsKept` (`FifoPerProducer`) and `NothingIsLost`
(`Conserved`), for any number of producers and consumers, any ring and any width of a
position, wherever the positions start, although every load but that of the exchange
may be stale and the exchange may fail for no reason.

The code compares words that wrap; the proof counts offsets from `Start` that do not.
Offset j has the word `WordAt(j)`, and its slot is written in turns: its sequence and its
payload are written for the `Freed(j)`-th time when the slot becomes free for j and for the
`Filled(j)`-th time when j fills it.  Two offsets of a slot are a lap apart, so no two of
them have a turn in common (`TurnsAreOwn`).  `QInv` says that

- the writes to the two positions are the claims, one after the other
  (`PositionsCount`), and no pop is claimed before its push (`ClaimsAreBounded`);
- the n-th write to a slot's sequence is the word of its n-th turn (`SlotsTakeTurns`),
  and carries at least the n-th use of the payload (`TurnsRelease`): that is the release
  store;
- a thread that goes on to the exchange has seen the turn it waited for and the use before
  it (`ClaimersHaveSeen`): that is the acquire load.

The exchange then decides everything.  A stale sequence could be that of a lap long gone;
but the position is not stale there, so the offset is the next to be claimed, so nobody
has had the slot since the turn that was seen, so that turn is the newest and the payload
use that came with it is the last (`ClaimFinds`).  Until the release store the slot is the
claimer's (`OwnersHaveTheTurn`, `OwnersDiffer`).  The assumption that a run pushes fewer
items than half of the positions (2^63 in the code) is needed where two words are
compared as a signed difference, and only there.

`ItemsInv` adds the items, in terms of the histories of the payloads: the
`Filled(j)`-th write to a slot is the item of j, it is `In` once that write is there and
`Out` once the next is.  A pusher's items ascend with the offsets because a claim comes
after all earlier ones (`PushersAreAhead`), and a popper's for the same reason
(`PoppersAreAhead`).  TLC checked `QInv` and `ItemsInv` on two producers, two
consumers, two slots and three pushes across the wrap (391,820 states) before they were
proved.  A thread that both pushes and pops is two threads here, each of which
knows less than the one does.

### The pipeline

- `SentIsStoredAlways`, `EndComesLastAlways`: the safety properties of the run
  `feed_pipeline`.
- `ArbitratorInPipeline`: the receive loop of `tools/tickerplant_rx.cpp` drives the
  arbitrator only as its own specification allows, `PipelineSpec => Spec`.
- `StreamInPipeline`: so what is proved of the arbitrator alone holds at the end of
  the pipeline, where messages come in packets of the publisher and of its
  retransmission server, and more: as the session was opened at 1, a feed that is not
  Stale has delivered exactly the messages 1 to `expected` - 1.

`PInv` is the arbitrator's `IInv` with three parts of its own.  `StoreIsAhead`: the
store is up with the publishing loop, and what the builder holds came before.
`AllStored`: whatever moves (held back, on a line, asked for, answered) and whatever
the arbitrator holds names nothing past the last number stored.  `EndIsEnd`: an end of
the session is on a line only once nothing is held back, and nothing follows it there.
TLC checked `PInv` on the instance of `MCFeedPipeline` before it was proved.

- `ExitIsLoud`: `HeldAtExitIsLoud`, when `IdleIsLong` holds.
- `ExitIsEmpty`: a receiver that leaves holds nothing, when besides
  `IdleExit + Turn >= GivesUpAfter + Holes`.

The loop leaves when nothing has come for `IdleExit`, and nothing in it looks at what
is still held behind a hole, which has been received and is not delivered.  A quiet feed
empties the ring by the clock alone, but only `poll` acts on the clock, and there is one
poll for every turn: a timer of n ticks is seen after `Noticed(n)`, up to a `Turn` less
one later.  `GivesUpAfter` is what the grace period and the attempts of one hole take in
this way, and `IdleIsLong` asks that the idle time is no shorter and the timers at least
one tick.  Then the receiver never leaves a Gap or a Recovery behind: what it
still holds it holds in a feed that is Stale, which ends the process with an error
(`tickerplant_rx.cpp:751-754`).  And each further grace period, as a poll notices it, has
released at least one message (`HoleLetsGo`), so the number still held is bounded by the
time that was too short.

`ExitInv` carries this.  `Soon` bounds the ticks until the next poll that changes
something, `Later` those of the attempts still to be made, `Behind` those of the holes that
may follow; `InTime` says that with the idle time they never come to more than they can at
first.  `TickShortens`: a tick takes one off `Soon`.  `PollShortens`: a poll that was due
takes off what it waited for, in each of its four branches.  The ring holds less than its
size, because the slot of `expected` is free (`PendingFits`).  TLC checked `ExitInv`
on the instance of `feed_pipeline` (1,743,040 states) and with a longer idle time (2,212,908).

At the receiver's defaults (a grace of half a millisecond, three attempts of fifty, a
window of 4096, an idle exit of three seconds: `tickerplant_rx.cpp:91`,
`sequencer.hpp:78`) `GivesUpAfter` is about 1.8 seconds even when a turn takes the 400 ms
of two blocking reads, so `ExitIsLoud` covers every strategy.  `ExitIsEmpty` covers
turns of up to 0.19 ms: a loop that spins delivers all it holds, while one that blocks, or
waits its 10 ms in epoll or kqueue, may leave messages held, one per hole, which it then
does as Stale.  All of these are options of the command line, and nothing compares
them.  The instance of `feed_pipeline` meets `IdleIsLong` with equality, and not the
condition of `ExitIsEmpty`.

### The two tables

The risk engine and the book each have an open addressing table with a backward shift, in
code of their own.  The last part of `RingLemmas` is Knuth's algorithm R for every number of slots and
every hash; the two proof modules show that their table is one of those it speaks of
(`TableFacts`, `LayoutFacts`), and so is the test of each whether an entry may move, which
the two write differently.  A table is sound when no two entries share a key and every
slot on the way from the start of an entry's probe to the entry is occupied; `FindFacts`
and `InsertFacts` say that a probe then finds what is there and nothing else.
`EraseFacts` is the deletion.
Its invariant (`Walked`) counts slots from the one that is erased, so that the cluster
does not wrap and the two halves of `movable` become one (`Rotation`); it says that
the cluster has one hole, that each entry behind the hole has its home behind it too,
and that an entry has not passed the end of the cluster or has come round the whole
table to where it is.  `EraseKeepsTheRest` is the outcome for the open orders: the
erased token is not found, every other is, with its own entry.

`Weight` is the sum over the slots of what each entry counts for.  An entry that comes,
goes or moves changes a weight by what it weighs, and so the tallies of the engine can
be followed through an insertion and a deletion that moves half a cluster.

### The risk engine

`RInv` of `RiskEngineProofs` says that the table is sound, that `open_orders_` and
the tallies of each side are weights of the table, that fewer orders work than there
are slots, and that the best price kept for a side is a bound on every order of it
(not that it is one of them: the code does not correct it when an order goes).  From it:

- `NoChainIsBroken` (`EveryOrderIsFound`), `TalliesAreExact` (`ExposureExact`),
  `WorstCaseIsWithinLimit` (`WorstCaseWithinLimit`), `OwnOrdersNeverCross`
  (`NoSelfCross`), and the action property `KillSwitchStopsOrders`
  (`KillSwitchHolds`).

None of the five is inductive alone.  `RateWindowIsHonest` (`WindowIsHonest`) is the
limiter's, below.  The check against our own best price is only
right because the bound is kept; the bound may be cleared with the last order of a side
only because the tally says truly that it is the last; the shares of that side may be
set to zero there, as `retire` does, only because they are what the table weighs; and
an order that passed the checks has a slot only because the count that is compared with
the limit is the number of entries.  `RInv` was checked by TLC on the instance of
`MCRiskEngine` before it was proved.

The limiter keeps a ring of buckets, each with the number of the tenth of a second it
counts; a bucket is cleared only when `record` comes round to its slot, and `count_at`
passes over the old ones.  `RateInv` says what a slot means: it counts exactly the
messages sent in the tenth its number names (`Kept`), that number belongs to the slot and
is not ahead of the clock, and no message was sent later than its slot's number says.  So
the sum over the live slots is the number of messages in the tenths of the window,
however long the engine was silent: the sum over slots is turned into a sum over times
(`LiveBucketsAreHonest`, with `SumOfParts` of `RingLemmas`), and two numbers of one slot
are laps apart (`LapsAgree`), so at most one of them is in the window.  TLC checked
`RateInv` on the instances of `MCRiskEngine` (382,960 states) and `rate_window`
(14,872) before it was proved.

### The books

`ReferencesAreFound` (`EveryReferenceIsFound`), `LevelsShowTheOrders`
(`LevelsAreTheOrders`) and `MessagesAreExact` (`FeedIsObeyed`), for any
references, symbols, prices and hash, any storage and any initial capacity of the map.

What the book needs to know of its table is which object each reference leads to
(`Leads`).  An insertion gives one reference a new object, a deletion takes one away,
growth changes nothing, and each leaves the table sound with its count right and a slot
vacant (`InsertMapFacts`, `EraseMapFacts`, `GrowFacts`); `InsertAnswers` and
`EraseAnswers` say the same of `find`.  Growth and the walk of a deletion are recursive
functions in `FlatOrderMap`, and the proof takes from each only its equations
(`Recursion` in `RingLemmas`) and an invariant along the way: after n slots the new
table has exactly what the first n slots of the old one led to.

`BookInvariant` says that the table is sound, that every reference that rests leads to an
object of its own with an order in it, that the pool has no other orders, and that the
levels and the count are what these orders make them (`Shown`).  The properties are parts
or consequences of it, and each needs the others: taking an order off its level is only
right because the level is there with the order in it, dropping the level only because
its orders are then none, and giving the storage back only because no other reference
leads to it.  The levels are followed on their own, as a function of two functions of
the references, with no table and no pool in it: `ShownWithout`, `ShownAlso` and
`ShownLess` are an order going, coming and shrinking.  `RemoveFacts`, `PlaceFacts` and
`ReduceFacts` are the operations; each proves both that the invariant is kept and what
becomes of `Rest`, so `MessagesAreExact` follows from it with nothing more to show.

A replace that names a reference of another resting order breaks the invariant, in the
code too (`book_reuse`, section 7), and is excluded by `~ ReusesLive`, as it is in the run
`components`.  Every other message is covered, whatever order it is about and whatever
came before.

### The receive ring

`BuffersHaveOneOwnerAlways` (`BuffersHaveOneOwner`), for any number of slots and any
batch, although the kernel completes receives between any two steps.  `RingInv` says the
same in a form a step can be followed in: no two completions name one slot (in place of
counting them), and the armed, the completed and the handed out slots are three sets
with nothing in common, whose union is what `inflight_` marks.  The code arms only slots
that are not marked, and that is right only because the union is exact: a slot in the
caller's hands stays marked until `release_handed_out`.

### The recovery client

`EveryGapIsSettledAlways` (`EveryGapIsSettled`), for any limits and any timeouts, and a
server that answers any request ever sent, at any time, from its front.  It is far from
inductive.  `RecoveryInv` needs that the ranges of the queue ascend (`EntriesAscend`), so
that an answer or a retry is about one range and the first to retry has the spent ones in
front of it; that each number of a range was asked for as often as the range says it was
tried (`SoundEntry`), so that a range given up was named by exactly `MaxAttempts`
requests; and that no request ever sent starts in the middle of a range.  The last is
what makes `on_response` right, which takes an answer off the front of a range and never
splits one: a range that is trimmed begins where the answer ended, and every older request
then begins before it.  The scan erases ranges from the middle of the queue, and what
is left is described by the order of their places (`Kept`, with `Rank` of `RingLemmas`).

### The client's view of an order

`ClientSeesTheOrderAlways` (`ClientSeesTheOrder`).  The property compares the exchange's
order with the record the client will have once it has read every answer under way
(`Caught`), a recursion over the connection.  It says that the shares filled are those
that executed, whatever crossed; that without a resent Accepted the shares that work and
the end of the order agree too; and that an orphan, or a fill of more than the working
shares, is counted exactly when shares that the last Canceled took have executed after all
(`late`), and never for a fill and a Canceled of other shares in whichever order they
come.  Two lemmas carry it through every step:
an answer appended is one more step at the end (`Replay` of a longer list), an answer
read is the first step done already.  What remains is what the client's own calls
do to a record that is still to be replayed: `on_cancel_sent` and `on_replace_sent`
change only the state, and the answers under way say it again.  `OrderInv` therefore says
where an order can begin (`Beginnings`, `RequestsInOrder`), that the first answer to a sent
order is Accepted or Rejected and still ahead (`FirstAnswerAhead`), that a live order has
shares and a dead one none (`VenueWorks`), and that an Accepted sent again has been counted as an illegal
transition or will be (`ResentIsSeen`): until it is seen, the record may be off,
and from then on the client knows it.

### The pool

`BlocksAreDisjointAlways` (`BlocksAreDisjoint`), for any granularity, any largest
block, any chunk that holds it, any number of chunks and any requests.  The links of the
free lists lie inside the free blocks, so a list is sound only as long as nobody writes
to them, and nobody does only as long as the list is sound.  `PoolInv` cuts this with two
functions the program does not have: `kind`, the class of every block carved so far by its
address, and `depth`, the place of a free block on its list counted from the end.  With
them a list is not walked at all: the head is the deepest, each link goes to the block one
less deep, and no two blocks of a class are as deep as each other (`Lists`).  The
property does walk it, and the proof shows that the walk visits the blocks of the class
and no others.  `Laid` says that carved blocks and the part still to be carved lie apart
in single chunks, `HoldsOnce` that callers hold carved blocks that are not free.
Each of the four operations says how the two functions change.

### The file reader

`FileIsReadWholeAlways` (`FileIsReadWhole`), for any file, any buffer that holds a
prefix, and reads that return any number of bytes.  `FileInv` says that the unread part
of the buffer is an unbroken stretch of the file that ends where reading has got to
(`Window`), and that the reader stands where the next frame starts (`AtNextFrame`).  Both
are needed at once: the two bytes at `pos_` are the length of a frame only because they
are the bytes at the start of one, and the reader stays at a start only because the
length it adds is that frame's.  That a byte offset is the start of one frame only
needs the totals of the lengths to grow (`StartOf`, a recursion on the frames).

### The tokens

`TokensAscend` (`TokensAscendUntilExhausted`), for every alphabet, length of a token,
prefix and width of the counter.  `TokenInv` says that what was issued are the digits of
consecutive values of the counter, the last of them below the number of tokens the width
has.  The rest is arithmetic of digits: of two consecutive numbers the later has, at the
last digit that is not the largest, one more, and the same digits before it.  Two facts
make `exhausted()` tell in time: `Pow36` is the power as long as that fits a word, and
when it does not, no counter in a word can reach it.

### The two layouts of a book side

`LayoutsAgreeAlways` (`LayoutsAgree`), for any set of integer prices.  `SideInv` says that
the vector is sorted best first with no price twice, and that the tree has the same
levels, price by price.  So the search by halving stops at the level or where it would
be (`LocateFacts`), and a price it does not find is not in the tree (`AbsentFromBoth`).
The walk of the tree is by rank: the level at place i is the one with i - 1 levels before
it, which in a sorted list is the one at index i (`WalkIsTheList`).

TLC checked each of these invariants on the instances of `components` before it was
proved: `RingInv` on 1,475 states, `RecoveryInv` on 7,676, `OrderInv` on 61,810,
`PoolInv` on 4,256, `FileInv` on 3,788, `TokenInv` on 70, `SideInv` on 512.

### Ways round the prover

Sums and counts over a set are folds, which the provers cannot expand, and the library's
induction takes an operator as a parameter.  `RingLemmas` has induction over numbers and
over the subsets of a finite set in a first-order form (a set that is closed under the
step), and from it what a sum is when an element comes, goes or counts for nothing, and
that a function defined by recursion on a range of numbers satisfies its equations.

### Only model-checked

- All liveness (`HeldIsReleased`, `ReadersCatchUp`, `EveryCallReturns`,
  `NothingStranded`): fairness and ENABLED are out of the prover's reach.
- `DecodersAgree` and `MessagesSurvive`, `PacketsSurvive`, `OrdersSurvive`: what a decoder
  reads from the bytes a writer left, for every length it can be given.  `MessagesSurvive`
  and `OrdersSurvive` fix the answer both ways: a span that holds the whole message is
  accepted, with every field and the length used as written, and a shorter one is refused
  with no call made.  Each is a statement about every field of every
  message type at its offset, that is, about data of fixed size that TLC enumerates as it
  is in the code (23 ITCH messages, all OUCH layouts), so a proof would only repeat
  the layouts; the walk over the blocks of a MoldUDP64 packet is a recursion over its
  bytes, which is induction over data.
- The trading loop, whose run is a disagreement (section 7).
- The disagreements of section 7 are counterexamples and stay with TLC.

The proofs also leave with TLC that every action can happen: the runs fire every one of
them.


## 6. What is not modelled, and why

- Sockets (`udp_socket.hpp`): options and joins, no state between calls.  A receive
  strategy other than `IoUringStrategy` hands out what one system call returned.
- The synthetic feed: a generator of test input; what it writes goes through the
  writers of `ItchWire`.
- The symbol table: a flat array with a linear find.
- Measurement and environment (clocks, histograms, allocation counting, pinning, the
  manifest), the replay tool, benchmarks and scripts: nothing depends on them.
- In the receiver: the stamps.  The arrival time of a message is written before
  duplicates are dropped (`tools/tickerplant_rx.cpp:363`), so the later copy of a message
  that is held moves its stamp; only a histogram reads it.
- In the publisher: pacing, which decides when a packet leaves and not what it is.
  `FeedPipeline` leaves every delay open.
- In the books: volume totals of executions, hidden trades and crosses, the session,
  directory and halt messages, and the order of the queue at one price (nothing in this
  program matches orders).
- In the readers of files: the decompressor, beyond that it may return fewer bytes than
  asked.
- Statistics throughout, unless a decision reads them.


## 7. Disagreements between code and comments

`retransmit_race`.  The publisher's main thread calls `store` while the server
thread calls `fetch`, with neither a lock nor an atomic between them
(`tools/tickerplant_pub.cpp:448` and `:178`).  `store` overwrites a slot's bytes
before its sequence (`recovery.hpp:242-248`) and `fetch` compares the sequence
before it copies (`recovery.hpp:256-264`), so a request for a message exactly one
ring behind can be answered, under its own number, with the bytes of the message
being stored, or with half of each.  The comment at `recovery.hpp:220-223` says that
this is the failure being avoided.  TLC finds it in a few steps.

`rate_window`.  The limiter counts the current bucket of a tenth of a second and the
nine whole ones before it (`risk.hpp:251-262`), so a message sent at the end of one
bucket is forgotten at the start of the tenth after it, up to a tenth of a second
early.  The comment at `risk.hpp:235-237` says that it "never lets more than the limit
through in any one second", and calls that the conservative direction.  What does
hold is `WindowIsHonest`.

`book_reuse`.  When a replace names a reference that already rests, `on_replace`
lets the map overwrite it (`book_builder.hpp:413`): the order that had it stays on its
level and in the pool where no message can reach it, and no counter moves.
`book_builder.hpp:42` says that every illegal transition is counted, and `on_add`
abandons the old order in the same situation "rather than leaked" (line 280).


`uring_deaf`.  `receive` gives the buffers of the last batch back first, and returns from
a wait that timed out at `receive_strategy.hpp:566`, before `arm_free_slots` is reached at
line 606.  A caller that was handed every buffer at once (the receiver asks for 64
from a ring of 32), or a ring all of whose receives have failed, then has nothing armed
and nothing completed: its next call times out and returns, and so does every later
one.  The comment above `arm_free_slots` (lines 626-628) says that the kernel always has
somewhere to put the next datagram.

`trade_loop`.  The drain at `tools/tickerplant_trade.cpp:418` reports every fill under the
token of the quote that is live now.  A quote that filled and was replaced in the
same message, or that filled in two parts, is booked under a token that is another
order's or no longer working, and the risk engine's position is not the one that was
traded.  The comment above it says that both the next quote and the next check see the
position that actually exists.

`tail_lost`.  The end of session packet names the next sequence and the receiver only
counts it (`tools/tickerplant_rx.cpp:350`), so when the last packet is lost on both lines no
gap is ever noticed, the feed is Synced, and the process exits with 0.  Line 751 says
that unrecovered loss is loud.

One more line does not hold, and a proof says so instead of a run.  `sequencer.hpp:470-471`
has it that `messages_dropped` "means exactly one thing, the number of sequences this
object will never hand downstream".  Of a payload wider than a slot it does not: one that
arrives ahead of the front is counted when it is thrown away (line 325), again each
time another copy of it is, and once more when the front skips its sequence (line 501); and
a copy that arrives in order is handed over all the same.  What the counter does mean is
`FrontIsAccounted` (`CountersAddUp`), which is that sentence when no payload is too wide.

Two more observations, which no line of the repository contradicts and which therefore
have no run.  Quotes are cancelled at the venue without a word to the risk engine
(`tools/tickerplant_trade.cpp:344`): the shares of a cancelled quote stay in its working
exposure, and after enough requotes its limits deny every order.  And a fill that
arrives while a replace is pending overwrites the pending state (`ouch.hpp:1222`), so
the Replaced that follows is counted as an illegal transition although both sides did
nothing wrong; `ClientSeesTheOrder` shows that the shares and the end of the order are
right all the same.
