# TLA+ models of hft-rtl

hft-rtl takes a Nasdaq TotalView-ITCH feed in MoldUDP64 framing one byte per
clock, keeps a limit order book for each of 16 symbols, and turns book updates
into OUCH orders. It exists twice: as SystemVerilog (`rtl/`) and as a sequential
Python golden model (`model/`), and the repository's own argument for its
correctness is that both produce the same trace on recorded data and that the
design survives a damaged stream. These modules make that argument over all small
inputs, all interleavings of pipeline stages and all reset points, prove the
central parts of it for every size, and check the tools that carry it out: the
dump, the harness, the comparators and the fuzzer.

## 1. Inventory

One clock drives the design; every stage registers its output, so an edge moves
each stage one message, operation, update or byte further. `rst_n` may fall at
any edge, and memories keep their contents.

| Component | State | Operations | Talks to |
|---|---|---|---|
| `rtl/mold_framer.sv` | field state and counters, `expected_seq`, `first_pkt`, `gap_count`, `malformed_count`, `end_of_session`, output byte | one byte in | bytes with `out_last` to the decoder |
| `rtl/itch_decoder.sv` | 40-byte buffer, saturating byte counter, message register, `unknown_count` | one byte in | message to the router |
| `rtl/book_router.sv` | FSM (`S_CLEAR`, `S_IDLE`, `S_LOOK`, `S_INS`), request, probe, hashed table with tombstones, read port with bypass, `drop_count`, `table_full_count`, `occupancy` | ADD, EXEC, CANCEL, DELETE, REPLACE, SYSTEM, clear sweep | operation to the books; no back-pressure to the decoder |
| `rtl/price_book.sv` x16 | top-8 levels per side, snapshot register, three counters | OP_ADD, OP_REDUCE | snapshot to the mux |
| `rtl/itch_book_top.sv` | byte gate `swept_q`, mux select | wiring, gate, mux | `in_ready` outwards, updates to the strategy |
| `rtl/strategy_imbalance.sv` | per symbol: imbalance state, cooldown; intent register | one update in | intent to the gate |
| `rtl/risk_gate.sv` | positions, one spacing counter, five counters, order register | one intent and/or one update in | order to the encoder |
| `rtl/ouch_encoder.sv` | FIFO of 4, token counter, serializer | push, pop, byte out | bytes on the wire |
| `rtl/tick_to_trade_top.sv` | none of its own | wiring | all of the above |
| `model/book.py` | lists of levels, dictionary of orders, counters | `on_message` | called by `dump_trace.py` |
| `model/strategy.py`, `risk.py`, `ouch.py` | states, counts since firing and accepting, positions, tokens | `on_update`, `on_intent`, `encode` | called by `dump_trace.py` |
| `model/itch.py` | none | `parse_message` | |
| `model/moldwrap.py` | batch and sequence number of the writer | `add`, `close`, `wrap` | packets to the framer in a replay |
| `model/dump_trace.py`, `binaryfile.py` | message count, the two trace files, the writer | one pass over a capture | files to the harness and the comparators |
| `tb/replay` | boundary count, watchdog, fuzz accounting, order reassembly | one cycle | attributes updates to messages, writes traces |
| `model/compare_traces.py`, `compare_orders.py` | positions in two files, counts of matches and differences | one line of each | exit status to `run_replay.sh` |
| `model/fuzz_stream.py` | damaged messages, packets | build a stream | stream to the harness |
| `scripts/run_replay.sh` | files | dump, replay, compare | |

### What is hard about it

- **No back-pressure.** The router may walk for 16 cycles and takes no message
  meanwhile; only the length of messages on the byte feed keeps that from
  losing one. The clear sweep after reset takes the whole table.
- **Open addressing with deletion.** A freed slot must not cut the probe chain
  of another order; REPLACE frees a slot on the edge that starts the next walk.
- **One cycle of difference.** The mux selects by the operation of the edge
  before, the gate judges an intent on an edge that may bring the next update,
  a full FIFO takes a push on the edge of a pop. The golden model knows none of
  these coincidences.
- **Two representations of one count.** Remaining cooldown against updates
  since firing; saturating against unbounded; fixed shift registers against lists.
- **A position that is not on the wire.** The gate counts an order it accepts; the
  encoder may drop it.
- **An unreliable network.** Packets get lost, repeated and reordered; the
  framer resynchronises, counts and goes on.
- **A test that must not lie.** The harness guesses which message an update belongs
  to from the time it appears; producers raise and are killed in the middle of a
  line; the comparators skip, cap and stop; the fuzzer judges by counters.

`PROJECT.json` lists each hazard with its line and the properties about it.

### What makes each component correct

- Framer: never out of step with packet boundaries; no hole passes unnoticed; no
  alarm on a clean feed.
- Decoder: hands on the messages that `parse_message` does not refuse, of whatever
  length, as the golden book reads them, and never loses its place.
- Router: behaves as a dictionary from order id to resting order, and loses an order
  only when there is no room in its window.
- Book: behaves as the sorted, truncated list of the golden model.
- Book stage: the sequence of updates is that of the golden market model.
- Strategy and gate: state and decisions are the golden model's, event by event.
- Encoder: a bounded queue, frames whole and in order, consecutive tokens, every
  accepted order eventually sent.
- Trade path as a whole: the gate's positions are the shares on the wire, waiting
  or counted as dropped.
- Dump: stream and ordinals are those of the messages it parsed, also when it fails.
- Harness: an update gets the ordinal of its message.
- Comparators: exit with success only if both files deserve it, and report the
  first difference.
- Fuzzer: whatever the damage, the tail is framed, and the verdict is about the tail.

## 2. Modules

| Module | Models | Kind |
|---|---|---|
| `BookRouter` | `book_router.sv`, one step per clock edge | component |
| `RestingOrders` | the dictionary of `MarketModel.on_message` with atomic messages | abstract |
| `TableRefinement` | the mapping from a half-finished walk to that dictionary | refinement |
| `BookDatapath` | the combinational network and registers of `price_book.sv` | operators |
| `PriceBook` | one book under any operations | component |
| `GoldenBook`, `BookContract` | `PriceBook` of `model/book.py`, and it as a specification | abstract |
| `MarketModel` | `MarketModel` of `model/book.py` as operators on a record | golden |
| `ItchBookTop` | decoder register, gate, router, books and mux together | composition |
| `ReplayHarness` | `ItchBookTop` watched by `replay_main.cpp`: boundaries and ordinals; the symbol table of `gen_symbols.py` | composition |
| `GoldenTrader` | `strategy.py` and `risk.py`, called as `dump_trace.py` calls them | golden |
| `TradePath` | `strategy_imbalance.sv` and `risk_gate.sv`, wired | composition |
| `OuchEncoder` | `ouch_encoder.sv` | component |
| `OrderQueue` | the queue it implements | abstract |
| `OuchRefinement` | the mapping from ring and serializer to that queue | refinement |
| `TickToTrade` | strategy, gate and encoder on one clock | composition |
| `MoldFramer` | `mold_framer.sv` | component |
| `MoldPacket` | the packets of `moldwrap.py` and their bytes | operators |
| `MoldStream` | what the framer promises about packets | abstract |
| `MoldLink` | `MoldWriter`, a network with faults, the framer | composition |
| `ItchDecoder` | `itch_decoder.sv`, and `parse_message` beside it | component |
| `FeedPath` | framer and decoder on arbitrary bytes | composition |
| `DecoderFeed` | the same with the golden parser alongside | composition |
| `TraceLines` | the lines of both trace files | operators |
| `DumpTrace` | `dump_trace.py` with the writer: limit, cut records, exceptions, kills | component |
| `Comparator` | `compare_files` and the exit status of both comparators | component |
| `ReplayCheck` | `run_replay.sh`: dump, a replay that may be faulty, comparison | composition |
| `FuzzStream` | `fuzz_stream.py`, the framer, and the accounting of `--fuzz` | composition |
| `ItchBookTopProofs`, `PriceBookProofs`, `FeedPathProofs`, `MoldLinkProofs`, `TradePathProofs`, `OuchEncoderProofs`, `ReplayCheckProofs`, `FuzzStreamProofs` | theorems; `ItchBookTopProofs` also those of `BookRouter`, `TableRefinement` and `ReplayHarness`, `TradePathProofs` also those of `TickToTrade`, `ReplayCheckProofs` those of `DumpTrace` and `Comparator` | proofs |
| `MC*` | constants, refinement mappings and bounded inputs for TLC | instances |

Variables keep the names of the registers. An action is a branch of the clocked
process, or a step of a script between two points where it can fail: its guard
is the branch condition, and it includes everything the code does in that
branch. Definitions marked `mutant` in a comment are deliberately wrong variants
of the definition that follows them; no specification uses them, and each breaks
the property `PROJECT.json` lists it for, which shows that the property depends
on that piece of logic.

### Correspondence and abstractions

- **Router.** `state_q`, `addr_q`, `probe_q` and the counters are the registers;
  `kind_q` .. `side_q` are the record `req_q`; `rd_data` is the bypass mux over
  its registers. Registers that are dead in a state (the request in `S_IDLE`, the
  operation while `out_valid` is low) get a fixed value. The hash is a constant
  function in `BookRouter`; the MC module instantiates it with `hash_fold`.
  Power-up memory is any word of `PowerUp`, live-looking ones included. The
  timestamp is passed through unread and is left out. The 32-bit counters wrap
  at `CountMod`, except `occupancy`, which is an integer so that an underflow
  would be seen instead of wrapping.
- **Books.** A level is `[vld, price, shares]`. Shares are modulo `ShareMod` and
  the feed keeps sums below it (`FitsLevel`): the wrap at 2^32 is declared out of
  reach by the code's comment and would differ from the golden model by design.
  The snapshot register reads as zero while `upd_valid` is low.
- **Book stage.** Framer and decoder are replaced by their output register and by
  the least spacing of messages: `TableGap` before a message that reaches the
  table (21 cycles: a DELETE of 19 bytes and its length prefix, against 16
  probes), `SystemGap` before a SYSTEM message (14). `FeedPath` shows, and
  `MessagesSpaced` proves, that framer and decoder keep that spacing. The feed
  does not reuse the id of a resting order (`FreshId`), as an exchange does not.
- **Harness.** `msgs_seen` is unbounded; `overtaken` holds instead, for each event
  still to be shown, how far the ordinal it would get now is ahead of its own.
  A message is counted at its boundary and an update in the cycle it appears,
  in the order of the loop in `replay_main.cpp`.
- **Golden models as history.** `golden` and `expected` (or `owed`) run the Python
  code on the messages in order; the hardware is compared with them at each edge.
  `updates_since_accept`, unbounded in the code, stops at `MaxSinceAccept`, above
  the spacing it is compared with.
- **Encoder.** A frame is its order, token and byte index; the digits and padding
  that `encode` writes are left out. Tokens are modulo `TokenMod`.
- **Framer.** Field lengths are constants, bytes are digits of base `ByteMod`, and
  the 16-bit registers become two digits; 0xFFFF is the largest two-digit
  number. A message is its length. The network is external: it may lose, repeat
  or swap whole packets (`Lose`, `Repeat`, `Swap`), as UDP may; heartbeats come
  from the exchange.
- **Decoder.** A kind decodes to its type and the run of bytes it reads; both sides join
  them to big-endian numbers, and that is left out. `Layout` gives length and kind of each
  known type. The side of an ADD leaves the decoder as one bit (`SideBit`), while `parse_message`
  keeps the character, of which the golden book asks whether it is `"B"` (`BookReads`); and it raises on a
  side or symbol that is no ASCII (`Raised`).
- **Dump.** A capture is a sequence of records, each with the lines it causes, or
  one that `parse_message` refuses, or one that is cut. `finally` closes the
  writer after an exception; a kill does not, and may tear the last line. It
  leaves whole packets in the stream: what a torn packet does to the framer is
  `MoldLink`'s and `FuzzStream`'s subject.
- **Comparison.** A line is a value with an ordinal, or `Torn`, whatever is wrong with
  it. `max_report` 0 stands for a comparison that has not started. `run_replay.sh`
  stops at a producer that fails (lines 51 and 129), while `ReplayCheck` also
  compares what a failed producer left behind, as a user who calls the
  comparators by hand does.
- **Fuzzer.** The random choices are nondeterministic. A message is its length and the
  number of updates it causes; the book half answers within `MinLatency` ..
  `MaxLatency` cycles of a boundary. Its error counters are left out of the sums:
  they can only turn a failure of this model into a success of the harness.

## 3. Runs

| Run | What it shows | Bounds, and why they are enough |
|---|---|---|
| `router` | typed registers, reachable orders, exact occupancy, no false miss, orders lost only to a full window, bounded walks, and the dictionary refinement | 4 slots, windows of 2, 3 ids that collide, two homes, windows that wrap around the end and that fill up, so that inserts, also those of a REPLACE, are dropped; a symbol configured twice, an unused slot and an untracked symbol; live-looking power-up words |
| `book` | well-formed sides and refinement of the list | 3 levels, so that there is a middle one that moves both ways; 4 prices, so that a full side evicts; shares below 3: partial and excess reductions; counters that wrap |
| `top_two` | spacing suffices, updates in golden order, none lost, one at a time | 2 books, bid and ask, an untracked symbol, minimal spacing (5 and 2 for windows of two probes), reset anywhere; 6 slots, so that the sweep outlasts the spacing of messages as it does in the hardware |
| `top_one` | the same with partial and excess executions and collisions; no phantom liquidity; ordinals | 3 ids of which two collide, one book of one level, 2 prices; spacings of 7 and 5, so that a SYSTEM message overtakes the slowest REPLACE and a table message does not, as at 21 and 14 against 19 |
| `trade` | strategy, gate and orders agree with the golden trader under updates at any spacing, back to back included | 2 symbols, updates on both sides of each threshold: imbalance 8:2 and 9:2, collar 5 and 6 ticks, crossed, one-sided; cooldown and spacing 2, cap reached |
| `tick_to_trade` | an order that comes a frame or more after the last one starts its frame at once; positions are shares on the wire, waiting or dropped; exposure is bounded by the cap and what was dropped | no cooldown and no spacing, 1 symbol, ring of 2, frame of 5: bursts overrun the ring; one drop, after which up to three more may follow |
| `ouch` | queue refinement, ring consistency, every accepted order sent | 4 slots, frames of 3 bytes so that the ring fills, wraps and drops |
| `mold_link` | framing in step, no silent loss, no false alarm, refinement of the packet stream | 5 messages, packets of 2 or less, so that one between two others can get lost, 2 in flight, 2 faults |
| `feed_path` | decoder aligned with the framer, agreement with the parser, spacing | bytes 0..2, one of them `"B"` and one no ASCII; messages of up to 8 bytes against a buffer of 4 and a counter that saturates at 5; an ADD with side, symbol and a byte nobody reads, and a shorter DELETE |
| `replay_check` | stream and ordinals of a dump, verdict and report of the comparators, and the whole chain end to end | captures of up to 3 records, packets of 2, 2 faults of the replayed lines, report caps 1 and 2, floors 0 and 2; both comparators |
| `replay_check_torn` | a finding, see below | as `replay_check` |
| `fuzz` | framer at a packet header when the tail begins, one gap noticed there, watchdog quiet, verdict about the tail | 5 damaged and 2 clean messages, packets of 2, cut anywhere, lengths 0 to 4 |

`3 * MaxFaults < CountMod` in `MoldLink` keeps `gap_count` from wrapping to zero:
a fault causes three gaps at most. A reset is possible at every step of every
run of a hardware module. `replay_check`, `replay_check_torn` and `fuzz` turn deadlock
checking off: a dump, a comparison and a replay of a finite stream end.

**Fairness.** Only `ouch` needs it: `WF_serializer(Clock)`, an edge that would move the
serializer comes in the end. That is what a synchronous circuit assumes of its
clock; the subscript is the serializer and not all variables, so that nothing
forces input to arrive, and reset may interrupt at any edge (`EveryOrderSent` then
asks nothing of a queue that was emptied by it).

### What the checks found

- **A refused line hides what was found before it** (`replay_check_torn`, listed under
  findings). `compare_files` of both comparators documents `matched_before_first` as
  the number of lines that matched before the first divergence. When a line is
  refused, `_bad_line` starts a new result in which the refused line is the first and
  only difference, whatever differed before. The exit status is right
  (`VerdictIsRight`), the report is not.
- **The worst latency of an update.** From the boundary of a REPLACE to its update are
  2 * 8 + 3 = 19 cycles, one more than the "about 18" of the harness comment
  (`replay_main.cpp` lines 32-45), and more than the 14 of a SYSTEM message. `OrdinalIsRight`
  says exactly when the ordinal is off by that one message, which has no updates of
  its own; the comment's conclusion stands.
- **From update to wire.** A frame starts on the fourth edge after `upd_valid`
  (`OrderOnTime`), as `docs/results.md` line 320 has it; `replay_main.cpp` lines 57-60 count the
  three stages in between.
- **An ADD that only the hardware reads.** `_decode_add` raises on a side or symbol byte
  above 127 (`itch.py` lines 29 and 31), while the decoder emits the message, as an ask if it is the side
  (`itch_decoder.sv` line 103). `DecodesLikeModel` says so. Such an ADD is the end of a dump (`DumpTrace`),
  and no capture of the exchange holds one.
- **Live ids named again.** As the header says (lines 34-38), the entry is overwritten in place if the
  table has no holes. With a hole in front of it a second copy goes in; that is the only way
  (theorem `CopiesNeedHoles`).
- **The last damaged message counts as tail.** The harness separates updates before and
  after the tail by bytes handed out (`replay_main.cpp` lines 206-208 and 337-340), while an update
  of the last damaged message is still in the pipeline; so that update counts as one of
  the tail, and `PassIsDeserved` says so.

## 4. Theorems

All are checked by TLAPS for every value of the constants that satisfies the
named assumptions of the modules: `TableAssumption`, `FilterAssumption`,
`DataAssumption` (router), `FeedAssumption` and `BooksAssumption` (book stage), `FramerAssumption`,
`DecoderAssumption`, `FeedPathAssumption`, `EncoderAssumption`, `DatapathAssumption`,
`QuantityAssumption` (book), `TradeAssumption`, `NoneAssumption`,
`TickToTradeAssumption`, `DumpAssumption`, `LinkAssumption`, `FuzzAssumption`, `WatchdogAssumption`, and the four that only say that a value
standing for "none" or "torn" is no ordinary one (`NothingAssumption`,
`NoReportAssumption`, `TornAssumption`, `NoSeqAssumption`). TLC evaluates each of them on the runs.

- **`ItchBookTopProofs`, the router.** `Findable`, that no live slot is cut off from its home, is
  not inductive: an insert is safe only because of what its walk has passed.
  `IndInv` adds `ProbeInv` (the address is the probe-th slot of the sought id's
  window, everything before it was used, and none of it is that id), `ReadCoherent`
  (the FSM sees memory as it is, thanks to the bypass), `SweepInv` (the sweep has
  zeroed what lies behind it) and `SweptNamed` (after the sweep a live slot
  names an id). One lemma per action. From `Invariant` follow `TypeCorrect`,
  `OrdersStayFindable`, `ReadsAreCoherent` and `NoFalseMisses`: a miss at a
  never-used slot or at the end of the window excludes the id from the table,
  by `Findable` for the slot it would be in and `ProbeInv` for those passed.
  In the same way `CopiesNeedHoles` excludes a live id behind a never-used slot. `LossesAreFull` adds
  `PassedLive`, that an insert has passed only live slots.
  `OccupancyIsExact` counts the live slots under a change of one slot;
  `BusyIsBounded` follows the step of `CyclesLeft`; `OrdersAreUnique` adds an
  invariant that says of a walking insert that its id is live nowhere.
  `TableIsDictionary` is about `TableRefinement`: under the hypotheses that the feed
  reuses no live id (`~ReuseIds`) and that the dictionary may lose an insert
  (`MayOverflow`), both as in the run `router`, every edge of the router is a step of `RestingOrders` or stutters.
  On an edge that takes a message the dictionary takes it; on the edge that ends a walk the
  dictionary does what was still to do. The proof
  needs `IndInv` (a hit is the only slot with that id; a miss excludes the id) and
  uniqueness, because the mapping reads the dictionary off the table.
- **`ItchBookTopProofs`, the book stage.** `GateInv`: nothing enters before the sweep is over. `GapInv`: what the
  router still has to do plus the cycles since the last message never exceed the walk of the longest
  message. With `TableGap > 2 * MAX_PROBES` this gives `NoneMeetsABusyRouter`;
  `MessagesSpaced` is the other half of the argument that the router needs no
  back-pressure. An edge of the pipeline is an edge of the router whatever message is on
  its port (`EdgeOfRouter`), so the router's invariant carries over (`PipelineOrdersFindable`).
  The larger part is the simulation of the golden model (`PipelineSimulates`). The two never do a thing on the
  same edge: the model takes a message the cycle it is on the port, the table some cycles later, the book
  after that. So `SimInv` compares them through what is still to do: the golden books are the lists of the
  books with the operation on `out_op` applied and then the request in the router (`Coming`, `GoldenInv`); the golden
  orders are the dictionary with the same request done; and `expected` is what is on `upd`, then what that operation, then
  what that request will show (`PendingInv`). Beside it stand the ids (`FreshInv`), the shape of
  books and orders, and that a message waiting is still no reuse (`FeedInv`). An edge that takes a message adds to what is to do,
  one that ends a walk moves it from the table to the books, one with an operation from the books to
  what is shown; none changes the sum. The proof uses the router as the dictionary that `TableIsDictionary` shows it to be
  and a book as the list of `PriceBookProofs`, taken over by `INSTANCE`. Then `UpdatesAreGolden` is the head
  of `PendingInv`, and `NothingIsLost` is `SimInv` with nothing left to do.
  The hypotheses are the points at which the code itself leaves the model: a live id used again
  (`~ReuseIds`), a symbol configured twice (`DistinctSymbols`), an insert that finds its window full
  (`[][~InsFull]_topVars`; the router counts it), and a sum of shares beyond 2^32 (`[]SumsFit`). The
  configuration of `top_two` was the check on `SimInv` before its proof, and that of `top_one` on `OrdinalInv`.
  `OrdinalsAreRight` combines the two parts. `EdgesLeft` is the number of edges until everything to come has been shown;
  `PaceInv` bounds it together with the cycles since the last boundary, by the kind of the message counted last, and says
  how far the ordinals are off: not at all, or by one behind a REPLACE overtaken by a SYSTEM message. `GapInv`
  alone would not do, since the update is shown two edges after the walk. The hypothesis `PacedFeed`
  is the spacing of the real feed, 21 edges before a message for the table and 14 before any other with eight probes,
  with two and three edges to spare; `top_one` has the least that satisfies it.
  `LiquidityIsReal` compares sums. What rests at a price is a fold over the slots of the table that hold an order there;
  that the fold is the sum whatever slot it starts with (`SumExists`, `SumUnique`, `SumLaw`, `FoldIsSum`) is
  an induction over the size of a set of slots, and `RestingChange` draws from it that a write moves the sum by what the written slot
  adds. A level grows at most by what an add brings and falls at least by what a reduce names, or is gone
  (`AddGrows`, `ReduceShrinks` in `PriceBookProofs`), and the router hands over just such operations
  (`HitOwes`, `InsertOwes`; for an insert it matters that the slot was free). `BackedInv` keeps the books empty during the
  sweep, when the table holds anything; it was checked in the configuration of `top_one`.
- **`FeedPathProofs`.** `PathInv` holds the framer's field state, the decoder at rest
  between messages, the pace (`since` is at least the bytes passed) and the
  alignment; `DecoderAligned` and `MessagesSpaced` follow. `DecoderIsParser` adds `FeedInv`:
  buffer and counter are the bytes of the message as far as they go (`HeldInv`), up to the size of the
  buffer, beyond which the counter saturates; at the last byte the length check then sees what
  `parse_message` sees, and the bytes of the body are the same. What the two make of the side and the symbol is
  compared byte by byte; where the parser raises, the theorem only says that the message is an ADD.
- **`MoldLinkProofs`.** The proofs about the bytes of packets. `Power`, the number of values of n bytes, is a recursive
  function and `FlattenSeq`, from the community modules, a fold; that both satisfy
  their equations is proved first (`Recursion`, `Powers`, `Flattened`), by induction over a set of
  numbers. From there the text of a packet is a matter of places: `BytesAt` says where each field of it
  stands, `DigitShifts` that the shift registers hold the number whose digits have arrived, and `ByteMoves`
  that a byte takes the framer one place on and the last byte of any packet back to the session field.
  The framer's own state says where it is in the packet (`Place`), which gives `FramerInStep`.
  For the numbers, `GapInv` looks at the seams: the places on the wire where the number of a packet is not the
  one behind the packet before, the framer's expectation being what comes before the first. What the writer appends continues
  the numbers; a packet lost, repeated or swapped makes one, one or three seams; the judgement of
  a header closes the first one and counts it. So gaps counted and gaps to come are at most three per
  fault, and the counter does not wrap (`LinkAssumption` bounds the faults by its width). With `DueInv`, that as long as none is
  counted the next message has the number due, `LossIsNeverSilent` and `AlarmIsNeverFalse` follow.
  `FramerIsStream` is the refinement of `MoldStream`: what the packet in hand still has to deliver is a matter
  of the place as well (`LeftOfHeader`, `LeftOfMessage`), so the last byte of a header is `Header`, the last byte of a
  message or of a zero length is `Deliver` or `Skip`, and every other byte is `Wait`.
- **`OuchEncoderProofs`.** `EncoderInv`, the types and `RingConsistent` (`count_q` is the distance
  from the read to the write pointer, modulo the depth), is inductive. On top of it
  `EncoderImplementsQueue` shows the refinement of `OrderQueue` for every depth, frame length and token
  modulus: the ring read from the oldest order on is a sequence whose tail is what a
  pop leaves (`ViewTail`) and to which a push appends (`ViewAppend`), because with fewer than
  `FIFO_DEPTH` waiting the written slot is none of them (`Apart`); and a push into a full ring on
  the edge of a pop writes the slot just read.
- **`PriceBookProofs`.** The shape of a side is inductive together with its types (`BookInv`). An add
  needs that the lowest candidate slot has only strictly better levels before it, which
  holds because there is no match (`ShiftDownKeeps`); a removal needs transitivity over the level
  that goes (`ShiftUpKeeps`). That the priority encoder has a lowest bit (`LowestSet`) rests on
  the library's well-foundedness of `<`; the guard `FitsLevel` is not used for the shape.
  `BookIsPriceBook` shows the refinement of `BookContract` on top of it. `ListParts` and `ListIs` say when a side
  and a list have the same levels; then the slot the comparators match is the index the model
  finds (`IndexIs`), the lowest candidate is the place before the first beaten level (`PlaceIs`), and
  the three ways a side changes are those of the list: a share count (`SharesInList`), a shift up
  (`RemovedFromList`), a shift down with or without an eviction (`InsertedInList`). `FitsLevel` is
  used here, once: a sum that wraps at 2^32 is where the golden model differs.
- **`TradePathProofs`.** `PathInv` joins the types, `StrategyAgrees`, `GateAgrees` and
  `OrdersMatchGolden`; they are inductive only together, since the verdict on an edge needs the gate's
  registers to be where the model was and the intent to be the model's. `SameIntent` and `SameVerdict` show that the
  combinational logic computes the model's functions (remaining cooldown against
  updates since firing; saturating against unbounded spacing), `GateCatchesUp` the
  coincidence rule of an accept and an update on one edge. `TypeCorrect` holds the cap on positions.
  For `TickToTrade` the encoder's invariant is taken over by `INSTANCE OuchEncoderProofs`.
  `PipeInv` says where the last updates and their orders are in the pipeline, `CalmInv` that
  while orders come a frame apart the ring is empty when one arrives: `OrdersOnTime`.
  `PositionsAreAccounted` and `ExposureIsBounded` rest on `ExposureInv`: the
  exposure has a course `net`, one step per order, that starts at what is on the wire and
  ends at the position plus what was dropped. `DropInv` bounds the drops of the run. The
  sum over an order queue is a recursive function; its law for an appended order is proved by the
  least length at which it would fail.
- **`ReplayCheckProofs`.** *Comparison*: `CheckInv` relates the position in the files, the counters and the reports to the lines passed;
  at the end it determines the exit status, the first difference and the report about lengths.
  *Dump*: `StreamInv` says that the packets written are the full packets of the messages parsed so far
  and the batch is the rest; every full packet starts at a multiple of `msgs_per_packet`, so closing the
  writer gives `wrap()` with and without a remainder (`WrapEven`, `WrapOdd`). What the packets hold is a
  fold over them, whose recursion is handled by exhibiting the function that satisfies it.
  `OrdinalsAlwaysLineUp` combines the lines of the trace (`Placed`) with that.
  *Chain*: `ChainInv` says at which line each record's lines end in the golden file (`Follows`)
  and how far the replay has got with as many differing lines as it had faults; so a fault is a
  difference in place, and two of them cannot compensate: `PassMeansNoFault`.

- **`FuzzStreamProofs`.** The theorems are about every stream `build_fuzz_stream` can make, so most of the
  work is to say what it makes. `Layout` is that: the packets, with the number of messages
  (`first`) and of bytes (`at`) in front of each, how the lengths in them are those of `messages`, that each packet has the number
  due after the one before except the first of the tail, and that the two cuts, in messages and in
  bytes, are in front of the same packet. `BuildStreams` derives it from `PackPackets`, the truncation and `ByteCount`; it is used
  as the only description of the stream after that. The packets are such as `MoldLinkProofs` calls `Sound`, so the
  instance `Link` gives the framer's place in the packet in hand (`PlaceInv`), and `Taking` and `Framed` what
  a byte does: it ends a message, or an empty one, exactly at the place its packet puts that end.
  From there `CountInv` gives `InStepAtTheTail`, `GapsInv` (the gap
  is counted with the header of the first packet of the tail, and with no other) `OneGapAtTheTail`. `PassesAreDeserved`
  needs three more. `LateInv`: an update under way was caused by the message counted last, because the book half answers before the
  next one for the table can end (`MaxLatency`, `FuzzAssumption`). `IdleInv`: the watchdog has counted no more than the bytes since
  the last boundary, which never reach its limit (`WatchdogAssumption`: a header, a length
  prefix and the longest message are below it, 72 bytes against 10000). `SumInv`: the updates counted and under way are those of the messages taken,
  and those counted behind the cut exceed those of the tail by at most what the last damaged order message causes.
  The sums are recursive functions and their laws inductions over a set of lengths (`UpTo`, `SumsExist`, `SumBehind`). TLC checked
  the conclusions on all small streams first; `FuzzAssumption` keeps the error counters from wrapping,
  as 32 bits do for any stream that fits a disk.

**Model-checked only.** Liveness (`EveryOrderSent`), which is out of the prover's reach. Every
other property of a passing run is stated by a theorem above. Proved and in
no run: `CopiesOnlyInHoles`, since the feed of the runs reuses no live id, and `NoDuplicateOrder`, since
the dictionary already tells two copies of an id apart.

## 5. Not modelled

- The unit benches (`tb/unit`), the tests of the model (`model/tests`), download and build
  scripts: they hold no state of the system. They were read as statements of intent.
- The text of OUCH frames and of traces, timestamps, statistics, argument parsing,
  printed summaries.
- The sums of per-book counters in `itch_book_top.sv`: adders over the counters that
  `PriceBook` checks; and the comparison of counter totals in `run_replay.sh`.
- In the replay harness, the reassembly of frames from bytes, the ordinal it writes for an order
  frame and the cross-checks of counters at exit. The frame starts four edges after its
  update (`OrderOnTime`), so its ordinal is that of the update (`OrdinalIsRight`) unless a boundary falls
  between.
- `wrap(gap_after=...)`, the deliberate hole of `moldwrap.py`: the network of `MoldLink` makes
  holes anywhere.
- A symbol configured twice in the book stage, where the router takes the lower index and
  the golden model the last one: nothing says which is meant. `router` has such a table
  and takes the lower index.
- A packet that is repeated is framed again and its messages reach the book twice.
  The framer counts it and nothing more is promised; the feed of `ItchBookTop`
  has no repeats.

## 6. Plan

Done, in this order: the router, its dictionary and its proofs; the book and its list;
the book stage against the market model; strategy, gate and encoder; framer, network,
decoder and the byte path with its proofs; the trade path with the encoder; the harness's
ordinals; dump, comparison and the whole replay; the fuzzer; the proofs of the encoder's
refinement, of the book's shape and its list, of strategy and gate against the golden trader; of the
router's refinement and its protection by the spacing of messages, of the trade path with its
encoder, of dump, comparison and replay for files of any length, of the decoder against
the parser, of the framer over a network with faults and as a stream of messages, of the fuzzer for
streams of any length, and of the
book stage against the market model with the ordinals of its updates and the orders behind its levels.

Left: the reassembly of frames in the harness and its checks at exit.

## Running

Inside this directory, for any run of `PROJECT.json`:

    tlc -workers 2 -config MCBookRouter.cfg MCBookRouter.tla
    tlapm OuchEncoderProofs.tla
