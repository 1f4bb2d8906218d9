----------------------------- MODULE ItchBookTop -----------------------------
(***************************************************************************)
(* rtl/itch_book_top.sv from the decoder's output on: the router, the      *)
(* price books, the byte gate and the update mux, clocked together.        *)
(*                                                                         *)
(* The framer and the decoder appear as the register they end in, dec_msg  *)
(* with dec_valid, and as the least number of cycles they need between two *)
(* messages: one per byte of the second one and two for its length field.  *)
(*                                                                         *)
(* golden and expected are history variables.  golden runs the model of    *)
(* model/book.py on the messages in feed order; expected holds the events  *)
(* it returned that the hardware has not shown on upd yet.                 *)
(***************************************************************************)
EXTENDS BookRouter, Sequences, FiniteSetsExt

CONSTANTS
  N_LEVELS, ShareMod,
  BookCountMod,   \* as CountMod, for the counters of the books
  Feed,        \* the messages of the feed, a subset of Msg
  TableGap,    \* least spacing before a message that reaches the table
  SystemGap    \* least spacing before a SYSTEM message

ASSUME FeedAssumption ==
  /\ Feed \subseteq Msg
  /\ TableGap \in Nat /\ SystemGap \in 2 .. TableGap
  /\ TableGap > 2 * MAX_PROBES      \* 21 cycles for 16 probes

ASSUME BooksAssumption ==
  /\ N_LEVELS \in Nat \ {0}
  /\ ShareMod \in Nat /\ MaxShares < ShareMod      \* both are 32 bits wide
  /\ BookCountMod \in Nat \ {0}

INSTANCE BookDatapath WITH CountMod <- BookCountMod

Model == INSTANCE MarketModel WITH n_levels <- N_LEVELS

VARIABLES
  dec_valid, dec_msg,   \* the decoder's output register
  since,                \* cycles since its last message, at most TableGap
  swept_q,              \* the byte gate
  books,                \* the registers of every price_book
  last_book_idx_q,      \* the mux select
  golden, expected

topVars == <<vars, dec_valid, dec_msg, since, swept_q, books, last_book_idx_q,
             golden, expected>>

in_ready  == swept_q
upd_valid == books[last_book_idx_q].upd_valid
upd       == books[last_book_idx_q].upd

NoMsg == CHOOSE m \in Msg : m.kind = "SYSTEM"

Gap(m) == IF m.kind = "SYSTEM" THEN SystemGap ELSE TableGap

\* The exchange never reuses the id of an order that still rests.
FreshId(m) ==
  LET live == DOMAIN golden.orders IN
  ReuseIds \/ /\ m.kind = "ADD" => m.order_id \notin live
              /\ m.kind = "REPLACE" => m.new_order_id \notin live \ {m.order_id}

-----------------------------------------------------------------------------
(* The parts of a clock edge.                                               *)

DecoderIdle ==
  /\ dec_valid' = FALSE /\ dec_msg' = NoMsg
  /\ since' = IF since < TableGap THEN since + 1 ELSE since

\* Bytes enter, and so messages leave the decoder, only when in_ready is high.
DecoderMessage ==
  \E m \in Feed :
    /\ in_ready /\ since + 1 >= Gap(m) /\ FreshId(m)
    /\ dec_valid' = TRUE /\ dec_msg' = m
    /\ since' = 0

ByteGateOpen == swept_q' = TRUE                      \* mutant: open during the sweep
ByteGate == swept_q' = (swept_q \/ ~busy)

\* op_valid_i: the operation goes to the book it names.
BooksAll ==                                          \* mutant: every book takes it
  books' = [i \in BookIdx |-> IF out_valid THEN ApplyOp(books[i], out_op)
                              ELSE HoldBook(books[i])]

Books ==
  books' = [i \in BookIdx |->
              IF out_valid /\ out_op.book_idx = i
              THEN ApplyOp(books[i], out_op)
              ELSE HoldBook(books[i])]

UpdateMuxAdds ==                                     \* mutant: reduces do not select
  last_book_idx_q' = IF out_valid /\ out_op.op = "OP_ADD" THEN out_op.book_idx
                     ELSE last_book_idx_q

UpdateMux == last_book_idx_q' = IF out_valid THEN out_op.book_idx ELSE last_book_idx_q

\* The comparison with the golden model: take what was shown, append what the
\* message now at the router calls for.
Scoreboard ==
  LET shown == IF upd_valid /\ expected # << >> THEN Tail(expected) ELSE expected IN
  IF dec_valid
  THEN /\ golden' = Model!OnMessage(golden, dec_msg)
       /\ expected' = shown \o golden'.events
  ELSE golden' = golden /\ expected' = shown

Edge ==
  /\ Clock(dec_valid, dec_msg)
  /\ DecoderIdle \/ DecoderMessage
  /\ ByteGate
  /\ Books
  /\ UpdateMux
  /\ Scoreboard

\* Reset and a feed that starts over.
ResetTop ==
  /\ Reset
  /\ dec_valid' = FALSE /\ dec_msg' = NoMsg /\ since' = 0
  /\ swept_q' = FALSE
  /\ books' = [i \in BookIdx |-> ResetBook]
  /\ last_book_idx_q' = 0
  /\ golden' = Model!NewModel /\ expected' = << >>

InitTop ==
  /\ Init
  /\ dec_valid = FALSE /\ dec_msg = NoMsg /\ since = 0
  /\ swept_q = FALSE
  /\ books = [i \in BookIdx |-> ResetBook]
  /\ last_book_idx_q = 0
  /\ golden = Model!NewModel /\ expected = << >>

NextTop == Edge \/ ResetTop

SpecTop == InitTop /\ [][NextTop]_topVars

-----------------------------------------------------------------------------
\* No message that reaches the table arrives while the router is busy, in the
\* sweep or with the message before it: the router has no backpressure and
\* would lose it (assertion, book_router.sv lines 400-402).
NoMessageWhileBusy == dec_valid /\ dec_msg.kind # "SYSTEM" => ~busy

Values(cur) == [i \in Level |-> [price |-> cur[i].price, shares |-> cur[i].shares]]

\* Every update shown is the next event of the golden model: the same book,
\* the same levels on both sides, none skipped, repeated or out of order.
UpdatesMatchGolden ==
  upd_valid =>
    /\ expected # << >>
    /\ Head(expected) = [symbol_idx |-> last_book_idx_q, bid |-> Values(upd.bid),
                         ask |-> Values(upd.ask)]

Settled == swept_q /\ ~dec_valid /\ ~busy /\ ~out_valid /\ ~upd_valid

LevelOrder(e) == [symbol |-> SYMBOLS[e.book_idx], side |-> e.side, price |-> e.price,
               shares |-> e.shares]

\* When the pipeline has drained, every event was shown, and the table and the
\* counters are those of the golden model: no message was lost on the way.
NothingLost ==
  Settled =>
    /\ expected = << >>
    /\ {<<mem[a].order_id, LevelOrder(mem[a])>> : a \in {b \in Addr : mem[b].vld}}
         = {<<id, golden.orders[id]>> : id \in DOMAIN golden.orders}
    /\ drop_count = golden.drops

\* The book once the operation that is on its way to it has been applied.
Absorbed(i) ==
  IF out_valid /\ out_op.book_idx = i THEN ApplyOp(books[i], out_op) ELSE books[i]

RestingAt(i, side, p) ==
  MapThenSumSet(LAMBDA a : mem[a].shares,
    {a \in Addr : /\ mem[a].vld /\ mem[a].book_idx = i
                  /\ mem[a].side = side /\ mem[a].price = p})

\* No level ever shows more shares than the orders resting at its price hold.
\* (It may show fewer: a level pushed out of a full book forgets its orders,
\* and a reduce larger than its order takes from the others at the price.)
NoPhantomLiquidity ==
  Swept /\ ~ReuseIds =>
    \A i \in BookIdx, l \in Level :
      /\ LET b == Absorbed(i).bid[l] IN b.shares <= RestingAt(i, Bid, b.price)
      /\ LET a == Absorbed(i).ask[l] IN a.shares <= RestingAt(i, Ask, a.price)
=============================================================================
