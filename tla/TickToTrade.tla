----------------------------- MODULE TickToTrade -----------------------------
(***************************************************************************)
(* The trading half of rtl/tick_to_trade_top.sv: TradePath and the OUCH    *)
(* encoder on one clock, the gate's output register being the encoder's    *)
(* input.  The book half is ItchBookTop; the updates it sends come here on *)
(* any edges.                                                              *)
(*                                                                         *)
(* History: pipe[i] is the order, or None, that the golden model makes of  *)
(* the update absorbed i edges ago; exposure and lost are the net shares   *)
(* of the orders whose frame has started and of those the full ring did    *)
(* not take; calm says that accepted orders have been a frame apart.       *)
(***************************************************************************)
EXTENDS TradePath

CONSTANTS
  FIFO_DEPTH, FRAME_LEN, TokenMod,
  MaxDrops     \* orders lost when the feed of the model stops; three may follow

ASSUME TickToTradeAssumption ==
  /\ FIFO_DEPTH \in Nat \ {0} /\ FRAME_LEN \in Nat \ {0, 1}
  /\ TokenMod \in Nat \ {0}
  /\ MaxDrops \in Nat /\ MaxDrops + 2 < CountMod    \* fifo_drop_count does not wrap

VARIABLES
  queue_mem, wr_ptr_q, rd_ptr_q, count_q,
  ouch_state_q, byte_idx_q, cur_intent_q, cur_token_q,
  order_count, fifo_drop_count,
  pipe, exposure, lost, accept_gap, calm

u_ouch == INSTANCE OuchEncoder WITH NoOrder <- None, state_q <- ouch_state_q

history == <<pipe, exposure, lost, accept_gap, calm>>
topVars == <<vars, u_ouch!vars, history>>

-----------------------------------------------------------------------------
Signed(order) == IF order.side = 1 THEN order.shares ELSE -order.shares

\* The net shares per book once order is among them.
Adding(net, order) == [net EXCEPT ![order.symbol_idx] = @ + Signed(order)]

\* What the histories make of an edge on which the feed brings `order`.
Record(order) ==
  /\ pipe' = <<order>> \o SubSeq(pipe, 1, 3)
  /\ exposure' = IF u_ouch!pop_ok THEN Adding(exposure, queue_mem[rd_ptr_q]) ELSE exposure
  /\ lost' = IF risk_valid /\ ~u_ouch!HasRoom THEN Adding(lost, risk_out) ELSE lost
  /\ accept_gap' = IF Accepts THEN 1 ELSE Least(accept_gap + 1, FRAME_LEN)
  /\ calm' = (calm /\ (Accepts => accept_gap >= FRAME_LEN))

\* The encoder takes what the gate put out on the edge before.
EncoderEdge ==
  \/ risk_valid /\ (u_ouch!Push(risk_out) \/ u_ouch!Drop)
  \/ ~risk_valid /\ u_ouch!NoInput

TopUpdate(upd) ==
  /\ fifo_drop_count < MaxDrops
  /\ UpdateEdge(upd)
  /\ EncoderEdge
  /\ Record(Model!OrderFor(golden, upd))

TopQuiet ==
  /\ QuietEdge
  /\ EncoderEdge
  /\ Record(None)

NoHistory ==
  [pipe |-> <<None, None, None, None>>, exposure |-> [s \in BookIdx |-> 0],
   lost |-> [s \in BookIdx |-> 0], accept_gap |-> FRAME_LEN, calm |-> TRUE]

TopReset ==
  /\ Reset /\ u_ouch!Reset
  /\ pipe' = NoHistory.pipe /\ exposure' = NoHistory.exposure /\ lost' = NoHistory.lost
  /\ accept_gap' = NoHistory.accept_gap /\ calm' = NoHistory.calm

TopInit ==
  /\ Init /\ u_ouch!Init
  /\ pipe = NoHistory.pipe /\ exposure = NoHistory.exposure /\ lost = NoHistory.lost
  /\ accept_gap = NoHistory.accept_gap /\ calm = NoHistory.calm

TopNext == TopReset \/ TopQuiet \/ \E upd \in Updates : TopUpdate(upd)

TopSpec == TopInit /\ [][TopNext]_topVars

-----------------------------------------------------------------------------
\* As long as accepted orders come a frame apart, which is what the depth of
\* the ring is argued from (ouch_encoder.sv 22-34), none is dropped or waits:
\* a frame starts four edges after the update behind it and at no other time,
\* and it is the golden model's order for that update.
OrderOnTime ==
  calm => /\ fifo_drop_count = 0
          /\ u_ouch!frame_start <=> pipe[4] # None
          /\ u_ouch!frame_start => cur_intent_q = pipe[4]

\* The order that waits behind i others, and its net shares in book s.
Waits(i) == queue_mem[(rd_ptr_q + i) % FIFO_DEPTH]
Part(order, s) == IF order.symbol_idx = s THEN Signed(order) ELSE 0

\* Net shares of book s among the orders that wait in the ring.
Waiting(s) ==
  LET net[n \in 0 .. count_q] == IF n = 0 THEN 0 ELSE net[n - 1] + Part(Waits(n - 1), s)
  IN  net[count_q]

\* The gate's positions are those of the orders sent, waiting, on their way to
\* the ring and lost to a full ring: a burst that overruns the ring is the only
\* thing that can part the gate's book-keeping from the wire, and it shows in
\* fifo_drop_count (ouch_encoder.sv 31-34, 155).
PositionsAccounted ==
  /\ \A s \in BookIdx :
       pos_q[s] = exposure[s] + Waiting(s) + lost[s]
                  + (IF risk_valid THEN Part(risk_out, s) ELSE 0)
  /\ fifo_drop_count = 0 => \A s \in BookIdx : lost[s] = 0

\* The limit the gate enforces on accepted orders holds on the wire, at the
\* start of every frame, until an order is dropped.
ExposureBounded ==
  fifo_drop_count = 0 =>
    \A s \in BookIdx : Magnitude(exposure[s]) <= MAX_POSITION
=============================================================================
