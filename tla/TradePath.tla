------------------------------ MODULE TradePath ------------------------------
(***************************************************************************)
(* rtl/strategy_imbalance.sv and rtl/risk_gate.sv, as tick_to_trade_top    *)
(* wires them: the strategy registers an intent on the edge that absorbs a *)
(* book update, and the gate judges it on the next edge, which may absorb  *)
(* another update.  One step is one clock edge.  The output registers hold *)
(* their last value while their valid bit is low and nobody reads them     *)
(* then; here they are zero.                                               *)
(*                                                                         *)
(* golden and owed are history variables: the sequential golden model on   *)
(* the same updates, and the orders it produced that the gate has not put  *)
(* on its output yet.                                                      *)
(***************************************************************************)
EXTENDS Integers, Sequences

CONSTANTS
  NUM_SYMBOLS, N_LEVELS,
  THRESH_LOG2, COOLDOWN_UPDATES, ORDER_SHARES,
  MAX_POSITION, MIN_ORDER_SPACING, COLLAR_SHIFT,
  CountMod,   \* 2^32: the counters wrap
  Updates,    \* the book updates of the feed
  None,
  MaxSinceAccept   \* bound on the model's unbounded count of updates

BookIdx == 0 .. NUM_SYMBOLS - 1
Level   == 0 .. N_LEVELS - 1

Update == [book_idx : BookIdx, bid_price : [Level -> Nat], bid_shares : [Level -> Nat],
           ask_price : [Level -> Nat], ask_shares : [Level -> Nat]]

ASSUME TradeAssumption ==
  /\ NUM_SYMBOLS \in Nat \ {0} /\ N_LEVELS \in Nat \ {0}
  /\ THRESH_LOG2 \in Nat /\ COOLDOWN_UPDATES \in Nat
  /\ ORDER_SHARES \in Nat /\ MAX_POSITION \in Nat
  /\ MIN_ORDER_SPACING \in Nat /\ COLLAR_SHIFT \in Nat
  /\ CountMod \in Nat \ {0}
  /\ MaxSinceAccept \in Nat
  /\ Updates \subseteq Update

Order == [symbol_idx : BookIdx, side : {0, 1}, shares : {0, ORDER_SHARES}, price : Nat]

\* None is no count, no intent of the model and no order.
ASSUME NoneAssumption ==
  /\ None \notin Nat /\ None \notin Order
  /\ None \notin [symbol_idx : BookIdx, side : {"B", "S"}, shares : {ORDER_SHARES},
                  price : Nat, bid0 : Nat, ask0 : Nat]

Model == INSTANCE GoldenTrader

VARIABLES
  state_q, cool_q,           \* strategy: state and remaining cooldown per symbol
  strat_out, strat_valid,    \* its registered intent with the level-0 prices
  intent_count,
  pos_q, rate_q,             \* risk gate: positions, updates since an accept
  risk_out, risk_valid,      \* its registered order
  verdict_count,             \* its five counters
  golden, owed

strategyVars == <<state_q, cool_q, strat_out, strat_valid, intent_count>>
riskVars     == <<pos_q, rate_q, risk_out, risk_valid, verdict_count>>
vars         == <<strategyVars, riskVars, golden, owed>>

NoOrder  == [symbol_idx |-> 0, side |-> 0, shares |-> 0, price |-> 0]
NoIntent == [intent |-> NoOrder, bid0 |-> 0, ask0 |-> 0]

Inc(c) == (c + 1) % CountMod

-----------------------------------------------------------------------------
(* strategy_imbalance, combinational.                                       *)

\* The adder tree: each level down counts half as much.
Mass(shares) ==
  LET tree[n \in 0 .. N_LEVELS] ==
        IF n = 0 THEN 0 ELSE tree[n - 1] + shares[n - 1] \div 2 ^ (n - 1)
  IN  tree[N_LEVELS]

NxtState(upd) ==
  LET mass_b == Mass(upd.bid_shares)
      mass_a == Mass(upd.ask_shares)
  IN  IF mass_b > mass_a * 2 ^ THRESH_LOG2 THEN "LONG"
      ELSE IF mass_a > mass_b * 2 ^ THRESH_LOG2 THEN "SHORT" ELSE "NEUTRAL"

SuppressedLate(upd) == cool_q[upd.book_idx] > 1      \* mutant: re-armed one early
Suppressed(upd) == cool_q[upd.book_idx] # 0

DoBuy(upd) ==
  /\ NxtState(upd) = "LONG" /\ state_q[upd.book_idx] # "LONG"
  /\ ~Suppressed(upd) /\ upd.ask_price[0] # 0

DoSell(upd) ==
  /\ NxtState(upd) = "SHORT" /\ state_q[upd.book_idx] # "SHORT"
  /\ ~Suppressed(upd) /\ upd.bid_price[0] # 0

Fired(upd) == DoBuy(upd) \/ DoSell(upd)

IntentFor(upd) ==
  [intent |-> [symbol_idx |-> upd.book_idx, side |-> IF DoBuy(upd) THEN 1 ELSE 0,
               shares |-> ORDER_SHARES,
               price |-> IF DoBuy(upd) THEN upd.ask_price[0] ELSE upd.bid_price[0]],
   bid0 |-> upd.bid_price[0], ask0 |-> upd.ask_price[0]]

-----------------------------------------------------------------------------
(* risk_gate, combinational.                                                *)

Mid  == (strat_out.bid0 + strat_out.ask0) \div 2
Band == Mid \div 2 ^ COLLAR_SHIFT

Magnitude(x) == IF x < 0 THEN -x ELSE x

Sane     == strat_out.bid0 # 0 /\ strat_out.ask0 # 0 /\ strat_out.bid0 < strat_out.ask0
CollarOkStrict == Magnitude(strat_out.intent.price - Mid) < Band
                                                     \* mutant: the boundary fails
CollarOk == ~(Magnitude(strat_out.intent.price - Mid) > Band)

\* Judged against the count before an update on the same edge.
RateOk   == rate_q >= MIN_ORDER_SPACING

NewPos == pos_q[strat_out.intent.symbol_idx]
          + (IF strat_out.intent.side = 1 THEN strat_out.intent.shares
             ELSE -strat_out.intent.shares)
PosOkBefore == ~(Magnitude(pos_q[strat_out.intent.symbol_idx]) > MAX_POSITION)
                                                     \* mutant: before the order
PosOk == ~(Magnitude(NewPos) > MAX_POSITION)

Outcome ==
  CASE ~Sane -> "sanity"
    [] Sane /\ ~CollarOk -> "collar"
    [] Sane /\ CollarOk /\ ~RateOk -> "rate"
    [] Sane /\ CollarOk /\ RateOk /\ ~PosOk -> "pos"
    [] OTHER -> "accept"

Accepts == strat_valid /\ Outcome = "accept"

\* The counter saturates where it stops to matter.
RateNext == IF rate_q >= MIN_ORDER_SPACING THEN rate_q ELSE rate_q + 1

\* The count after an accept on an edge that absorbs an update.
RateOneLost  == 0                                    \* mutant: the update is not counted
RateOne == IF MIN_ORDER_SPACING < 1 THEN 0 ELSE 1

-----------------------------------------------------------------------------
StrategyAbsorbs(upd) ==
  LET i == upd.book_idx IN
  /\ state_q' = [state_q EXCEPT ![i] = NxtState(upd)]
  /\ cool_q' = [cool_q EXCEPT ![i] = IF Fired(upd) THEN COOLDOWN_UPDATES
                                     ELSE IF @ # 0 THEN @ - 1 ELSE @]
  /\ strat_valid' = Fired(upd)
  /\ strat_out' = IF Fired(upd) THEN IntentFor(upd) ELSE NoIntent
  /\ intent_count' = IF Fired(upd) THEN Inc(intent_count) ELSE intent_count

StrategyHolds ==
  /\ strat_valid' = FALSE /\ strat_out' = NoIntent
  /\ UNCHANGED <<state_q, cool_q, intent_count>>

\* The gate on an edge with (or without) a book update.
RiskEdge(upd_valid) ==
  /\ rate_q' = IF Accepts THEN (IF upd_valid THEN RateOne ELSE 0)
               ELSE IF upd_valid THEN RateNext ELSE rate_q
  /\ pos_q' = IF Accepts
              THEN [pos_q EXCEPT ![strat_out.intent.symbol_idx] = NewPos] ELSE pos_q
  /\ risk_valid' = Accepts
  /\ risk_out' = IF Accepts THEN strat_out.intent ELSE NoOrder
  /\ verdict_count' = IF strat_valid
                      THEN [verdict_count EXCEPT ![Outcome] = Inc(@)]
                      ELSE verdict_count

\* Orders on the gate's output are no longer owed.
Remaining == IF risk_valid /\ owed # << >> THEN Tail(owed) ELSE owed

\* An edge with upd_valid.
UpdateEdge(upd) ==
  /\ golden.updates_since_accept < MaxSinceAccept
  /\ StrategyAbsorbs(upd)
  /\ RiskEdge(TRUE)
  /\ golden' = Model!OnEvent(golden, upd)
  /\ owed' = LET order == Model!OrderFor(golden, upd)
             IN  IF order = None THEN Remaining ELSE Append(Remaining, order)

\* An edge without.
QuietEdge ==
  /\ StrategyHolds
  /\ RiskEdge(FALSE)
  /\ golden' = golden
  /\ owed' = Remaining

Init ==
  /\ state_q = [s \in BookIdx |-> "NEUTRAL"] /\ cool_q = [s \in BookIdx |-> 0]
  /\ strat_out = NoIntent /\ strat_valid = FALSE /\ intent_count = 0
  /\ pos_q = [s \in BookIdx |-> 0] /\ rate_q = 0
  /\ risk_out = NoOrder /\ risk_valid = FALSE
  /\ verdict_count = [accept |-> 0, sanity |-> 0, collar |-> 0, rate |-> 0, pos |-> 0]
  /\ golden = Model!NewTrader /\ owed = << >>

Reset ==
  /\ state_q' = [s \in BookIdx |-> "NEUTRAL"] /\ cool_q' = [s \in BookIdx |-> 0]
  /\ strat_out' = NoIntent /\ strat_valid' = FALSE /\ intent_count' = 0
  /\ pos_q' = [s \in BookIdx |-> 0] /\ rate_q' = 0
  /\ risk_out' = NoOrder /\ risk_valid' = FALSE
  /\ verdict_count' = [accept |-> 0, sanity |-> 0, collar |-> 0, rate |-> 0, pos |-> 0]
  /\ golden' = Model!NewTrader /\ owed' = << >>

Next == Reset \/ QuietEdge \/ \E upd \in Updates : UpdateEdge(upd)

Spec == Init /\ [][Next]_vars

-----------------------------------------------------------------------------
TypeOK ==
  /\ state_q \in [BookIdx -> {"NEUTRAL", "LONG", "SHORT"}]
  /\ cool_q \in [BookIdx -> 0 .. COOLDOWN_UPDATES]
  /\ strat_valid \in BOOLEAN
  /\ strat_out \in [intent : Order, bid0 : Nat, ask0 : Nat]
  /\ intent_count \in 0 .. CountMod - 1
  /\ pos_q \in [BookIdx -> -MAX_POSITION .. MAX_POSITION]
  /\ rate_q \in 0 .. MIN_ORDER_SPACING
  /\ risk_valid \in BOOLEAN /\ risk_out \in Order
  /\ verdict_count \in [{"accept", "sanity", "collar", "rate", "pos"} -> 0 .. CountMod - 1]

\* The strategy has seen exactly what the model has, the remaining-cooldown
\* counter standing for the model's updates_since_fire (lines 125-129).
StrategyAgrees ==
  /\ state_q = golden.state
  /\ \A s \in BookIdx :
       cool_q[s] = IF golden.updates_since_fire[s] = None THEN 0
                   ELSE COOLDOWN_UPDATES - golden.updates_since_fire[s]
  /\ intent_count = golden.intent_count

Least(x, y) == IF x < y THEN x ELSE y

\* The gate is where the model is once the intent it is about to judge is
\* judged, whether or not an update falls on the same edge: its saturating
\* count, positions and counters lose nothing (coincidence rule, lines 20-43).
GateAgrees ==
  /\ Least(golden.updates_since_accept, MIN_ORDER_SPACING) = (IF Accepts THEN 0 ELSE rate_q)
  /\ golden.pos =
       (IF Accepts THEN [pos_q EXCEPT ![strat_out.intent.symbol_idx] = NewPos] ELSE pos_q)
  /\ golden.counts =
       (IF strat_valid THEN [verdict_count EXCEPT ![Outcome] = Inc(@)] ELSE verdict_count)

\* The orders are those of the model, in its order and with its values; none is
\* lost or invented, and each appears two edges after the update behind it.
OrdersMatchGolden ==
  owed = (IF risk_valid THEN <<risk_out>> ELSE << >>)
         \o (IF Accepts THEN <<strat_out.intent>> ELSE << >>)
=============================================================================
