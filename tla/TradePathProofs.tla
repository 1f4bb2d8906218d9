--------------------------- MODULE TradePathProofs ---------------------------
(***************************************************************************)
(* Proofs about TradePath and TickToTrade.  Strategy and gate, one and two *)
(* edges behind the updates, decide what the golden trader decides; with   *)
(* the encoder behind them, what was accepted is accounted for on its way  *)
(* to the wire.                                                            *)
(***************************************************************************)
EXTENDS TickToTrade, SequenceTheorems, WellFoundedInduction, TLAPS

State == {"NEUTRAL", "LONG", "SHORT"}
Check == {"accept", "sanity", "collar", "rate", "pos"}

Trader ==
  [state : [BookIdx -> State],
   updates_since_fire : [BookIdx -> {None} \cup 0 .. COOLDOWN_UPDATES],
   intent_count : 0 .. CountMod - 1,
   pos : [BookIdx -> -MAX_POSITION .. MAX_POSITION],
   updates_since_accept : Nat,
   counts : [Check -> 0 .. CountMod - 1]]

\* The registered intent as the golden model writes it.
ModelIntent(out) ==
  [symbol_idx |-> out.intent.symbol_idx, side |-> IF out.intent.side = 1 THEN "B" ELSE "S",
   shares |-> out.intent.shares, price |-> out.intent.price,
   bid0 |-> out.bid0, ask0 |-> out.ask0]

PathInv == TypeOK /\ golden \in Trader /\ StrategyAgrees /\ GateAgrees /\ OrdersMatchGolden

-----------------------------------------------------------------------------
(* The combinational logic against the functions of the model.              *)

\* The weighted mass of the hardware is that of the model.
LEMMA SameMass ==
  ASSUME NEW shares
  PROVE  Mass(shares) = Model!MassOf(shares)
  BY DEF Mass, Model!MassOf

\* So is the imbalance state.
LEMMA SameState ==
  ASSUME NEW upd \in Updates
  PROVE  /\ NxtState(upd) = Model!StateOf(Model!MassOf(upd.bid_shares),
                                          Model!MassOf(upd.ask_shares))
         /\ NxtState(upd) \in State
  BY SameMass DEF NxtState, Model!StateOf, State

\* The fields of an update that the strategy reads.
LEMMA UpdateParts ==
  ASSUME NEW upd \in Updates
  PROVE  /\ upd.book_idx \in BookIdx
         /\ upd.bid_price[0] \in Nat /\ upd.ask_price[0] \in Nat
  BY TradeAssumption DEF Update, Level

\* The intent an update calls for is an order for its symbol.
LEMMA IntentParts ==
  ASSUME NEW upd \in Updates
  PROVE  /\ IntentFor(upd) \in [intent : Order, bid0 : Nat, ask0 : Nat]
         /\ ModelIntent(IntentFor(upd)) # None
         /\ IntentFor(upd).intent \in Order
         /\ IntentFor(upd).intent.symbol_idx = upd.book_idx
  BY UpdateParts, NoneAssumption, TradeAssumption DEF IntentFor, ModelIntent, Order

\* The strategy fires on the updates the model fires on, with its intent.
LEMMA SameIntent ==
  ASSUME NEW upd \in Updates, TypeOK, golden \in Trader, StrategyAgrees
  PROVE  Model!IntentOf(golden, upd) =
           IF Fired(upd) THEN ModelIntent(IntentFor(upd)) ELSE None
<1> DEFINE s == upd.book_idx
           since == golden.updates_since_fire[s]
<1>1. s \in BookIdx
  BY UpdateParts
<1>2. Suppressed(upd) <=> (since # None /\ since < COOLDOWN_UPDATES)
  <2>1. cool_q[s] = IF since = None THEN 0 ELSE COOLDOWN_UPDATES - since
    BY <1>1 DEF StrategyAgrees
  <2>2. since \in {None} \cup 0 .. COOLDOWN_UPDATES
    BY <1>1 DEF Trader
  <2> QED
    BY <2>1, <2>2, TradeAssumption DEF Suppressed
<1>3. state_q[s] = golden.state[s]
  BY DEF StrategyAgrees
<1>4. ~(DoBuy(upd) /\ DoSell(upd))
  BY DEF DoBuy, DoSell
<1>5. CASE DoBuy(upd)
  BY <1>2, <1>3, <1>5, SameState
     DEF DoBuy, Fired, IntentFor, ModelIntent, Model!IntentOf, Model!Intent
<1>6. CASE DoSell(upd)
  BY <1>2, <1>3, <1>4, <1>6, SameState
     DEF DoSell, Fired, IntentFor, ModelIntent, Model!IntentOf, Model!Intent
<1>7. CASE ~DoBuy(upd) /\ ~DoSell(upd)
  BY <1>2, <1>3, <1>7, SameState DEF DoBuy, DoSell, Fired, Model!IntentOf
<1> QED
  BY <1>5, <1>6, <1>7

\* The gate's checks on its input are the model's, in the model's order.
LEMMA SameVerdict ==
  ASSUME TypeOK', NEW t, t.pos = pos_q', t.updates_since_accept \in Nat,
         Least(t.updates_since_accept, MIN_ORDER_SPACING) = rate_q'
  PROVE  /\ Model!Verdict(t, ModelIntent(strat_out')) = Outcome'
         /\ Outcome' \in Check
<1>1. RateOk' <=> ~(t.updates_since_accept < MIN_ORDER_SPACING)
  BY TradeAssumption DEF RateOk, Least
<1>2. strat_out'.intent.side = 1 <=> ModelIntent(strat_out').side = "B"
  BY DEF ModelIntent
<1>3. Outcome' \in Check
  BY DEF Outcome, Check
<1> QED
  BY <1>1, <1>2, <1>3
     DEF Outcome, Sane, CollarOk, Band, Mid, PosOk, NewPos, Magnitude, ModelIntent,
         Model!Verdict, Model!Abs

-----------------------------------------------------------------------------
(* The gate on one edge.                                                    *)

\* A counter that wraps stays in its range.
LEMMA IncRange ==
  ASSUME NEW c \in 0 .. CountMod - 1
  PROVE  Inc(c) \in 0 .. CountMod - 1
<1>1. CountMod \in Nat \ {0}
  BY TradeAssumption
<1> QED
  BY <1>1 DEF Inc

\* What the model does with a registered intent, field by field.
LEMMA OnIntentParts ==
  ASSUME NEW t \in Trader, NEW out \in [intent : Order, bid0 : Nat, ask0 : Nat],
         NEW v, v = Model!Verdict(t, ModelIntent(out)), v \in Check,
         NEW u, u = Model!OnIntent(t, ModelIntent(out)),
         NEW new, new = t.pos[out.intent.symbol_idx]
                        + (IF out.intent.side = 1 THEN out.intent.shares
                           ELSE -out.intent.shares)
  PROVE  /\ u \in Trader
         /\ u.state = t.state /\ u.updates_since_fire = t.updates_since_fire
         /\ u.intent_count = t.intent_count
         /\ u.counts = [t.counts EXCEPT ![v] = Inc(@)]
         /\ u.pos = IF v = "accept" THEN [t.pos EXCEPT ![out.intent.symbol_idx] = new]
                    ELSE t.pos
         /\ u.updates_since_accept = IF v = "accept" THEN 0 ELSE t.updates_since_accept
<1> DEFINE mi == ModelIntent(out)
           i  == out.intent.symbol_idx
<1>1. /\ mi.symbol_idx = i /\ mi.shares = out.intent.shares
      /\ mi.side = "B" <=> out.intent.side = 1
  BY DEF ModelIntent
<1>2. i \in BookIdx /\ out.intent.shares \in Int
  BY TradeAssumption DEF Order
<1>3. new = t.pos[i] + (IF mi.side = "B" THEN mi.shares ELSE -mi.shares)
  BY <1>1
<1>4. v = "accept" => new \in -MAX_POSITION .. MAX_POSITION
  <2>1. new \in Int
    BY <1>2, TradeAssumption DEF Trader
  <2>2. v = "accept" => ~(Model!Abs(new) > MAX_POSITION)
    BY <1>1, <1>3 DEF Model!Verdict
  <2> QED
    BY <2>1, <2>2, TradeAssumption DEF Model!Abs
<1>5. u = [t EXCEPT !.counts = [t.counts EXCEPT ![v] = Inc(@)],
                    !.pos = IF v = "accept" THEN [t.pos EXCEPT ![i] = new] ELSE t.pos,
                    !.updates_since_accept =
                       IF v = "accept" THEN 0 ELSE t.updates_since_accept]
  <2>1. CASE v = "accept"
    BY <1>1, <1>3, <2>1 DEF Model!OnIntent, Trader, Inc
  <2>2. CASE v # "accept"
    BY <2>2 DEF Model!OnIntent, Trader, Inc
  <2> QED
    BY <2>1, <2>2
<1>6. [t.counts EXCEPT ![v] = Inc(@)] \in [Check -> 0 .. CountMod - 1]
  BY IncRange DEF Trader
<1>7. (IF v = "accept" THEN [t.pos EXCEPT ![i] = new] ELSE t.pos)
        \in [BookIdx -> -MAX_POSITION .. MAX_POSITION]
  BY <1>4 DEF Trader
<1>8. u = [state |-> t.state, updates_since_fire |-> t.updates_since_fire,
           intent_count |-> t.intent_count,
           pos |-> IF v = "accept" THEN [t.pos EXCEPT ![i] = new] ELSE t.pos,
           updates_since_accept |-> IF v = "accept" THEN 0 ELSE t.updates_since_accept,
           counts |-> [t.counts EXCEPT ![v] = Inc(@)]]
  BY <1>5 DEF Trader
<1>9. /\ t.state \in [BookIdx -> State] /\ t.intent_count \in 0 .. CountMod - 1
      /\ t.updates_since_fire \in [BookIdx -> {None} \cup 0 .. COOLDOWN_UPDATES]
      /\ (IF v = "accept" THEN 0 ELSE t.updates_since_accept) \in Nat
  BY DEF Trader
<1>10. u \in Trader
  BY <1>6, <1>7, <1>8, <1>9 DEF Trader
<1> QED
  BY <1>8, <1>10

\* What an accepted intent leaves stays within the cap.
LEMMA CapHolds ==
  ASSUME TypeOK, Accepts
  PROVE  /\ strat_out.intent.symbol_idx \in BookIdx
         /\ NewPos \in -MAX_POSITION .. MAX_POSITION
<1>1. PosOk
  BY DEF Accepts, Outcome
<1>2. /\ strat_out.intent.symbol_idx \in BookIdx
      /\ strat_out.intent.shares \in Int
      /\ pos_q[strat_out.intent.symbol_idx] \in -MAX_POSITION .. MAX_POSITION
  BY TradeAssumption DEF TypeOK, Order
<1>3. NewPos \in Int
  BY <1>2, TradeAssumption DEF NewPos
<1> QED
  BY <1>1, <1>2, <1>3, TradeAssumption DEF PosOk, Magnitude

\* The registers of the risk gate keep their types.
LEMMA GateTypes ==
  ASSUME TypeOK, NEW upd_valid \in BOOLEAN, RiskEdge(upd_valid)
  PROVE  /\ pos_q' \in [BookIdx -> -MAX_POSITION .. MAX_POSITION]
         /\ rate_q' \in 0 .. MIN_ORDER_SPACING
         /\ risk_valid' \in BOOLEAN /\ risk_out' \in Order
         /\ verdict_count' \in [Check -> 0 .. CountMod - 1]
<1>1. pos_q' \in [BookIdx -> -MAX_POSITION .. MAX_POSITION]
  BY CapHolds DEF RiskEdge, TypeOK
<1>2. rate_q' \in 0 .. MIN_ORDER_SPACING
  BY TradeAssumption DEF RiskEdge, RateOne, RateNext, TypeOK
<1>3. risk_valid' \in BOOLEAN
  BY DEF RiskEdge, Accepts, TypeOK
<1>4. risk_out' \in Order
  <2>1. NoOrder \in Order
    BY TradeAssumption DEF NoOrder, Order, BookIdx
  <2> QED
    BY <2>1 DEF RiskEdge, TypeOK
<1>5. verdict_count' \in [Check -> 0 .. CountMod - 1]
  <2>1. Outcome \in Check
    BY DEF Outcome, Check
  <2> QED
    BY <2>1, IncRange DEF RiskEdge, TypeOK, Check
<1> QED
  BY <1>1, <1>2, <1>3, <1>4, <1>5

\* The edge brings positions and counters to where the model is, and the
\* spacing count to where the model is after the update of that edge, if any.
LEMMA GateCatchesUp ==
  ASSUME TypeOK, golden \in Trader, GateAgrees, NEW upd_valid \in BOOLEAN,
         RiskEdge(upd_valid)
  PROVE  /\ pos_q' = golden.pos
         /\ verdict_count' = golden.counts
         /\ upd_valid =>
              rate_q' = Least(golden.updates_since_accept + 1, MIN_ORDER_SPACING)
         /\ ~upd_valid => rate_q' = Least(golden.updates_since_accept, MIN_ORDER_SPACING)
<1>1. pos_q' = golden.pos /\ verdict_count' = golden.counts
  BY DEF GateAgrees, RiskEdge
<1>2. golden.updates_since_accept \in Nat /\ MIN_ORDER_SPACING \in Nat
      /\ rate_q \in 0 .. MIN_ORDER_SPACING
  BY TradeAssumption DEF Trader, TypeOK
<1>3. Least(golden.updates_since_accept, MIN_ORDER_SPACING) = IF Accepts THEN 0 ELSE rate_q
  BY DEF GateAgrees
<1>4. CASE Accepts
  <2>1. rate_q' = IF upd_valid THEN RateOne ELSE 0
    BY <1>4 DEF RiskEdge
  <2>2. Least(golden.updates_since_accept, MIN_ORDER_SPACING) = 0
    BY <1>3, <1>4
  <2>3. Least(golden.updates_since_accept + 1, MIN_ORDER_SPACING) = RateOne
    BY <1>2, <2>2 DEF Least, RateOne
  <2> QED
    BY <1>1, <2>1, <2>2, <2>3
<1>5. CASE ~Accepts
  <2>1. rate_q' = IF upd_valid THEN RateNext ELSE rate_q
    BY <1>5 DEF RiskEdge
  <2>2. Least(golden.updates_since_accept, MIN_ORDER_SPACING) = rate_q
    BY <1>3, <1>5
  <2>3. Least(golden.updates_since_accept + 1, MIN_ORDER_SPACING) = RateNext
    BY <1>2, <2>2 DEF Least, RateNext
  <2> QED
    BY <1>1, <2>1, <2>2, <2>3
<1> QED
  BY <1>4, <1>5

\* Nothing appended to one element or none.
LEMMA NothingMore ==
  ASSUME NEW b \in BOOLEAN, NEW x
  PROVE  (IF b THEN <<x>> ELSE << >>) \o << >> = IF b THEN <<x>> ELSE << >>
<1>1. <<x>> \in Seq({x}) /\ << >> \in Seq({x})
  OBVIOUS
<1> QED
  BY <1>1, ConcatEmptySeq

\* Once the order on the output is taken, what is owed is the one accepted.
LEMMA OutputTaken ==
  ASSUME OrdersMatchGolden
  PROVE  Remaining = IF Accepts THEN <<strat_out.intent>> ELSE << >>
<1>1. CASE risk_valid /\ Accepts
  <2>1. owed = <<risk_out>> \o <<strat_out.intent>>
    BY <1>1 DEF OrdersMatchGolden
  <2>2. <<risk_out>> \in Seq({risk_out, strat_out.intent})
    OBVIOUS
  <2>3. owed = Append(<<risk_out>>, strat_out.intent)
    BY <2>1, <2>2, AppendIsConcat
  <2>4. Tail(owed) = Append(Tail(<<risk_out>>), strat_out.intent)
    BY <2>2, <2>3, HeadTailAppend
  <2>5. Tail(<<risk_out>>) = << >> /\ Append(<< >>, strat_out.intent) = <<strat_out.intent>>
    OBVIOUS
  <2>6. owed # << >>
    BY <2>3
  <2> QED
    BY <1>1, <2>4, <2>5, <2>6 DEF Remaining
<1>2. CASE risk_valid /\ ~Accepts
  BY <1>2 DEF OrdersMatchGolden, Remaining
<1>3. CASE ~risk_valid
  BY <1>3 DEF OrdersMatchGolden, Remaining
<1> QED
  BY <1>1, <1>2, <1>3

-----------------------------------------------------------------------------
(* The steps.                                                               *)

\* An edge without an update keeps the two in agreement.
LEMMA QuietStep ==
  ASSUME PathInv, QuietEdge
  PROVE  PathInv'
<1> USE DEF PathInv
<1>1. /\ StrategyHolds /\ RiskEdge(FALSE) /\ golden' = golden /\ owed' = Remaining
  BY DEF QuietEdge
<1>2. TypeOK'
  <2>1. NoIntent \in [intent : Order, bid0 : Nat, ask0 : Nat]
    BY TradeAssumption DEF NoIntent, NoOrder, Order, BookIdx
  <2> QED
    BY <1>1, <2>1, GateTypes DEF TypeOK, StrategyHolds, Check
<1>3. ~Accepts' /\ ~strat_valid'
  BY <1>1 DEF Accepts, StrategyHolds
<1>4. StrategyAgrees'
  BY <1>1 DEF StrategyAgrees, StrategyHolds
<1>5. GateAgrees'
  <2>1. rate_q' = Least(golden.updates_since_accept, MIN_ORDER_SPACING)
    BY <1>1, GateCatchesUp
  <2> QED
    BY <1>1, <1>3, <2>1, GateCatchesUp DEF GateAgrees
<1>6. OrdersMatchGolden'
  <2>1. owed' = IF Accepts THEN <<strat_out.intent>> ELSE << >>
    BY <1>1, OutputTaken
  <2>2. risk_valid' = Accepts /\ (Accepts => risk_out' = strat_out.intent)
    BY <1>1 DEF RiskEdge
  <2>3. owed' = IF risk_valid' THEN <<risk_out'>> ELSE << >>
    BY <2>1, <2>2
  <2> QED
    BY <1>3, <2>3, NothingMore DEF OrdersMatchGolden
<1> QED
  BY <1>1, <1>2, <1>4, <1>5, <1>6

\* With an update the strategy does what the model does.
LEMMA StrategyStep ==
  ASSUME PathInv, NEW upd \in Updates, StrategyAbsorbs(upd),
         NEW seen, seen = Model!StrategyUpdate(Model!Observed(golden), upd,
                                               Model!IntentOf(golden, upd))
  PROVE  /\ seen \in Trader
         /\ state_q' = seen.state
         /\ \A s \in BookIdx :
              cool_q'[s] = IF seen.updates_since_fire[s] = None THEN 0
                           ELSE COOLDOWN_UPDATES - seen.updates_since_fire[s]
         /\ intent_count' = seen.intent_count
         /\ seen.pos = golden.pos /\ seen.counts = golden.counts
         /\ seen.updates_since_accept = golden.updates_since_accept + 1
<1> USE DEF PathInv
<1> DEFINE i    == upd.book_idx
           fire == golden.updates_since_fire
           aged == IF Fired(upd) THEN 0 ELSE Model!Aged(fire[i])
<1>1. i \in BookIdx
  BY UpdateParts
<1>2. seen = [state |-> [golden.state EXCEPT ![i] = NxtState(upd)],
              updates_since_fire |-> [fire EXCEPT ![i] = aged],
              intent_count |-> IF Fired(upd) THEN Inc(golden.intent_count)
                               ELSE golden.intent_count,
              pos |-> golden.pos,
              updates_since_accept |-> golden.updates_since_accept + 1,
              counts |-> golden.counts]
  <2>1. Model!IntentOf(golden, upd) = None <=> ~Fired(upd)
    BY SameIntent, IntentParts
  <2> QED
    BY <2>1, SameState DEF Model!StrategyUpdate, Model!Observed, Trader, Inc
<1>3. aged \in {None} \cup 0 .. COOLDOWN_UPDATES
  <2>1. fire[i] \in {None} \cup 0 .. COOLDOWN_UPDATES
    BY <1>1 DEF Trader
  <2> QED
    BY <2>1, TradeAssumption, NoneAssumption DEF Model!Aged
<1>4. seen \in Trader
  BY <1>1, <1>2, <1>3, SameState, IncRange DEF Trader
<1>5. state_q' = seen.state
  BY <1>2 DEF StrategyAbsorbs, StrategyAgrees
<1>6. ASSUME NEW s \in BookIdx
      PROVE  cool_q'[s] = IF seen.updates_since_fire[s] = None THEN 0
                          ELSE COOLDOWN_UPDATES - seen.updates_since_fire[s]
  <2>1. cool_q[s] = IF fire[s] = None THEN 0 ELSE COOLDOWN_UPDATES - fire[s]
    BY DEF StrategyAgrees
  <2>2. fire[s] \in {None} \cup 0 .. COOLDOWN_UPDATES
    BY DEF Trader
  <2>3. cool_q'[s] = IF s # i THEN cool_q[s]
                     ELSE IF Fired(upd) THEN COOLDOWN_UPDATES
                     ELSE IF cool_q[s] # 0 THEN cool_q[s] - 1 ELSE cool_q[s]
    BY <1>1 DEF StrategyAbsorbs, TypeOK
  <2>4. seen.updates_since_fire[s] = IF s = i THEN aged ELSE fire[s]
    BY <1>1, <1>2 DEF Trader
  <2>5. CASE s # i
    BY <2>1, <2>3, <2>4, <2>5
  <2>6. CASE s = i /\ Fired(upd)
    BY <2>3, <2>4, <2>6, TradeAssumption, NoneAssumption
  <2>7. CASE s = i /\ ~Fired(upd)
    BY <2>1, <2>2, <2>3, <2>4, <2>7, TradeAssumption, NoneAssumption DEF Model!Aged
  <2> QED
    BY <2>5, <2>6, <2>7
<1>7. intent_count' = seen.intent_count
  BY <1>2 DEF StrategyAbsorbs, StrategyAgrees
<1> QED
  BY <1>2, <1>4, <1>5, <1>6, <1>7

\* And so the edge keeps the two in agreement.
LEMMA UpdateStep ==
  ASSUME PathInv, NEW upd \in Updates, UpdateEdge(upd)
  PROVE  PathInv'
<1> USE DEF PathInv
<1> DEFINE mi   == Model!IntentOf(golden, upd)
           seen == Model!StrategyUpdate(Model!Observed(golden), upd, mi)
           v    == Model!Verdict(seen, mi)
<1>1. /\ StrategyAbsorbs(upd) /\ RiskEdge(TRUE)
      /\ golden' = IF mi = None THEN seen ELSE Model!OnIntent(seen, mi)
      /\ owed' = LET order == Model!OrderFor(golden, upd)
                 IN  IF order = None THEN Remaining ELSE Append(Remaining, order)
  BY DEF UpdateEdge, Model!OnEvent
<1>2. /\ seen \in Trader /\ state_q' = seen.state
      /\ \A s \in BookIdx :
           cool_q'[s] = IF seen.updates_since_fire[s] = None THEN 0
                        ELSE COOLDOWN_UPDATES - seen.updates_since_fire[s]
      /\ intent_count' = seen.intent_count
      /\ seen.pos = golden.pos /\ seen.counts = golden.counts
      /\ seen.updates_since_accept = golden.updates_since_accept + 1
  BY <1>1, StrategyStep
<1>3. /\ pos_q' = seen.pos /\ verdict_count' = seen.counts
      /\ rate_q' = Least(seen.updates_since_accept, MIN_ORDER_SPACING)
  BY <1>1, <1>2, GateCatchesUp
<1>4. TypeOK'
  <2>1. /\ state_q' \in [BookIdx -> {"NEUTRAL", "LONG", "SHORT"}]
        /\ intent_count' \in 0 .. CountMod - 1
    BY <1>2 DEF Trader, State
  <2>2. cool_q' \in [BookIdx -> 0 .. COOLDOWN_UPDATES]
    <3> DEFINE i   == upd.book_idx
               new == IF Fired(upd) THEN COOLDOWN_UPDATES
                      ELSE IF cool_q[i] # 0 THEN cool_q[i] - 1 ELSE cool_q[i]
    <3>1. /\ COOLDOWN_UPDATES \in Nat /\ i \in BookIdx
          /\ cool_q \in [BookIdx -> 0 .. COOLDOWN_UPDATES]
      BY UpdateParts, TradeAssumption DEF TypeOK
    <3>2. cool_q' = [cool_q EXCEPT ![i] = new]
      BY <1>1 DEF StrategyAbsorbs
    <3>3. PICK x : x = new
      OBVIOUS
    <3>4. x \in 0 .. COOLDOWN_UPDATES
      <4>1. cool_q[i] \in 0 .. COOLDOWN_UPDATES
        BY <3>1
      <4> QED
        BY <3>1, <3>3, <4>1
    <3>5. cool_q' = [cool_q EXCEPT ![i] = x]
      BY <3>2, <3>3
    <3> HIDE DEF i, new
    <3> QED
      BY <3>1, <3>4, <3>5
  <2>3. strat_valid' \in BOOLEAN /\ strat_out' \in [intent : Order, bid0 : Nat, ask0 : Nat]
    <3>1. NoIntent \in [intent : Order, bid0 : Nat, ask0 : Nat]
      BY TradeAssumption DEF NoIntent, NoOrder, Order, BookIdx
    <3> QED
      BY <1>1, <3>1, IntentParts DEF StrategyAbsorbs, Fired, DoBuy, DoSell
  <2> QED
    BY <1>1, <2>1, <2>2, <2>3, GateTypes DEF TypeOK, Check
<1>5. Remaining = IF risk_valid' THEN <<risk_out'>> ELSE << >>
  BY <1>1, OutputTaken DEF RiskEdge
<1>6. risk_valid' \in BOOLEAN
  BY <1>4 DEF TypeOK
<1>7. CASE ~Fired(upd)
  <2>1. mi = None /\ golden' = seen
    BY <1>1, <1>7, SameIntent
  <2>2. ~strat_valid' /\ ~Accepts'
    BY <1>1, <1>7 DEF StrategyAbsorbs, Accepts
  <2>3. StrategyAgrees'
    BY <1>2, <2>1 DEF StrategyAgrees
  <2>4. GateAgrees'
    BY <1>3, <2>1, <2>2 DEF GateAgrees
  <2>5. owed' = Remaining
    BY <1>1, <2>1 DEF Model!OrderFor
  <2>6. OrdersMatchGolden'
    BY <1>5, <1>6, <2>2, <2>5, NothingMore DEF OrdersMatchGolden
  <2> QED
    BY <1>2, <1>4, <2>1, <2>3, <2>4, <2>6
<1>8. CASE Fired(upd)
  <2>1. mi = ModelIntent(strat_out') /\ mi # None /\ strat_valid'
        /\ strat_out' = IntentFor(upd)
    BY <1>1, <1>8, SameIntent, IntentParts DEF StrategyAbsorbs
  <2>2. v = Outcome' /\ v \in Check
    BY <1>2, <1>3, <1>4, <2>1, SameVerdict DEF Trader
  <2>3. Accepts' <=> v = "accept"
    BY <2>1, <2>2 DEF Accepts
  <2>4. golden' = Model!OnIntent(seen, mi)
    BY <1>1, <2>1
  <2>5. NewPos' = seen.pos[strat_out'.intent.symbol_idx]
                  + (IF strat_out'.intent.side = 1 THEN strat_out'.intent.shares
                     ELSE -strat_out'.intent.shares)
    BY <1>3 DEF NewPos
  <2>6. /\ golden' \in Trader
        /\ golden'.state = seen.state
        /\ golden'.updates_since_fire = seen.updates_since_fire
        /\ golden'.intent_count = seen.intent_count
        /\ golden'.counts = [seen.counts EXCEPT ![v] = Inc(@)]
        /\ golden'.pos = IF v = "accept"
                         THEN [seen.pos EXCEPT ![strat_out'.intent.symbol_idx] = NewPos']
                         ELSE seen.pos
        /\ golden'.updates_since_accept =
             IF v = "accept" THEN 0 ELSE seen.updates_since_accept
    <3>1. strat_out' \in [intent : Order, bid0 : Nat, ask0 : Nat]
      BY <2>1, IntentParts
    <3> QED
      BY <1>2, <2>1, <2>2, <2>4, <2>5, <3>1, OnIntentParts
  <2>7. StrategyAgrees'
    BY <1>2, <2>6 DEF StrategyAgrees
  <2>8. GateAgrees'
    <3>1. golden'.pos = IF Accepts'
                        THEN [pos_q' EXCEPT ![strat_out'.intent.symbol_idx] = NewPos']
                        ELSE pos_q'
      BY <1>3, <2>3, <2>6
    <3>2. golden'.counts = [verdict_count' EXCEPT ![Outcome'] = Inc(@)]
      BY <1>3, <2>2, <2>6
    <3>3. Least(golden'.updates_since_accept, MIN_ORDER_SPACING)
            = IF Accepts' THEN 0 ELSE rate_q'
      BY <1>3, <2>3, <2>6, TradeAssumption DEF Least
    <3> QED
      BY <2>1, <3>1, <3>2, <3>3 DEF GateAgrees
  <2>9. OrdersMatchGolden'
    <3>1. /\ Model!Observed(golden).pos = seen.pos
          /\ Model!Observed(golden).updates_since_accept = seen.updates_since_accept
      BY <1>2 DEF Model!Observed, Trader
    <3>2. Model!Verdict(Model!Observed(golden), mi) = v
      BY <3>1 DEF Model!Verdict
    <3>3. strat_out'.intent =
            [symbol_idx |-> mi.symbol_idx, side |-> IF mi.side = "B" THEN 1 ELSE 0,
             shares |-> mi.shares, price |-> mi.price]
      BY <2>1 DEF ModelIntent, IntentFor
    <3>4. Model!OrderFor(golden, upd) =
            IF v = "accept" THEN strat_out'.intent ELSE None
      BY <2>1, <3>2, <3>3 DEF Model!OrderFor
    <3>5. strat_out'.intent # None
      BY <2>1, IntentParts, NoneAssumption
    <3>6. owed' = IF Accepts' THEN Append(Remaining, strat_out'.intent) ELSE Remaining
      BY <1>1, <2>3, <3>4, <3>5
    <3>7. CASE Accepts'
      <4>1. /\ <<risk_out'>> \in Seq({risk_out', strat_out'.intent})
            /\ << >> \in Seq({risk_out', strat_out'.intent})
        OBVIOUS
      <4>2. owed' = Remaining \o <<strat_out'.intent>>
        BY <1>5, <3>6, <3>7, <4>1, AppendIsConcat
      <4> QED
        BY <1>5, <3>7, <4>2 DEF OrdersMatchGolden
    <3>8. CASE ~Accepts'
      BY <1>5, <1>6, <3>6, <3>8, NothingMore DEF OrdersMatchGolden
    <3> QED
      BY <3>7, <3>8
  <2> QED
    BY <1>4, <2>6, <2>7, <2>8, <2>9
<1> QED
  BY <1>7, <1>8

\* All verdict counters at zero are counters.
LEMMA ZeroCounts ==
  [accept |-> 0, sanity |-> 0, collar |-> 0, rate |-> 0, pos |-> 0]
    \in [Check -> 0 .. CountMod - 1]
  BY TradeAssumption DEF Check

\* The reset values are of the types of the registers.
LEMMA ZeroRegisters ==
  /\ NoOrder \in Order /\ NoIntent \in [intent : Order, bid0 : Nat, ask0 : Nat]
  /\ [s \in BookIdx |-> "NEUTRAL"] \in [BookIdx -> {"NEUTRAL", "LONG", "SHORT"}]
  /\ [s \in BookIdx |-> 0] \in [BookIdx -> 0 .. COOLDOWN_UPDATES]
  /\ [s \in BookIdx |-> 0] \in [BookIdx -> -MAX_POSITION .. MAX_POSITION]
  /\ 0 \in 0 .. CountMod - 1 /\ 0 \in 0 .. MIN_ORDER_SPACING
<1>1. NoOrder \in Order /\ NoIntent \in [intent : Order, bid0 : Nat, ask0 : Nat]
  BY TradeAssumption DEF NoIntent, NoOrder, Order, BookIdx
<1>2. /\ 0 \in 0 .. COOLDOWN_UPDATES /\ 0 \in -MAX_POSITION .. MAX_POSITION
      /\ 0 \in 0 .. CountMod - 1 /\ 0 \in 0 .. MIN_ORDER_SPACING
  BY TradeAssumption
<1> QED
  BY <1>1, <1>2

\* The golden trader at its start.
LEMMA StartsAgreed ==
  ASSUME NEW t, t = Model!NewTrader
  PROVE  /\ t \in Trader
         /\ t.state = [s \in BookIdx |-> "NEUTRAL"]
         /\ t.updates_since_fire = [s \in BookIdx |-> None]
         /\ t.intent_count = 0
         /\ t.pos = [s \in BookIdx |-> 0]
         /\ t.updates_since_accept = 0
         /\ t.counts = [accept |-> 0, sanity |-> 0, collar |-> 0, rate |-> 0, pos |-> 0]
  BY ZeroCounts, TradeAssumption
     DEF Model!NewTrader, Model!Symbols, BookIdx, Trader, State

\* The two agree after power-up.
LEMMA InitInv == Init => PathInv
<1> SUFFICES ASSUME Init PROVE PathInv
  OBVIOUS
<1>1. TypeOK
  BY ZeroCounts, ZeroRegisters DEF Init, TypeOK, Check
<1>2. ~Accepts
  BY DEF Init, Accepts
<1>3. golden \in Trader /\ StrategyAgrees
  BY StartsAgreed DEF Init, StrategyAgrees
<1>4. GateAgrees
  BY <1>2, StartsAgreed, TradeAssumption DEF Init, GateAgrees, Least
<1>5. OrdersMatchGolden
  BY <1>2 DEF Init, OrdersMatchGolden
<1> QED
  BY <1>1, <1>3, <1>4, <1>5 DEF PathInv

\* And after a reset.
LEMMA ResetStep == Reset => PathInv'
<1> SUFFICES ASSUME Reset PROVE PathInv'
  OBVIOUS
<1>1. TypeOK'
  BY ZeroCounts, ZeroRegisters DEF Reset, TypeOK, Check
<1>2. ~Accepts'
  BY DEF Reset, Accepts
<1>3. golden' \in Trader /\ StrategyAgrees'
  BY StartsAgreed DEF Reset, StrategyAgrees
<1>4. GateAgrees'
  BY <1>2, StartsAgreed, TradeAssumption DEF Reset, GateAgrees, Least
<1>5. OrdersMatchGolden'
  BY <1>2 DEF Reset, OrdersMatchGolden
<1> QED
  BY <1>1, <1>3, <1>4, <1>5 DEF PathInv

\* Every edge keeps them in agreement.
LEMMA PathStep ==
  ASSUME PathInv, [Next]_vars
  PROVE  PathInv'
<1>1. CASE Reset
  BY <1>1, ResetStep
<1>2. CASE QuietEdge
  BY <1>2, QuietStep
<1>3. ASSUME NEW upd \in Updates, UpdateEdge(upd)
      PROVE  PathInv'
  BY <1>3, UpdateStep
<1>4. CASE UNCHANGED vars
  BY <1>4
     DEF PathInv, TypeOK, StrategyAgrees, GateAgrees, OrdersMatchGolden, Accepts, Outcome,
         Sane, CollarOk, Band, Mid, RateOk, PosOk, NewPos, vars, strategyVars, riskVars
<1> QED
  BY <1>1, <1>2, <1>3, <1>4 DEF Next

\* Strategy and gate stay where the golden trader is, for any symbols, levels,
\* thresholds, cooldown, cap, spacing and collar, and any spacing of updates.
THEOREM PathInvariant == Spec => []PathInv
  BY InitInv, PathStep, PTL DEF Spec

\* Every register keeps its type; positions never leave the cap (risk_gate.sv
\* lines 112-117).
THEOREM TypeCorrect == Spec => []TypeOK
<1>1. PathInv => TypeOK
  BY DEF PathInv
<1> QED
  BY <1>1, PathInvariant, PTL

\* The strategy's states, cooldowns and count are the model's.
THEOREM StrategyFollowsModel == Spec => []StrategyAgrees
<1>1. PathInv => StrategyAgrees
  BY DEF PathInv
<1> QED
  BY <1>1, PathInvariant, PTL

\* The gate's positions, spacing and counters are the model's once the intent
\* at its input is judged.
THEOREM GateFollowsModel == Spec => []GateAgrees
<1>1. PathInv => GateAgrees
  BY DEF PathInv
<1> QED
  BY <1>1, PathInvariant, PTL

\* The orders at the gate's output are the model's orders, two edges later.
THEOREM OrdersAreGolden == Spec => []OrdersMatchGolden
<1>1. PathInv => OrdersMatchGolden
  BY DEF PathInv
<1> QED
  BY <1>1, PathInvariant, PTL

-----------------------------------------------------------------------------
(* The system, down to the frames.                                         *)

\* No value of Nothing matters to the ring; this one is no frame.
Ring == INSTANCE OuchEncoderProofs
          WITH NoOrder <- None, state_q <- ouch_state_q, Nothing <- << >>

\* The last four updates: the first stage is what the gate is about to accept,
\* the second what it has put out.
PipeInv ==
  /\ pipe \in Seq(Order \cup {None}) /\ Len(pipe) = 4
  /\ pipe[1] = IF Accepts THEN strat_out.intent ELSE None
  /\ pipe[2] = IF risk_valid THEN risk_out ELSE None

\* While accepted orders come a frame apart: the third stage is the ring, the
\* fourth the frame that starts, and the serializer is always done with a frame
\* before the next order reaches it.
CalmInv ==
  /\ accept_gap \in 1 .. FRAME_LEN
  /\ accept_gap = 1 <=> risk_valid
  /\ calm =>
       /\ fifo_drop_count = 0
       /\ count_q = IF pipe[3] = None THEN 0 ELSE 1
       /\ pipe[3] # None => queue_mem[rd_ptr_q] = pipe[3] /\ accept_gap = 2
       /\ u_ouch!frame_start <=> pipe[4] # None
       /\ u_ouch!frame_start => cur_intent_q = pipe[4]
       /\ u_ouch!Sending =>
            /\ pipe[2] # None => byte_idx_q >= FRAME_LEN - 2
            /\ pipe[3] # None => byte_idx_q >= FRAME_LEN - 1
            /\ pipe[2] = None /\ pipe[3] = None => accept_gap <= byte_idx_q + 3

Pending == (IF risk_valid THEN 1 ELSE 0) + (IF Accepts THEN 1 ELSE 0)

\* The count of drops stops short of its wrap.
DropInv == fifo_drop_count + Pending <= MaxDrops + 2

Net == [BookIdx -> Int]

\* net[i] is what the wire will have carried when i of the waiting orders have
\* been sent.
Course(net) ==
  /\ net \in [0 .. FIFO_DEPTH -> Net]
  /\ net[0] = exposure
  /\ \A i \in 0 .. count_q - 1 :
       /\ Waits(i) \in Order
       /\ \A s \in BookIdx : net[i + 1][s] = net[i][s] + Part(Waits(i), s)
  /\ \A s \in BookIdx :
       pos_q[s] = net[count_q][s] + lost[s] + (IF risk_valid THEN Part(risk_out, s) ELSE 0)
  /\ fifo_drop_count = 0 =>
       \A s \in BookIdx :
         /\ lost[s] = 0
         /\ \A i \in 0 .. count_q : net[i][s] \in -MAX_POSITION .. MAX_POSITION

ExposureInv == exposure \in Net /\ lost \in Net /\ \E net : Course(net)

TopInv == PathInv /\ Ring!EncoderInv /\ PipeInv /\ CalmInv /\ DropInv /\ ExposureInv

-----------------------------------------------------------------------------
(* The encoder as the proofs about it see it.                               *)

\* The constants of the top level are ones the proofs of the encoder are about.
LEMMA EncoderConstants == Ring!EncoderAssumption /\ Ring!NothingAssumption
  BY TickToTradeAssumption, TradeAssumption, NoneAssumption
     DEF Ring!EncoderAssumption, Ring!NothingAssumption

\* The instance of the encoder in the top level is that of its proofs.
LEMMA SameEncoder ==
  /\ u_ouch!Sending <=> Ring!Sending
  /\ u_ouch!LastByte <=> Ring!LastByte
  /\ u_ouch!pop_ok <=> Ring!pop_ok
  /\ u_ouch!Popped = Ring!Popped
  /\ u_ouch!HasRoom <=> Ring!HasRoom
  /\ u_ouch!Serialize <=> Ring!Serialize
  /\ \A p : u_ouch!Next_ptr(p) = Ring!Next_ptr(p)
  BY DEF u_ouch!Sending, Ring!Sending, u_ouch!LastByte, Ring!LastByte, u_ouch!pop_ok,
         Ring!pop_ok, u_ouch!Popped, Ring!Popped, u_ouch!HasRoom, Ring!HasRoom,
         u_ouch!Serialize, Ring!Serialize, u_ouch!Next_ptr, Ring!Next_ptr

\* So the edges of the top level keep the invariant of the encoder.
LEMMA EncoderKeeps ==
  ASSUME Ring!EncoderInv, TypeOK, EncoderEdge
  PROVE  Ring!EncoderInv'
<1>1. CASE risk_valid /\ u_ouch!Push(risk_out)
  <2>1. risk_out \in Order
    BY DEF TypeOK
  <2>2. Ring!Push(risk_out)
    BY <1>1, SameEncoder DEF u_ouch!Push, Ring!Push
  <2> QED
    BY <2>1, <2>2, EncoderConstants, Ring!EncoderStep DEF Ring!Next
<1>2. CASE risk_valid /\ u_ouch!Drop
  <2>1. Ring!Drop
    BY <1>2, SameEncoder DEF u_ouch!Drop, Ring!Drop
  <2> QED
    BY <2>1, EncoderConstants, Ring!EncoderStep DEF Ring!Next
<1>3. CASE ~risk_valid /\ u_ouch!NoInput
  <2>1. Ring!NoInput
    BY <1>3, SameEncoder DEF u_ouch!NoInput, Ring!NoInput
  <2> QED
    BY <2>1, EncoderConstants, Ring!EncoderStep DEF Ring!Next
<1> QED
  BY <1>1, <1>2, <1>3 DEF EncoderEdge

\* What that invariant says of the registers.
LEMMA EncoderTypes ==
  ASSUME Ring!EncoderInv
  PROVE  /\ FIFO_DEPTH \in Nat \ {0} /\ FRAME_LEN \in Nat /\ FRAME_LEN >= 2
         /\ queue_mem \in [0 .. FIFO_DEPTH - 1 -> Order \cup {None}]
         /\ wr_ptr_q \in 0 .. FIFO_DEPTH - 1 /\ rd_ptr_q \in 0 .. FIFO_DEPTH - 1
         /\ count_q \in 0 .. FIFO_DEPTH
         /\ byte_idx_q \in 0 .. FRAME_LEN - 1
         /\ fifo_drop_count \in 0 .. CountMod - 1
         /\ wr_ptr_q = (rd_ptr_q + count_q) % FIFO_DEPTH
  BY TickToTradeAssumption
     DEF Ring!EncoderInv, Ring!TypeOK, Ring!RingConsistent, Ring!Slot

-----------------------------------------------------------------------------
(* The pipeline.                                                            *)

\* What an edge of the trade path does at the gate.
LEMMA GateEdge ==
  ASSUME NEW upd_valid \in BOOLEAN, RiskEdge(upd_valid)
  PROVE  /\ risk_valid' = Accepts
         /\ risk_out' = IF Accepts THEN strat_out.intent ELSE NoOrder
         /\ pos_q' = IF Accepts
                     THEN [pos_q EXCEPT ![strat_out.intent.symbol_idx] = NewPos] ELSE pos_q
  BY DEF RiskEdge

\* The model makes an order of an update exactly if the gate will accept it.
LEMMA OrderOfUpdate ==
  ASSUME PathInv, PathInv', NEW upd \in Updates, UpdateEdge(upd)
  PROVE  Model!OrderFor(golden, upd) = IF Accepts' THEN strat_out'.intent ELSE None
<1> DEFINE order == Model!OrderFor(golden, upd)
           got   == IF Accepts THEN <<strat_out.intent>> ELSE << >>
           next  == strat_out'.intent
<1>1. Remaining = got
  BY OutputTaken DEF PathInv
<1>2. owed' = got \o (IF Accepts' THEN <<next>> ELSE << >>)
  <2>1. risk_valid' = Accepts /\ (Accepts => risk_out' = strat_out.intent)
    BY DEF UpdateEdge, RiskEdge
  <2> QED
    BY <2>1 DEF PathInv, OrdersMatchGolden
<1>3. owed' = IF order = None THEN got ELSE Append(got, order)
  BY <1>1 DEF UpdateEdge
<1> DEFINE T == {strat_out.intent, next, order}
<1>4. got \in Seq(T) /\ order \in T /\ next \in T
  <2>1. <<strat_out.intent>> \in Seq(T) /\ << >> \in Seq(T)
    OBVIOUS
  <2> QED
    BY <2>1
<1> HIDE DEF T, got, order, next
<1>5. CASE Accepts'
  <2>1. owed' = Append(got, next)
    BY <1>2, <1>4, <1>5, AppendIsConcat
  <2>2. Append(got, next) # got
    BY <1>4
  <2>3. Append(got, next) = Append(got, order)
    BY <1>3, <2>1, <2>2
  <2>4. next = order
    BY <1>4, <2>3
  <2>5. order # None
    BY <1>3, <2>1, <2>2
  <2> QED
    BY <1>5, <2>4 DEF order, next
<1>6. CASE ~Accepts'
  <2>1. owed' = got
    BY <1>2, <1>4, <1>6, ConcatEmptySeq
  <2>2. Append(got, order) # got
    BY <1>4
  <2> QED
    BY <1>3, <1>6, <2>1, <2>2 DEF order
<1> QED
  BY <1>5, <1>6

\* The edges of the specification, seen from the pipeline.
LEMMA TopEdge ==
  ASSUME TopInv, NEW order,
         \/ \E upd \in Updates : TopUpdate(upd) /\ order = Model!OrderFor(golden, upd)
         \/ TopQuiet /\ order = None
  PROVE  /\ PathInv' /\ EncoderEdge /\ Record(order)
         /\ order = IF Accepts' THEN strat_out'.intent ELSE None
         /\ order \in Order \cup {None}
         /\ \E upd_valid \in BOOLEAN : RiskEdge(upd_valid)
         /\ Accepts' => fifo_drop_count < MaxDrops
<1>1. CASE \E upd \in Updates : TopUpdate(upd) /\ order = Model!OrderFor(golden, upd)
  <2>1. PICK upd \in Updates : TopUpdate(upd) /\ order = Model!OrderFor(golden, upd)
    BY <1>1
  <2>2. PathInv /\ UpdateEdge(upd) /\ PathInv' /\ EncoderEdge /\ Record(order)
        /\ fifo_drop_count < MaxDrops
    BY <2>1, UpdateStep DEF TopUpdate, TopInv
  <2>3. order = IF Accepts' THEN strat_out'.intent ELSE None
    BY <2>1, <2>2, OrderOfUpdate
  <2>4. strat_out'.intent \in Order
    BY <2>2 DEF PathInv, TypeOK
  <2> QED
    BY <2>2, <2>3, <2>4 DEF UpdateEdge
<1>2. CASE TopQuiet /\ order = None
  <2>1. QuietEdge /\ PathInv' /\ EncoderEdge /\ Record(order)
    BY <1>2, QuietStep DEF TopQuiet, TopInv
  <2>2. ~Accepts'
    BY <2>1 DEF QuietEdge, StrategyHolds, Accepts
  <2> QED
    BY <1>2, <2>1, <2>2 DEF QuietEdge
<1> QED
  BY <1>1, <1>2

\* Each edge moves the accepted order one stage on.
LEMMA PipeStep ==
  ASSUME TopInv, PathInv', EncoderEdge,
         NEW order \in Order \cup {None}, Record(order),
         order = IF Accepts' THEN strat_out'.intent ELSE None,
         NEW upd_valid \in BOOLEAN, RiskEdge(upd_valid)
  PROVE  /\ PipeInv'
         /\ pipe'[2] = pipe[1] /\ pipe'[3] = pipe[2] /\ pipe'[4] = pipe[3]
<1>1. pipe \in Seq(Order \cup {None}) /\ Len(pipe) = 4
  BY DEF TopInv, PipeInv
<1>2. /\ SubSeq(pipe, 1, 3) \in Seq(Order \cup {None}) /\ Len(SubSeq(pipe, 1, 3)) = 3
      /\ \A i \in 1 .. 3 : SubSeq(pipe, 1, 3)[i] = pipe[i]
  BY <1>1, SubSeqProperties
<1> DEFINE back == SubSeq(pipe, 1, 3)
<1>3. <<order>> \in Seq(Order \cup {None}) /\ Len(<<order>>) = 1 /\ <<order>>[1] = order
  OBVIOUS
<1>4. pipe' = <<order>> \o back
  BY DEF Record
<1> HIDE DEF back
<1>5. /\ pipe' \in Seq(Order \cup {None}) /\ Len(pipe') = 4
      /\ pipe'[1] = order
      /\ pipe'[2] = back[1] /\ pipe'[3] = back[2] /\ pipe'[4] = back[3]
  BY <1>2, <1>3, <1>4 DEF back
<1>6. pipe'[2] = pipe[1] /\ pipe'[3] = pipe[2] /\ pipe'[4] = pipe[3]
  BY <1>2, <1>5 DEF back
<1>7. pipe'[2] = IF risk_valid' THEN risk_out' ELSE None
  BY <1>6, GateEdge DEF TopInv, PipeInv
<1> QED
  BY <1>5, <1>6, <1>7 DEF PipeInv

\* An order in a stage of the pipeline is not None.
LEMMA StageIsOrder ==
  ASSUME PathInv, PipeInv
  PROVE  /\ pipe[1] # None <=> Accepts
         /\ pipe[2] # None <=> risk_valid
         /\ risk_out \in Order /\ strat_out.intent \in Order
  BY NoneAssumption DEF PathInv, TypeOK, PipeInv

\* Each edge keeps the encoder in step with the pipe, while accepted orders come a frame apart.
LEMMA CalmStep ==
  ASSUME TopInv, PathInv', EncoderEdge,
         NEW order \in Order \cup {None}, Record(order),
         order = IF Accepts' THEN strat_out'.intent ELSE None,
         NEW upd_valid \in BOOLEAN, RiskEdge(upd_valid)
  PROVE  CalmInv'
<1>1. /\ FIFO_DEPTH \in Nat \ {0} /\ FRAME_LEN \in Nat /\ FRAME_LEN >= 2
      /\ queue_mem \in [0 .. FIFO_DEPTH - 1 -> Order \cup {None}]
      /\ wr_ptr_q \in 0 .. FIFO_DEPTH - 1 /\ rd_ptr_q \in 0 .. FIFO_DEPTH - 1
      /\ count_q \in 0 .. FIFO_DEPTH
      /\ byte_idx_q \in 0 .. FRAME_LEN - 1
      /\ wr_ptr_q = (rd_ptr_q + count_q) % FIFO_DEPTH
  BY EncoderTypes DEF TopInv
<1>2. /\ pipe[1] # None <=> Accepts
      /\ pipe[2] # None <=> risk_valid
      /\ risk_valid => pipe[2] = risk_out
      /\ pipe'[2] # None <=> Accepts
  BY StageIsOrder, PipeStep DEF TopInv, PipeInv
<1>3. pipe'[2] = pipe[1] /\ pipe'[3] = pipe[2] /\ pipe'[4] = pipe[3]
  BY PipeStep
<1>4. /\ accept_gap' = IF Accepts THEN 1
                       ELSE IF accept_gap + 1 < FRAME_LEN THEN accept_gap + 1 ELSE FRAME_LEN
      /\ calm' = (calm /\ (Accepts => accept_gap >= FRAME_LEN))
  BY DEF Record, Least
<1>5. accept_gap \in 1 .. FRAME_LEN /\ (accept_gap = 1 <=> risk_valid)
  BY DEF TopInv, CalmInv
<1>6. accept_gap' \in 1 .. FRAME_LEN /\ (accept_gap' = 1 <=> risk_valid')
  <2>1. risk_valid' <=> Accepts
    BY GateEdge
  <2>2. CASE Accepts
    BY <1>1, <1>4, <2>1, <2>2
  <2>3. CASE ~Accepts
    BY <1>1, <1>4, <1>5, <2>1, <2>3
  <2> QED
    BY <2>2, <2>3
<1>7. SUFFICES
        ASSUME calm'
        PROVE  /\ fifo_drop_count' = 0
               /\ count_q' = IF pipe[2] = None THEN 0 ELSE 1
               /\ pipe[2] # None => queue_mem'[rd_ptr_q'] = pipe[2] /\ accept_gap' = 2
               /\ u_ouch!frame_start' <=> pipe[3] # None
               /\ u_ouch!frame_start' => cur_intent_q' = pipe[3]
               /\ u_ouch!Sending' =>
                    /\ pipe[1] # None => byte_idx_q' >= FRAME_LEN - 2
                    /\ pipe[2] # None => byte_idx_q' >= FRAME_LEN - 1
                    /\ pipe[1] = None /\ pipe[2] = None => accept_gap' <= byte_idx_q' + 3
  BY <1>3, <1>6 DEF CalmInv
<1>8. calm /\ (Accepts => accept_gap = FRAME_LEN)
  <2>1. calm /\ (Accepts => accept_gap >= FRAME_LEN)
    BY <1>4, <1>7, Zenon
  <2> QED
    BY <1>1, <1>5, <2>1
<1>9. /\ fifo_drop_count = 0
      /\ count_q = IF pipe[3] = None THEN 0 ELSE 1
      /\ pipe[3] # None => queue_mem[rd_ptr_q] = pipe[3] /\ accept_gap = 2
      /\ u_ouch!Sending =>
           /\ pipe[2] # None => byte_idx_q >= FRAME_LEN - 2
           /\ pipe[3] # None => byte_idx_q >= FRAME_LEN - 1
           /\ pipe[2] = None /\ pipe[3] = None => accept_gap <= byte_idx_q + 3
  BY <1>8 DEF TopInv, CalmInv
<1>10. u_ouch!pop_ok <=> pipe[3] # None
  BY <1>1, <1>9 DEF u_ouch!pop_ok, u_ouch!LastByte
<1>11. pipe[2] # None => pipe[3] = None /\ ~Accepts
  BY <1>1, <1>2, <1>5, <1>8, <1>9
<1>12. /\ u_ouch!Serialize
       /\ u_ouch!Popped = IF pipe[3] # None THEN 1 ELSE 0
  BY <1>10 DEF EncoderEdge, u_ouch!Push, u_ouch!Drop, u_ouch!NoInput, u_ouch!Popped
<1>13. /\ fifo_drop_count' = 0
       /\ count_q' = IF pipe[2] = None THEN 0 ELSE 1
       /\ pipe[2] # None => queue_mem'[rd_ptr_q'] = pipe[2] /\ accept_gap' = 2
  <2>1. CASE risk_valid
    <3>1. pipe[2] # None /\ pipe[3] = None /\ count_q = 0 /\ ~u_ouch!pop_ok
      BY <1>2, <1>9, <1>10, <1>11, <2>1
    <3>2. u_ouch!Push(risk_out)
      BY <1>1, <2>1, <3>1 DEF EncoderEdge, u_ouch!Drop, u_ouch!HasRoom
    <3>3. rd_ptr_q' = rd_ptr_q /\ wr_ptr_q = rd_ptr_q
      BY <1>1, <1>12, <3>1 DEF u_ouch!Serialize
    <3>4. queue_mem'[rd_ptr_q'] = risk_out
      BY <1>1, <3>2, <3>3 DEF u_ouch!Push
    <3>5. accept_gap' = 2
      BY <1>1, <1>2, <1>4, <1>5, <1>11, <2>1
    <3> QED
      BY <1>2, <1>9, <1>12, <2>1, <3>1, <3>2, <3>4, <3>5 DEF u_ouch!Push
  <2>2. CASE ~risk_valid
    BY <1>1, <1>2, <1>9, <1>12, <2>2 DEF EncoderEdge, u_ouch!NoInput
  <2> QED
    BY <2>1, <2>2
<1>14. /\ u_ouch!Sending' <=> u_ouch!pop_ok \/ (u_ouch!Sending /\ ~u_ouch!LastByte)
       /\ byte_idx_q' = IF u_ouch!pop_ok THEN 0
                        ELSE IF u_ouch!Sending /\ ~u_ouch!LastByte THEN byte_idx_q + 1
                        ELSE byte_idx_q
       /\ cur_intent_q' = IF u_ouch!pop_ok THEN queue_mem[rd_ptr_q] ELSE cur_intent_q
  BY <1>12 DEF u_ouch!Serialize, u_ouch!Sending, u_ouch!LastByte
<1>15. u_ouch!LastByte <=> u_ouch!Sending /\ byte_idx_q = FRAME_LEN - 1
  BY DEF u_ouch!LastByte
<1>16. u_ouch!frame_start' <=> u_ouch!Sending' /\ byte_idx_q' = 0
  BY DEF u_ouch!frame_start
<1>17. CASE pipe[3] # None
  BY <1>1, <1>2, <1>4, <1>8, <1>9, <1>10, <1>11, <1>13, <1>14, <1>16, <1>17
<1>18. CASE pipe[3] = None
  <2>1. u_ouch!Sending' <=> u_ouch!Sending /\ byte_idx_q # FRAME_LEN - 1
    BY <1>10, <1>14, <1>15, <1>18
  <2>2. u_ouch!Sending' => byte_idx_q' = byte_idx_q + 1
    BY <1>10, <1>14, <1>15, <1>18
  <2>3. ~u_ouch!frame_start'
    BY <1>1, <1>16, <2>1, <2>2
  <2>4. ASSUME u_ouch!Sending'
        PROVE  /\ pipe[1] # None => byte_idx_q' >= FRAME_LEN - 2
               /\ pipe[2] # None => byte_idx_q' >= FRAME_LEN - 1
               /\ pipe[1] = None /\ pipe[2] = None => accept_gap' <= byte_idx_q' + 3
    <3>1. pipe[2] # None => byte_idx_q >= FRAME_LEN - 2
      BY <1>9, <2>1, <2>4
    <3>2. pipe[2] = None => accept_gap <= byte_idx_q + 3
      BY <1>9, <1>18, <2>1, <2>4
    <3>3. pipe[1] # None => accept_gap = FRAME_LEN /\ pipe[2] = None
      BY <1>2, <1>8, <1>11
    <3>4. pipe[1] = None => accept_gap' <= accept_gap + 1
      BY <1>1, <1>2, <1>4, <1>5
    <3> QED
      BY <1>1, <1>5, <1>6, <2>2, <2>4, <3>1, <3>2, <3>3, <3>4
  <2> QED
    BY <1>13, <1>18, <2>3, <2>4
<1> QED
  BY <1>17, <1>18

-----------------------------------------------------------------------------
(* Drops and exposure.                                                      *)

\* The drop counter counts the orders that find no room, and stays in its bound.
LEMMA DropStep ==
  ASSUME TopInv, EncoderEdge, NEW upd_valid \in BOOLEAN, RiskEdge(upd_valid),
         Accepts' => fifo_drop_count < MaxDrops
  PROVE  /\ DropInv'
         /\ fifo_drop_count' = fifo_drop_count
              + (IF risk_valid /\ ~u_ouch!HasRoom THEN 1 ELSE 0)
<1>1. fifo_drop_count \in Nat
  BY EncoderTypes, TradeAssumption DEF TopInv
<1>2. /\ CountMod \in Nat /\ MaxDrops \in Nat /\ MaxDrops + 2 < CountMod
  BY TradeAssumption, TickToTradeAssumption
<1>3. fifo_drop_count + Pending <= MaxDrops + 2
  BY DEF TopInv, DropInv
<1>4. fifo_drop_count + (IF risk_valid THEN 1 ELSE 0) + (IF Accepts THEN 1 ELSE 0)
        <= MaxDrops + 2
  BY <1>1, <1>2, <1>3 DEF Pending
<1>5. fifo_drop_count' = fifo_drop_count
        + (IF risk_valid /\ ~u_ouch!HasRoom THEN 1 ELSE 0)
  <2>1. CASE risk_valid /\ u_ouch!Drop
    <3>1. (fifo_drop_count + 1) % CountMod = fifo_drop_count + 1
      BY <1>1, <1>2, <1>4, <2>1
    <3> QED
      BY <2>1, <3>1 DEF u_ouch!Drop
  <2>2. CASE risk_valid /\ u_ouch!Push(risk_out)
    BY <1>1, <2>2 DEF u_ouch!Push
  <2>3. CASE ~risk_valid /\ u_ouch!NoInput
    BY <1>1, <2>3 DEF u_ouch!NoInput
  <2> QED
    BY <2>1, <2>2, <2>3 DEF EncoderEdge
<1>6. risk_valid' <=> Accepts
  BY GateEdge
<1>7. fifo_drop_count' + (IF risk_valid' THEN 1 ELSE 0) + (IF Accepts' THEN 1 ELSE 0)
        <= MaxDrops + 2
  <2>1. CASE Accepts'
    BY <1>1, <1>2, <1>5, <2>1
  <2>2. CASE ~Accepts'
    BY <1>1, <1>2, <1>4, <1>5, <1>6, <2>2
  <2> QED
    BY <2>1, <2>2
<1>8. fifo_drop_count' \in Nat
  BY <1>1, <1>5
<1> QED
  BY <1>2, <1>5, <1>7, <1>8 DEF DropInv, Pending

\* What an order adds to a net position is a number.
LEMMA PartTyped ==
  ASSUME NEW order \in Order
  PROVE  Signed(order) \in Int /\ \A s \in BookIdx : Part(order, s) \in Int
<1>1. order.shares \in Int /\ order.side \in {0, 1}
  BY TradeAssumption DEF Order
<1> QED
  BY <1>1 DEF Signed, Part

\* An order adds its part to every net position.
LEMMA AddingPart ==
  ASSUME NEW net \in Net, NEW order \in Order
  PROVE  /\ Adding(net, order) \in Net
         /\ \A s \in BookIdx : /\ Part(order, s) \in Int
                              /\ Adding(net, order)[s] = net[s] + Part(order, s)
<1>1. order.symbol_idx \in BookIdx
  BY DEF Order
<1> QED
  BY <1>1, PartTyped DEF Net, Adding, Part

\* An accept moves the position by the order's signed shares.
LEMMA PositionStep ==
  ASSUME TypeOK, NEW upd_valid \in BOOLEAN, RiskEdge(upd_valid)
  PROVE  \A s \in BookIdx :
           pos_q'[s] = pos_q[s] + (IF risk_valid' THEN Part(risk_out', s) ELSE 0)
<1>1. pos_q \in Net /\ strat_out.intent \in Order
  BY TradeAssumption DEF TypeOK, Net
<1>2. CASE Accepts
  <2>1. NewPos = pos_q[strat_out.intent.symbol_idx] + Signed(strat_out.intent)
    BY DEF NewPos, Signed
  <2>2. pos_q' = Adding(pos_q, strat_out.intent)
    BY <1>2, <2>1, GateEdge DEF Adding
  <2> QED
    BY <1>1, <1>2, <2>2, AddingPart, GateEdge
<1>3. CASE ~Accepts
  BY <1>1, <1>3, GateEdge DEF Net
<1> QED
  BY <1>2, <1>3

\* The orders that wait after an edge are those that waited, but the one that
\* started, and behind them the one that came.
LEMMA WaitsStep ==
  ASSUME TopInv, EncoderEdge, NEW i \in 0 .. count_q' - 1
  PROVE  Waits(i)' = IF i + u_ouch!Popped < count_q THEN Waits(i + u_ouch!Popped)
                     ELSE risk_out
<1> DEFINE k == count_q
           j == i + u_ouch!Popped
<1>1. /\ FIFO_DEPTH \in Nat \ {0}
      /\ queue_mem \in [0 .. FIFO_DEPTH - 1 -> Order \cup {None}]
      /\ wr_ptr_q \in 0 .. FIFO_DEPTH - 1 /\ rd_ptr_q \in 0 .. FIFO_DEPTH - 1
      /\ k \in 0 .. FIFO_DEPTH
      /\ wr_ptr_q = (rd_ptr_q + k) % FIFO_DEPTH
      /\ Ring!Slot = 0 .. FIFO_DEPTH - 1
  BY EncoderTypes DEF TopInv, Ring!Slot
<1>2. /\ u_ouch!Serialize /\ u_ouch!Popped = (IF u_ouch!pop_ok THEN 1 ELSE 0)
      /\ u_ouch!pop_ok => k > 0
      /\ rd_ptr_q' = IF u_ouch!pop_ok THEN u_ouch!Next_ptr(rd_ptr_q) ELSE rd_ptr_q
  BY DEF EncoderEdge, u_ouch!Push, u_ouch!Drop, u_ouch!NoInput, u_ouch!Popped,
         u_ouch!pop_ok, u_ouch!Serialize
<1>3. Ring!EncoderAssumption
  BY EncoderConstants
<1>4. /\ queue_mem' = IF risk_valid /\ u_ouch!HasRoom
                       THEN [queue_mem EXCEPT ![wr_ptr_q] = risk_out] ELSE queue_mem
      /\ count_q' = k + (IF risk_valid /\ u_ouch!HasRoom THEN 1 ELSE 0) - u_ouch!Popped
  BY <1>1, <1>2 DEF EncoderEdge, u_ouch!Push, u_ouch!Drop, u_ouch!NoInput
<1>5. u_ouch!HasRoom <=> k < FIFO_DEPTH \/ u_ouch!pop_ok
  BY DEF u_ouch!HasRoom
<1>6. /\ i \in Nat /\ j \in 0 .. k
      /\ j = k => risk_valid /\ u_ouch!HasRoom
      /\ i \in 0 .. FIFO_DEPTH /\ j \in 0 .. FIFO_DEPTH
  BY <1>1, <1>2, <1>4, <1>5
<1>7. (rd_ptr_q' + i) % FIFO_DEPTH = (rd_ptr_q + j) % FIFO_DEPTH
  <2>1. CASE u_ouch!pop_ok
    <3>1. j = i + 1 /\ j > 0 /\ j - 1 = i
      BY <1>2, <1>6, <2>1
    <3>2. (Ring!Next_ptr(rd_ptr_q) + (j - 1)) % FIFO_DEPTH = (rd_ptr_q + j) % FIFO_DEPTH
      BY <1>1, <1>3, <1>6, <3>1, Ring!Ahead
    <3> QED
      BY <1>2, <2>1, <3>1, <3>2, SameEncoder
  <2>2. CASE ~u_ouch!pop_ok
    <3>1. j = i
      BY <1>2, <1>6, <2>2
    <3> QED
      BY <1>2, <2>2, <3>1
  <2> QED
    BY <2>1, <2>2
<1>8. Waits(i)' = queue_mem'[(rd_ptr_q + j) % FIFO_DEPTH]
  BY <1>7 DEF Waits
<1>9. (rd_ptr_q + j) % FIFO_DEPTH \in 0 .. FIFO_DEPTH - 1
  BY <1>1, <1>3, <1>6, Ring!Ahead
<1>10. CASE j = k
  <2>1. queue_mem'[wr_ptr_q] = risk_out
    BY <1>1, <1>4, <1>6, <1>10
  <2> QED
    BY <1>1, <1>8, <1>10, <2>1
<1>11. CASE j < k
  <2>1. risk_valid /\ u_ouch!HasRoom => (rd_ptr_q + j) % FIFO_DEPTH # wr_ptr_q
    <3>1. CASE k < FIFO_DEPTH
      <4>1. rd_ptr_q \in Ring!Slot /\ k \in 0 .. FIFO_DEPTH - 1 /\ j \in 0 .. k - 1
        BY <1>1, <1>6, <1>11, <3>1
      <4>2. (rd_ptr_q + j) % FIFO_DEPTH # (rd_ptr_q + k) % FIFO_DEPTH
        BY <1>3, <4>1, Ring!Apart
      <4> QED
        BY <1>1, <4>2
    <3>2. CASE k = FIFO_DEPTH /\ u_ouch!pop_ok
      <4>0. rd_ptr_q \in Ring!Slot
        BY <1>1
      <4>1. wr_ptr_q = rd_ptr_q
        <5>1. (rd_ptr_q + FIFO_DEPTH) % FIFO_DEPTH = rd_ptr_q
          BY <1>1
        <5> QED
          BY <1>1, <3>2, <5>1
      <4>2. j \in 0 .. FIFO_DEPTH - 1 /\ 0 \in 0 .. j - 1
        BY <1>1, <1>2, <1>6, <1>11, <3>2
      <4>3. (rd_ptr_q + 0) % FIFO_DEPTH # (rd_ptr_q + j) % FIFO_DEPTH
        BY <1>3, <4>0, <4>2, Ring!Apart
      <4>4. (rd_ptr_q + 0) % FIFO_DEPTH = rd_ptr_q
        BY <1>1
      <4> QED
        BY <4>1, <4>3, <4>4
    <3> QED
      BY <1>1, <1>5, <3>1, <3>2
  <2>2. queue_mem'[(rd_ptr_q + j) % FIFO_DEPTH] = queue_mem[(rd_ptr_q + j) % FIFO_DEPTH]
    BY <1>1, <1>4, <1>9, <2>1
  <2> QED
    BY <1>8, <1>11, <2>2 DEF Waits
<1> QED
  BY <1>1, <1>6, <1>10, <1>11

\* The course of the wire after an edge: it starts one order later if one
\* starts, and is one order longer if one comes.
LEMMA ExposureStep ==
  ASSUME TopInv, EncoderEdge, NEW order, Record(order), risk_out \in Order,
         NEW upd_valid \in BOOLEAN, RiskEdge(upd_valid),
         Accepts' => fifo_drop_count < MaxDrops
  PROVE  ExposureInv'
<1> DEFINE k == count_q
           n == u_ouch!Popped
           took == risk_valid /\ u_ouch!HasRoom
<1>1. PICK net : Course(net)
  BY DEF TopInv, ExposureInv
<1>2. /\ FIFO_DEPTH \in Nat \ {0} /\ k \in 0 .. FIFO_DEPTH
      /\ queue_mem \in [0 .. FIFO_DEPTH - 1 -> Order \cup {None}]
      /\ rd_ptr_q \in 0 .. FIFO_DEPTH - 1
  BY EncoderTypes DEF TopInv
<1>3. /\ n \in {0, 1} /\ (n = 1 <=> u_ouch!pop_ok) /\ n <= k
      /\ count_q' = k + (IF took THEN 1 ELSE 0) - n
      /\ u_ouch!HasRoom <=> k < FIFO_DEPTH \/ n = 1
  BY <1>2 DEF EncoderEdge, u_ouch!Push, u_ouch!Drop, u_ouch!NoInput, u_ouch!Popped,
              u_ouch!pop_ok, u_ouch!HasRoom
<1>4. /\ net \in [0 .. FIFO_DEPTH -> Net] /\ net[0] = exposure
      /\ \A i \in 0 .. k - 1 :
           /\ Waits(i) \in Order
           /\ \A s \in BookIdx : net[i + 1][s] = net[i][s] + Part(Waits(i), s)
      /\ \A s \in BookIdx :
           pos_q[s] = net[k][s] + lost[s] + (IF risk_valid THEN Part(risk_out, s) ELSE 0)
      /\ fifo_drop_count = 0 =>
           \A s \in BookIdx :
             /\ lost[s] = 0
             /\ \A i \in 0 .. k : net[i][s] \in -MAX_POSITION .. MAX_POSITION
  BY <1>1 DEF Course
<1>5. exposure \in Net /\ lost \in Net
  BY DEF TopInv, ExposureInv
<1>6. net[k] \in Net
  BY <1>2, <1>4
<1> DEFINE new == [i \in 0 .. FIFO_DEPTH |->
                    IF i + n <= k THEN net[i + n] ELSE Adding(net[k], risk_out)]
<1>7. /\ new \in [0 .. FIFO_DEPTH -> Net]
      /\ \A i \in 0 .. FIFO_DEPTH :
           new[i] = IF i + n <= k THEN net[i + n] ELSE Adding(net[k], risk_out)
  <2>1. \A i \in 0 .. FIFO_DEPTH : i + n <= k => i + n \in 0 .. FIFO_DEPTH
    BY <1>2, <1>3
  <2> QED
    BY <1>4, <1>6, <2>1, AddingPart
<1> HIDE DEF new
<1>8. new[0] = exposure' /\ exposure' \in Net
  <2>1. new[0] = net[n]
    BY <1>2, <1>3, <1>7
  <2>2. CASE n = 0
    BY <1>3, <1>4, <1>5, <2>1, <2>2 DEF Record
  <2>3. CASE n = 1
    <3>1. Waits(0) = queue_mem[rd_ptr_q]
      BY <1>2 DEF Waits
    <3>2. 0 \in 0 .. k - 1
      BY <1>2, <1>3, <2>3
    <3>3. Waits(0) \in Order /\ net[1] \in Net
          /\ \A s \in BookIdx : net[1][s] = exposure[s] + Part(Waits(0), s)
      BY <1>2, <1>4, <3>2
    <3>4. net[1] = Adding(exposure, Waits(0))
      BY <1>5, <3>3, AddingPart DEF Net
    <3>5. exposure' = Adding(exposure, queue_mem[rd_ptr_q])
      BY <1>3, <2>3 DEF Record
    <3> QED
      BY <2>1, <2>3, <3>1, <3>3, <3>4, <3>5
  <2> QED
    BY <1>3, <2>2, <2>3
<1>9. lost' \in Net
      /\ \A s \in BookIdx :
           lost'[s] = lost[s] + (IF risk_valid /\ ~took THEN Part(risk_out, s) ELSE 0)
  BY <1>5, AddingPart DEF Record, Net
<1>10. ASSUME NEW i \in 0 .. count_q' - 1
       PROVE  /\ Waits(i)' \in Order
              /\ \A s \in BookIdx : new[i + 1][s] = new[i][s] + Part(Waits(i)', s)
  <2>1. Waits(i)' = IF i + n < k THEN Waits(i + n) ELSE risk_out
    BY WaitsStep
  <2>2. i \in 0 .. FIFO_DEPTH /\ i + 1 \in 0 .. FIFO_DEPTH /\ i + n \in 0 .. k
    BY <1>2, <1>3
  <2>3. CASE i + n < k
    <3>1. new[i] = net[i + n] /\ new[i + 1] = net[(i + n) + 1]
      BY <1>2, <1>3, <1>7, <2>2, <2>3
    <3>2. i + n \in 0 .. k - 1
      BY <1>2, <2>2, <2>3
    <3> QED
      BY <1>4, <2>1, <2>3, <3>1, <3>2
  <2>4. CASE i + n = k
    <3>1. new[i] = net[k] /\ new[i + 1] = Adding(net[k], risk_out)
      BY <1>2, <1>3, <1>7, <2>2, <2>4
    <3> QED
      BY <1>2, <1>6, <2>1, <2>4, <3>1, AddingPart
  <2> QED
    BY <1>2, <2>2, <2>3, <2>4
<1>11. new[count_q'] = IF took THEN Adding(net[k], risk_out) ELSE net[k]
  BY <1>2, <1>3, <1>7
<1>12. ASSUME NEW s \in BookIdx
       PROVE  /\ pos_q[s] = new[count_q'][s] + lost'[s]
              /\ net[k][s] \in Int /\ lost[s] \in Int /\ Part(risk_out, s) \in Int
  <2>1. /\ net[k][s] \in Int /\ lost[s] \in Int /\ Part(risk_out, s) \in Int
        /\ took => new[count_q'][s] = net[k][s] + Part(risk_out, s)
        /\ ~took => new[count_q'][s] = net[k][s]
    BY <1>5, <1>6, <1>11, AddingPart DEF Net
  <2>2. pos_q[s] = net[k][s] + lost[s] + (IF risk_valid THEN Part(risk_out, s) ELSE 0)
    BY <1>4
  <2>3. lost'[s] = lost[s] + (IF risk_valid /\ ~took THEN Part(risk_out, s) ELSE 0)
    BY <1>9
  <2>4. CASE took
    BY <2>1, <2>2, <2>3, <2>4
  <2>5. CASE ~took
    BY <2>1, <2>2, <2>3, <2>5
  <2> QED
    BY <2>1, <2>4, <2>5
<1>13. ASSUME NEW s \in BookIdx
       PROVE  pos_q'[s] = new[count_q'][s] + lost'[s]
                          + (IF risk_valid' THEN Part(risk_out', s) ELSE 0)
  <2>1. TypeOK
    BY DEF TopInv, PathInv
  <2> QED
    BY <1>12, <2>1, PositionStep
<1>14. ASSUME fifo_drop_count' = 0, NEW s \in BookIdx
       PROVE  /\ lost'[s] = 0
              /\ \A i \in 0 .. count_q' : new[i][s] \in -MAX_POSITION .. MAX_POSITION
  <2>1. fifo_drop_count = 0 /\ (risk_valid => took)
    <3>1. fifo_drop_count \in Nat
      BY EncoderTypes, TradeAssumption DEF TopInv
    <3>2. fifo_drop_count' = fifo_drop_count
            + (IF risk_valid /\ ~u_ouch!HasRoom THEN 1 ELSE 0)
      BY DropStep
    <3> QED
      BY <1>14, <3>1, <3>2
  <2>2. lost[s] = 0 /\ lost'[s] = 0
    BY <1>4, <1>9, <2>1
  <2>3. pos_q[s] \in -MAX_POSITION .. MAX_POSITION
    BY DEF TopInv, PathInv, TypeOK
  <2>4. new[count_q'][s] \in -MAX_POSITION .. MAX_POSITION
    <3>1. new[count_q'] \in Net
      BY <1>6, <1>11, AddingPart
    <3> QED
      BY <1>12, <2>2, <2>3, <3>1 DEF Net
  <2>5. ASSUME NEW i \in 0 .. count_q'
        PROVE  new[i][s] \in -MAX_POSITION .. MAX_POSITION
    <3>1. i \in 0 .. FIFO_DEPTH
      BY <1>2, <1>3
    <3>2. CASE i + n <= k
      <4>1. new[i] = net[i + n] /\ i + n \in 0 .. k
        BY <1>2, <1>3, <1>7, <3>1, <3>2
      <4> QED
        BY <1>4, <2>1, <4>1
    <3>3. CASE i + n > k
      <4>1. i = count_q'
        BY <1>2, <1>3, <3>1, <3>3
      <4> QED
        BY <2>4, <4>1
    <3> QED
      BY <1>2, <1>3, <3>1, <3>2, <3>3
  <2> QED
    BY <2>2, <2>5
<1>15. PICK course : course = new
  OBVIOUS
<1>16. Course(course)'
  BY <1>7, <1>8, <1>10, <1>13, <1>14, <1>15 DEF Course
<1> QED
  BY <1>8, <1>9, <1>16 DEF ExposureInv

-----------------------------------------------------------------------------
(* The behaviours.                                                          *)

\* No order, no net position.
LEMMA TopStarts ==
  ASSUME NEW zero, zero = [s \in BookIdx |-> 0]
  PROVE  zero \in Net /\ \A s \in BookIdx : zero[s] = 0
  BY DEF Net

\* The invariant of the top level holds after power-up.
LEMMA TopInitInv == TopInit => TopInv
<1> SUFFICES ASSUME TopInit PROVE TopInv
  OBVIOUS
<1>1. PathInv
  BY InitInv DEF TopInit
<1>2. Ring!EncoderInv
  <2>1. Ring!Init
    BY DEF TopInit, u_ouch!Init, Ring!Init, u_ouch!Slot, Ring!Slot
  <2> QED
    BY <2>1, EncoderConstants, Ring!EncoderStarts
<1>3. ~strat_valid /\ ~risk_valid /\ ~Accepts
  BY DEF TopInit, Init, Accepts
<1>4. PipeInv
  BY <1>3 DEF TopInit, NoHistory, PipeInv
<1>5. CalmInv
  BY <1>3, TickToTradeAssumption
     DEF TopInit, NoHistory, CalmInv, u_ouch!Init, u_ouch!Sending, u_ouch!frame_start
<1>6. DropInv
  BY <1>3, TickToTradeAssumption DEF TopInit, u_ouch!Init, DropInv, Pending
<1>7. ExposureInv
  <2>1. PICK zero : zero = [s \in BookIdx |-> 0]
    OBVIOUS
  <2>2. exposure = zero /\ lost = zero /\ pos_q = zero /\ count_q = 0
    BY <2>1 DEF TopInit, Init, NoHistory, u_ouch!Init
  <2>3. PICK net : net = [i \in 0 .. FIFO_DEPTH |-> zero]
    OBVIOUS
  <2>4. 0 \in 0 .. FIFO_DEPTH /\ 0 \in -MAX_POSITION .. MAX_POSITION
    BY TickToTradeAssumption, TradeAssumption
  <2>5. Course(net)
    BY <1>3, <2>1, <2>2, <2>3, <2>4, TopStarts DEF Course
  <2> QED
    BY <2>1, <2>2, <2>5, TopStarts DEF ExposureInv
<1> QED
  BY <1>1, <1>2, <1>4, <1>5, <1>6, <1>7 DEF TopInv

\* And after a reset.
LEMMA TopResetStep == TopInv /\ TopReset => TopInv'
<1> SUFFICES ASSUME TopInv, TopReset PROVE TopInv'
  OBVIOUS
<1>1. PathInv'
  BY ResetStep DEF TopReset
<1>2. Ring!EncoderInv'
  <2>1. Ring!Reset
    BY DEF TopReset, u_ouch!Reset, Ring!Reset
  <2> QED
    BY <2>1, EncoderConstants, Ring!EncoderStep DEF Ring!Next, TopInv
<1>3. ~strat_valid' /\ ~risk_valid' /\ ~Accepts'
  BY DEF TopReset, Reset, Accepts
<1>4. PipeInv'
  BY <1>3 DEF TopReset, NoHistory, PipeInv
<1>5. CalmInv'
  BY <1>3, TickToTradeAssumption
     DEF TopReset, NoHistory, CalmInv, u_ouch!Reset, u_ouch!Sending, u_ouch!frame_start
<1>6. DropInv'
  BY <1>3, TickToTradeAssumption DEF TopReset, u_ouch!Reset, DropInv, Pending
<1>7. ExposureInv'
  <2>1. PICK zero : zero = [s \in BookIdx |-> 0]
    OBVIOUS
  <2>2. exposure' = zero /\ lost' = zero /\ pos_q' = zero /\ count_q' = 0
    BY <2>1 DEF TopReset, Reset, NoHistory, u_ouch!Reset
  <2>3. PICK net : net = [i \in 0 .. FIFO_DEPTH |-> zero]
    OBVIOUS
  <2>4. 0 \in 0 .. FIFO_DEPTH /\ 0 \in -MAX_POSITION .. MAX_POSITION
    BY TickToTradeAssumption, TradeAssumption
  <2>5. Course(net)'
    BY <1>3, <2>1, <2>2, <2>3, <2>4, TopStarts DEF Course
  <2> QED
    BY <2>1, <2>2, <2>5, TopStarts DEF ExposureInv
<1> QED
  BY <1>1, <1>2, <1>4, <1>5, <1>6, <1>7 DEF TopInv

\* And every edge keeps it.
LEMMA TopEdgeStep ==
  ASSUME TopInv, NEW order,
         \/ \E upd \in Updates : TopUpdate(upd) /\ order = Model!OrderFor(golden, upd)
         \/ TopQuiet /\ order = None
  PROVE  TopInv'
<1>1. /\ PathInv' /\ EncoderEdge /\ Record(order)
      /\ order = IF Accepts' THEN strat_out'.intent ELSE None
      /\ order \in Order \cup {None}
      /\ \E upd_valid \in BOOLEAN : RiskEdge(upd_valid)
      /\ Accepts' => fifo_drop_count < MaxDrops
  BY TopEdge
<1>2. PICK upd_valid \in BOOLEAN : RiskEdge(upd_valid)
  BY <1>1
<1>3. TypeOK /\ risk_out \in Order
  BY DEF TopInv, PathInv, TypeOK
<1>4. Ring!EncoderInv'
  BY <1>1, <1>3, EncoderKeeps DEF TopInv
<1>5. PipeInv' /\ CalmInv'
  BY <1>1, <1>2, PipeStep, CalmStep
<1>6. DropInv' /\ ExposureInv'
  BY <1>1, <1>2, <1>3, DropStep, ExposureStep
<1> QED
  BY <1>1, <1>4, <1>5, <1>6 DEF TopInv

\* Nothing happens: nothing changes.
LEMMA TopStutter == TopInv /\ UNCHANGED topVars => TopInv'
<1> SUFFICES ASSUME TopInv, UNCHANGED topVars PROVE TopInv'
  OBVIOUS
<1>1. /\ UNCHANGED vars /\ UNCHANGED Ring!vars /\ UNCHANGED history
      /\ UNCHANGED <<risk_valid, risk_out, pos_q, strat_valid>>
      /\ UNCHANGED <<queue_mem, wr_ptr_q, rd_ptr_q, count_q, ouch_state_q, byte_idx_q,
                     cur_intent_q, fifo_drop_count>>
  BY DEF topVars, u_ouch!vars, u_ouch!ring, u_ouch!serializer, Ring!vars, Ring!ring,
         Ring!serializer, vars, riskVars, strategyVars
<1>2. PathInv'
  BY <1>1, PathStep DEF TopInv
<1>3. Ring!EncoderInv'
  BY <1>1, EncoderConstants, Ring!EncoderStep DEF TopInv
<1>4. Accepts' = Accepts /\ strat_out' = strat_out
  BY <1>1 DEF Accepts, Outcome, Sane, CollarOk, Band, Mid, RateOk, PosOk, NewPos,
              vars, strategyVars, riskVars
<1>5. PipeInv'
  BY <1>1, <1>4 DEF TopInv, PipeInv, history
<1>6. CalmInv'
  BY <1>1 DEF TopInv, CalmInv, history, u_ouch!Sending, u_ouch!frame_start
<1>7. DropInv'
  BY <1>1, <1>4 DEF TopInv, DropInv, Pending
<1>8. ExposureInv'
  BY <1>1 DEF TopInv, ExposureInv, Course, history, Waits
<1> QED
  BY <1>2, <1>3, <1>5, <1>6, <1>7, <1>8 DEF TopInv

\* The inductive invariant of strategy, gate, ring and serializer together.
THEOREM TopInvariant == TopSpec => []TopInv
<1>1. ASSUME TopInv, [TopNext]_topVars PROVE TopInv'
  <2>1. CASE TopReset
    BY <1>1, <2>1, TopResetStep
  <2>2. CASE TopQuiet
    BY <1>1, <2>2, TopEdgeStep
  <2>3. ASSUME NEW upd \in Updates, TopUpdate(upd) PROVE TopInv'
    BY <1>1, <2>3, TopEdgeStep
  <2>4. CASE UNCHANGED topVars
    BY <1>1, <2>4, TopStutter
  <2> QED
    BY <1>1, <2>1, <2>2, <2>3, <2>4 DEF TopNext
<1> QED
  BY <1>1, TopInitInv, PTL DEF TopSpec

\* For every depth of the ring and length of a frame: as long as accepted orders
\* come a frame apart no order is dropped or waits, and a frame starts four
\* edges after the update behind it with the golden model's order for it
\* (ouch_encoder.sv lines 22-34).
THEOREM OrdersOnTime == TopSpec => []OrderOnTime
<1>1. TopInv => OrderOnTime
  BY DEF TopInv, CalmInv, OrderOnTime
<1> QED
  BY <1>1, TopInvariant, PTL

\* For every cap: until an order is dropped, what the wire has carried of a book
\* is within the cap at the start of every frame.
THEOREM ExposureIsBounded == TopSpec => []ExposureBounded
<1>1. TopInv => ExposureBounded
  <2> SUFFICES ASSUME TopInv, fifo_drop_count = 0, NEW s \in BookIdx
               PROVE  Magnitude(exposure[s]) <= MAX_POSITION
    BY DEF ExposureBounded
  <2>1. PICK net : Course(net)
    BY DEF TopInv, ExposureInv
  <2>2. 0 \in 0 .. count_q
    BY EncoderTypes DEF TopInv
  <2>3. exposure[s] \in -MAX_POSITION .. MAX_POSITION
    BY <2>1, <2>2 DEF Course
  <2> QED
    BY <2>3, TradeAssumption DEF Magnitude
<1> QED
  BY <1>1, TopInvariant, PTL

\* A sum along a course of partial sums is the difference of its ends.
LEMMA SumIsDifference ==
  ASSUME NEW k \in Nat, NEW part \in [0 .. k - 1 -> Int], NEW net \in [0 .. k -> Int],
         \A i \in 0 .. k - 1 : net[i + 1] = net[i] + part[i],
         NEW sum,
         sum = [n \in 0 .. k |-> IF n = 0 THEN 0 ELSE sum[n - 1] + part[n - 1]]
  PROVE  sum[k] = net[k] - net[0]
<1> DEFINE Wrong == {n \in 0 .. k : sum[n] # net[n] - net[0]}
<1>1. k \in 0 .. k /\ Wrong \subseteq Nat
  OBVIOUS
<1>2. CASE Wrong # {}
  <2>1. PICK n \in Wrong : \A m \in Wrong : <<m, n>> \notin OpToRel(<, Nat)
    BY <1>1, <1>2, WFMin, NatLessThanWellFounded
  <2>2. n \in Wrong /\ \A m \in Wrong : ~(m < n)
    BY <1>1, <2>1, Zenon DEF OpToRel
  <2>3. n \in 0 .. k /\ sum[n] # net[n] - net[0]
    BY <2>2
  <2>4. sum[n] = IF n = 0 THEN 0 ELSE sum[n - 1] + part[n - 1]
    BY <2>3
  <2>5. n # 0
    BY <2>3, <2>4
  <2>6. n - 1 \in 0 .. k - 1 /\ n - 1 \in 0 .. k
    BY <2>3, <2>5
  <2>7. sum[n - 1] = net[n - 1] - net[0]
    BY <2>2, <2>3, <2>6
  <2>8. net[(n - 1) + 1] = net[n - 1] + part[n - 1]
    BY <2>6
  <2> QED
    BY <2>3, <2>4, <2>5, <2>6, <2>7, <2>8
<1> QED
  BY <1>1, <1>2

\* For every depth, cap and feed: the gate's position of a book is what the wire
\* has carried, what waits, what is on its way and what the full ring dropped
\* (ouch_encoder.sv lines 31-34, 155).
THEOREM PositionsAreAccounted == TopSpec => []PositionsAccounted
<1>1. ASSUME TopInv, NEW s \in BookIdx
      PROVE  /\ pos_q[s] = exposure[s] + Waiting(s) + lost[s]
                           + (IF risk_valid THEN Part(risk_out, s) ELSE 0)
             /\ fifo_drop_count = 0 => lost[s] = 0
  <2>1. PICK net : Course(net)
    BY <1>1 DEF TopInv, ExposureInv
  <2>2. FIFO_DEPTH \in Nat /\ count_q \in 0 .. FIFO_DEPTH
    BY <1>1, EncoderTypes DEF TopInv
  <2> DEFINE part == [i \in 0 .. count_q - 1 |-> Part(Waits(i), s)]
             at   == [i \in 0 .. count_q |-> net[i][s]]
             sum  == CHOOSE f : f = [n \in 0 .. count_q |->
                       IF n = 0 THEN 0 ELSE f[n - 1] + Part(Waits(n - 1), s)]
             difference == [i \in 0 .. count_q |-> at[i] - at[0]]
  <2>3. Waiting(s) = sum[count_q]
    BY DEF Waiting
  <2>4. part \in [0 .. count_q - 1 -> Int] /\ at \in [0 .. count_q -> Int]
    <3>1. ASSUME NEW i \in 0 .. count_q - 1 PROVE Part(Waits(i), s) \in Int
      BY <2>1, PartTyped DEF Course
    <3>2. ASSUME NEW i \in 0 .. count_q PROVE net[i][s] \in Int
      <4>1. i \in 0 .. FIFO_DEPTH
        BY <2>2
      <4> QED
        BY <2>1, <4>1 DEF Course, Net
    <3> QED
      BY <3>1, <3>2
  <2>5. \A i \in 0 .. count_q - 1 : at[i + 1] = at[i] + part[i]
    BY <2>1, <2>2 DEF Course
  <2>6. difference = [n \in 0 .. count_q |->
          IF n = 0 THEN 0 ELSE difference[n - 1] + Part(Waits(n - 1), s)]
    <3>1. ASSUME NEW n \in 0 .. count_q
          PROVE  difference[n] =
                   IF n = 0 THEN 0 ELSE difference[n - 1] + Part(Waits(n - 1), s)
      <4>1. CASE n = 0
        BY <2>2, <2>4, <4>1
      <4>2. CASE n # 0
        <5>1. n - 1 \in 0 .. count_q - 1 /\ n - 1 \in 0 .. count_q /\ (n - 1) + 1 = n
              /\ 0 \in 0 .. count_q
          BY <2>2, <4>2
        <5>2. at[n] = at[n - 1] + part[n - 1] /\ part[n - 1] = Part(Waits(n - 1), s)
          BY <2>5, <5>1
        <5>3. at[n] \in Int /\ at[n - 1] \in Int /\ at[0] \in Int /\ part[n - 1] \in Int
          BY <2>4, <5>1
        <5>4. difference[n] = at[n] - at[0] /\ difference[n - 1] = at[n - 1] - at[0]
          BY <5>1
        <5> HIDE DEF at, part, difference
        <5> QED
          BY <4>2, <5>2, <5>3, <5>4
      <4> QED
        BY <4>1, <4>2
    <3> QED
      BY <3>1
  <2>7. sum = [n \in 0 .. count_q |->
                IF n = 0 THEN 0 ELSE sum[n - 1] + Part(Waits(n - 1), s)]
    <3> HIDE DEF difference
    <3> QED
      BY <2>6
  <2>8. sum = [n \in 0 .. count_q |->
                IF n = 0 THEN 0 ELSE sum[n - 1] + part[n - 1]]
    <3> HIDE DEF sum
    <3>1. \A n \in 0 .. count_q : n # 0 => part[n - 1] = Part(Waits(n - 1), s)
      BY <2>2
    <3> HIDE DEF part
    <3> QED
      BY <2>7, <3>1
  <2> HIDE DEF sum, part, difference
  <2>9. at[count_q] = net[count_q][s] /\ at[0] = exposure[s]
    BY <2>1, <2>2 DEF Course
  <2> HIDE DEF at
  <2>10. sum[count_q] = at[count_q] - at[0]
    <3>1. count_q \in Nat
      BY <2>2
    <3> QED
      BY <2>4, <2>5, <2>8, <3>1, SumIsDifference
  <2>11. /\ pos_q[s] = net[count_q][s] + lost[s]
                       + (IF risk_valid THEN Part(risk_out, s) ELSE 0)
         /\ fifo_drop_count = 0 => lost[s] = 0
    BY <2>1 DEF Course
  <2>12. at[count_q] \in Int /\ at[0] \in Int /\ lost[s] \in Int
         /\ Part(risk_out, s) \in Int
    <3>1. lost \in Net /\ risk_out \in Order
      BY <1>1 DEF TopInv, ExposureInv, PathInv, TypeOK
    <3>2. count_q \in 0 .. count_q /\ 0 \in 0 .. count_q
      BY <2>2
    <3> QED
      BY <2>4, <3>1, <3>2, PartTyped DEF Net
  <2> QED
    BY <2>3, <2>9, <2>10, <2>11, <2>12
<1>2. TopInv => PositionsAccounted
  BY <1>1 DEF PositionsAccounted
<1> QED
  BY <1>2, TopInvariant, PTL
=============================================================================
