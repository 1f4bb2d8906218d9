----------------------------- MODULE GoldenTrader -----------------------------
(***************************************************************************)
(* model/strategy.py and model/risk.py as model/dump_trace.py drives them: *)
(* one book event after the other, each through risk.on_update,            *)
(* strategy.on_update and risk.on_intent before the next one.              *)
(***************************************************************************)
EXTENDS Integers

CONSTANTS
  NUM_SYMBOLS, N_LEVELS,
  THRESH_LOG2, COOLDOWN_UPDATES, ORDER_SHARES,
  MAX_POSITION, MIN_ORDER_SPACING, COLLAR_SHIFT,
  CountMod,   \* model counters do not wrap; those they are compared with do
  None        \* Python's None

Symbols == 0 .. NUM_SYMBOLS - 1

Abs(x) == IF x < 0 THEN -x ELSE x

\* sum(sh >> i for i, sh in enumerate(shares))
MassOf(shares) ==
  LET sum[n \in 0 .. N_LEVELS] ==
        IF n = 0 THEN 0 ELSE sum[n - 1] + shares[n - 1] \div 2 ^ (n - 1)
  IN  sum[N_LEVELS]

NewTrader ==
  [state |-> [s \in Symbols |-> "NEUTRAL"],
   updates_since_fire |-> [s \in Symbols |-> None],
   intent_count |-> 0,
   pos |-> [s \in Symbols |-> 0],
   updates_since_accept |-> 0,
   counts |-> [accept |-> 0, sanity |-> 0, collar |-> 0, rate |-> 0, pos |-> 0]]

-----------------------------------------------------------------------------
(* Strategy.on_update.                                                      *)

StateOf(mass_b, mass_a) ==
  IF mass_b > mass_a * 2 ^ THRESH_LOG2 THEN "LONG"
  ELSE IF mass_a > mass_b * 2 ^ THRESH_LOG2 THEN "SHORT" ELSE "NEUTRAL"

Intent(ev, side, price) ==
  [symbol_idx |-> ev.book_idx, side |-> side, shares |-> ORDER_SHARES, price |-> price,
   bid0 |-> ev.bid_price[0], ask0 |-> ev.ask_price[0]]

\* The intent on_update returns for ev, None if there is none.
IntentOf(t, ev) ==
  LET s         == ev.book_idx
      old_state == t.state[s]
      new_state == StateOf(MassOf(ev.bid_shares), MassOf(ev.ask_shares))
      since     == t.updates_since_fire[s]
      suppressed == since # None /\ since < COOLDOWN_UPDATES
      fire_buy  == new_state = "LONG" /\ old_state # "LONG"
      fire_sell == new_state = "SHORT" /\ old_state # "SHORT"
  IN  IF ~suppressed /\ fire_buy /\ ev.ask_price[0] # 0
      THEN Intent(ev, "B", ev.ask_price[0])
      ELSE IF ~suppressed /\ fire_sell /\ ev.bid_price[0] # 0
      THEN Intent(ev, "S", ev.bid_price[0])
      ELSE None

\* updates_since_fire after an update that did not fire: re-armed to None.
Aged(since) ==
  IF since = None \/ since + 1 >= COOLDOWN_UPDATES THEN None ELSE since + 1

StrategyUpdate(t, ev, intent) ==
  [t EXCEPT
     !.state[ev.book_idx] = StateOf(MassOf(ev.bid_shares), MassOf(ev.ask_shares)),
     !.intent_count = IF intent = None THEN @ ELSE (@ + 1) % CountMod,
     !.updates_since_fire[ev.book_idx] = IF intent = None THEN Aged(@) ELSE 0]

-----------------------------------------------------------------------------
(* RiskGate.on_intent: the first check that fails, or accept.               *)

Verdict(t, intent) ==
  LET mid     == (intent.bid0 + intent.ask0) \div 2
      new_pos == t.pos[intent.symbol_idx]
                 + (IF intent.side = "B" THEN intent.shares ELSE -intent.shares)
  IN  IF ~(intent.bid0 # 0 /\ intent.ask0 # 0 /\ intent.bid0 < intent.ask0)
      THEN "sanity"
      ELSE IF Abs(intent.price - mid) > mid \div 2 ^ COLLAR_SHIFT THEN "collar"
      ELSE IF t.updates_since_accept < MIN_ORDER_SPACING THEN "rate"
      ELSE IF Abs(new_pos) > MAX_POSITION THEN "pos"
      ELSE "accept"

OnIntent(t, intent) ==
  LET v == Verdict(t, intent)
      counted == [t EXCEPT !.counts[v] = (@ + 1) % CountMod]
  IN  IF v # "accept" THEN counted
      ELSE [counted EXCEPT
              !.pos[intent.symbol_idx] =
                 @ + (IF intent.side = "B" THEN intent.shares ELSE -intent.shares),
              !.updates_since_accept = 0]

-----------------------------------------------------------------------------
(* The loop body of dump_trace.                                             *)

Observed(t) == [t EXCEPT !.updates_since_accept = @ + 1]

OnEvent(t, ev) ==
  LET intent == IntentOf(t, ev)
      seen   == StrategyUpdate(Observed(t), ev, intent)
  IN  IF intent = None THEN seen ELSE OnIntent(seen, intent)

\* The order the event leads to, None if there is none.
OrderFor(t, ev) ==
  LET intent == IntentOf(t, ev)
  IN  IF intent # None /\ Verdict(Observed(t), intent) = "accept"
      THEN [symbol_idx |-> intent.symbol_idx, side |-> IF intent.side = "B" THEN 1 ELSE 0,
            shares |-> intent.shares, price |-> intent.price]
      ELSE None
=============================================================================
