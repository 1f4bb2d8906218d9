----------------------------- MODULE MarketModel -----------------------------
(***************************************************************************)
(* class MarketModel of model/book.py, the golden model: books by symbol,  *)
(* the dictionary of resting orders, and on_message as a function from a   *)
(* state and a message to the next state, whose events field holds the     *)
(* list that the call returns.                                             *)
(***************************************************************************)
EXTENDS GoldenBook, Functions, FiniteSets

CONSTANTS
  NUM_SYMBOLS,
  SYMBOLS,     \* symbols[i], i in 0 .. NUM_SYMBOLS - 1
  NoSymbol,    \* an index without a symbol
  CountMod     \* model integers do not wrap; the counters they are compared with do

Configured == {SYMBOLS[i] : i \in 0 .. NUM_SYMBOLS - 1} \ {NoSymbol}

\* symbol_to_idx: of two equal symbols the dictionary keeps the last index.
SymbolToIdx(s) ==
  CHOOSE i \in 0 .. NUM_SYMBOLS - 1 :
    SYMBOLS[i] = s /\ \A j \in 0 .. NUM_SYMBOLS - 1 : SYMBOLS[j] = s => j <= i

EmptyBook == [bid |-> << >>, ask |-> << >>, evicts |-> 0, misses |-> 0]

NewModel ==
  [books |-> [s \in Configured |-> EmptyBook], orders |-> << >>, drops |-> 0,
   events |-> << >>]

SideList(book, side) == IF side = Bid THEN book.bid ELSE book.ask

SnapshotEvent(model, s) ==
  [symbol_idx |-> SymbolToIdx(s), bid |-> Padded(model.books[s].bid),
   ask |-> Padded(model.books[s].ask)]

Order(s, side, p, n) == [symbol |-> s, side |-> side, price |-> p, shares |-> n]

-----------------------------------------------------------------------------
(* The pieces of on_message.                                                *)

Drop(model) == [model EXCEPT !.drops = (@ + 1) % CountMod]

\* A PriceBook call whose outcome is out, and the event if it changed the book.
BookCall(model, s, side, out) ==
  LET book == model.books[s]
      new  == [bid |-> IF side = Bid THEN out.levels ELSE book.bid,
               ask |-> IF side = Bid THEN book.ask ELSE out.levels,
               evicts |-> (book.evicts + out.evicts) % CountMod,
               misses |-> (book.misses + out.misses) % CountMod]
      called == [model EXCEPT !.books[s] = new]
  IN  IF out.changed
      THEN [called EXCEPT !.events = Append(@, SnapshotEvent(called, s))]
      ELSE called

AddLevel(model, s, side, p, n) ==
  BookCall(model, s, side, Add(SideList(model.books[s], side), side, p, n))

ReduceLevel(model, o, n) ==
  BookCall(model, o.symbol, o.side,
           Reduce(SideList(model.books[o.symbol], o.side), o.price, n))

Remember(model, id, o) ==
  [model EXCEPT !.orders = [x \in DOMAIN @ \cup {id} |-> IF x = id THEN o ELSE @[x]]]

Forget(model, id) == [model EXCEPT !.orders = Restrict(@, DOMAIN @ \ {id})]

OnAdd(model, m) ==
  IF m.symbol \notin Configured THEN Drop(model)
  ELSE Remember(AddLevel(model, m.symbol, m.side, m.price, m.shares), m.order_id,
                Order(m.symbol, m.side, m.price, m.shares))

\* EXEC and CANCEL.
OnTake(model, m) ==
  LET o       == model.orders[m.order_id]
      reduced == ReduceLevel(model, o, m.shares)
  IN  IF o.shares - m.shares <= 0
      THEN Forget(reduced, m.order_id)
      ELSE [reduced EXCEPT !.orders[m.order_id].shares = @ - m.shares]

OnDelete(model, m) ==
  LET o == model.orders[m.order_id]
  IN  ReduceLevel(Forget(model, m.order_id), o, o.shares)

OnReplace(model, m) ==
  LET o       == model.orders[m.order_id]
      retired == OnDelete(model, m)
  IN  Remember(AddLevel(retired, o.symbol, o.side, m.price, m.shares), m.new_order_id,
               Order(o.symbol, o.side, m.price, m.shares))

OnMessage(before, m) ==
  LET model == [before EXCEPT !.events = << >>] IN
  CASE m.kind = "SYSTEM" -> model
    [] m.kind = "ADD" -> OnAdd(model, m)
    [] m.kind \notin {"SYSTEM", "ADD"} /\ m.order_id \notin DOMAIN model.orders -> Drop(model)
    [] OTHER -> CASE m.kind \in {"EXEC", "CANCEL"} -> OnTake(model, m)
                  [] m.kind = "DELETE" -> OnDelete(model, m)
                  [] m.kind = "REPLACE" -> OnReplace(model, m)
=============================================================================
