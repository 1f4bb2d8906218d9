----------------------------- MODULE PriceBook -----------------------------
(***************************************************************************)
(* rtl/price_book.sv: one book, which takes at most one operation at each  *)
(* clock edge.                                                             *)
(***************************************************************************)
EXTENDS BookDatapath, FiniteSets

CONSTANTS
  Quantity,   \* the share counts of the feed
  MaxDepth    \* bound: levels of both sides together before an add

ASSUME QuantityAssumption == Quantity \subseteq 0 .. ShareMod - 1 /\ MaxDepth \in Nat

VARIABLE book

SideState == [Level -> LevelState]

Init == book = ResetBook

Reset == book' = ResetBook

NoOperation == book' = HoldBook(book)

Apply(op) == book' = ApplyOp(book, op)

Op == [op : {"OP_ADD", "OP_REDUCE"}, side : {Bid, Ask}, price : Price,
       shares : Quantity]

\* Share counts do not reach 2^32 at real volumes (lines 122-125).
FitsLevel(op) ==
  LET cur == IF op.side = Bid THEN book.bid ELSE book.ask IN
  op.op = "OP_ADD" =>
    \A i \in Level : cur[i].price = op.price => cur[i].shares + op.shares < ShareMod

Levels(cur) == Cardinality({i \in Level : cur[i].vld})

InBound(op) == op.op = "OP_ADD" => Levels(book.bid) + Levels(book.ask) <= MaxDepth

Next == Reset \/ NoOperation \/ \E op \in Op : FitsLevel(op) /\ InBound(op) /\ Apply(op)

Spec == Init /\ [][Next]_book

TypeOK ==
  book \in [bid : SideState, ask : SideState,
            upd : [bid : SideState, ask : SideState], upd_valid : BOOLEAN,
            evict_count : 0 .. CountMod - 1, reduce_miss_count : 0 .. CountMod - 1,
            crossed_count : 0 .. CountMod - 1]

\* After any sequence of operations both sides are gapless, strictly sorted
\* best first, and zero beyond the last level (assertions, lines 242-273).
BookWellFormed == WellFormed(Bid, book.bid) /\ WellFormed(Ask, book.ask)
=============================================================================
