---------------------------- MODULE BookDatapath ----------------------------
(***************************************************************************)
(* The next-state logic of rtl/price_book.sv as operators: one side of a   *)
(* book is an array of N_LEVELS slots, best level first, and a book is the *)
(* record of its registers.  ItchBookTop has an array of them.             *)
(*                                                                         *)
(* The timestamp of the snapshot is left out.  A snapshot is kept only     *)
(* while upd_valid is high: nothing reads it otherwise.                    *)
(***************************************************************************)
EXTENDS Integers

CONSTANTS
  N_LEVELS,   \* slots of a side
  Price,      \* prices that occur in the feed
  ShareMod,   \* 2^32: the share count of a level wraps
  CountMod    \* 2^32: the counters wrap

ASSUME DatapathAssumption ==
  /\ N_LEVELS \in Nat \ {0}
  /\ Price \subseteq Nat
  /\ ShareMod \in Nat \ {0}
  /\ CountMod \in Nat \ {0}

Bid == 1
Ask == 0

Level == 0 .. N_LEVELS - 1

LevelState == [vld : BOOLEAN, price : Price \cup {0}, shares : 0 .. ShareMod - 1]

NoLevel   == [vld |-> FALSE, price |-> 0, shares |-> 0]
EmptySide == [i \in Level |-> NoLevel]

Better(side, p, q) == IF side = Bid THEN p > q ELSE p < q

\* The slot that holds the price, and the slots where it may be inserted: a
\* free one, or one whose price it beats.
Match(cur, op) == {i \in Level : cur[i].vld /\ cur[i].price = op.price}
Cand(cur, op)  == {i \in Level : ~cur[i].vld \/ Better(op.side, op.price, cur[i].price)}

\* The priority encoders.
Lowest(S) == CHOOSE i \in S : \A j \in S : i <= j

ShiftDownInPlace(cur, k, level) ==                   \* mutant: overwrites a level
  [i \in Level |-> IF i = k THEN level ELSE cur[i]]

ShiftDown(cur, k, level) ==
  [i \in Level |-> IF i < k THEN cur[i] ELSE IF i = k THEN level ELSE cur[i - 1]]

ShiftUpKeepsLast(cur, k) ==                          \* mutant: last slot not cleared
  [i \in Level |-> IF i < k THEN cur[i]
                   ELSE IF i = N_LEVELS - 1 THEN cur[i] ELSE cur[i + 1]]

ShiftUp(cur, k) ==
  [i \in Level |-> IF i < k THEN cur[i]
                   ELSE IF i = N_LEVELS - 1 THEN NoLevel ELSE cur[i + 1]]

Result(lvls, changed, evict, miss) ==
  [lvls |-> lvls, changed |-> changed, evict |-> evict, miss |-> miss]

AddTo(cur, op) ==
  IF Match(cur, op) # {}
  THEN Result([cur EXCEPT ![Lowest(Match(cur, op))].shares = (@ + op.shares) % ShareMod],
              TRUE, FALSE, FALSE)
  ELSE IF Cand(cur, op) = {}
  THEN Result(cur, FALSE, TRUE, FALSE)
  ELSE Result(ShiftDown(cur, Lowest(Cand(cur, op)),
                        [vld |-> TRUE, price |-> op.price, shares |-> op.shares]),
              TRUE, cur[N_LEVELS - 1].vld, FALSE)

ReduceFromStrict(cur, op) ==                         \* mutant: an empty level stays
  LET k == Lowest(Match(cur, op)) IN
  IF Match(cur, op) = {}
  THEN Result(cur, FALSE, FALSE, TRUE)
  ELSE IF cur[k].shares < op.shares
  THEN Result(ShiftUp(cur, k), TRUE, FALSE, FALSE)
  ELSE Result([cur EXCEPT ![k].shares = @ - op.shares], TRUE, FALSE, FALSE)

ReduceFrom(cur, op) ==
  LET k == Lowest(Match(cur, op)) IN
  IF Match(cur, op) = {}
  THEN Result(cur, FALSE, FALSE, TRUE)
  ELSE IF cur[k].shares <= op.shares
  THEN Result(ShiftUp(cur, k), TRUE, FALSE, FALSE)
  ELSE Result([cur EXCEPT ![k].shares = @ - op.shares], TRUE, FALSE, FALSE)

NextSide(cur, op) == IF op.op = "OP_ADD" THEN AddTo(cur, op) ELSE ReduceFrom(cur, op)

-----------------------------------------------------------------------------
(* The registers of a book.                                                 *)

Crossed(b, a) == b[0].vld /\ a[0].vld /\ b[0].price >= a[0].price

Snapshot(b, a) == [bid |-> b, ask |-> a]
NoSnapshot     == Snapshot(EmptySide, EmptySide)

ResetBook ==
  [bid |-> EmptySide, ask |-> EmptySide, upd |-> NoSnapshot, upd_valid |-> FALSE,
   evict_count |-> 0, reduce_miss_count |-> 0, crossed_count |-> 0]

\* An edge without op_valid.
HoldBook(book) == [book EXCEPT !.upd_valid = FALSE, !.upd = NoSnapshot]

\* An edge with op_valid: only the addressed side changes, and the snapshot is
\* registered from the same next state.
ApplyOp(book, op) ==
  LET nxt   == NextSide(IF op.side = Bid THEN book.bid ELSE book.ask, op)
      nb    == IF op.side = Bid THEN nxt.lvls ELSE book.bid
      na    == IF op.side = Bid THEN book.ask ELSE nxt.lvls
      Inc(c, by) == IF by THEN (c + 1) % CountMod ELSE c
  IN  [bid |-> nb, ask |-> na,
       upd |-> IF nxt.changed THEN Snapshot(nb, na) ELSE NoSnapshot,
       upd_valid |-> nxt.changed,
       evict_count |-> Inc(book.evict_count, nxt.evict),
       reduce_miss_count |-> Inc(book.reduce_miss_count, nxt.miss),
       crossed_count |-> Inc(book.crossed_count, nxt.changed /\ Crossed(nb, na))]

-----------------------------------------------------------------------------
(* What price_book's assertions (lines 242-273) ask of every side.          *)

Contiguous(cur) == \A i \in Level : i > 0 /\ cur[i].vld => cur[i - 1].vld

SortedStrictly(side, cur) ==
  \A i \in Level : i > 0 /\ cur[i].vld => Better(side, cur[i - 1].price, cur[i].price)

ZeroedBeyond(cur) == \A i \in Level : ~cur[i].vld => cur[i] = NoLevel

WellFormed(side, cur) ==
  Contiguous(cur) /\ SortedStrictly(side, cur) /\ ZeroedBeyond(cur)
=============================================================================
