----------------------------- MODULE GoldenBook -----------------------------
(***************************************************************************)
(* class PriceBook of model/book.py: a side is a list of price levels,     *)
(* best first.                                                             *)
(***************************************************************************)
EXTENDS Integers, Sequences, SequencesExt

CONSTANTS n_levels

Bid == 1
Ask == 0

PriceLevel(p, n) == [price |-> p, shares |-> n]

Beats(side, p, q) == IF side = Bid THEN p > q ELSE p < q

IndexOf(levels, p) == SelectInSeq(levels, LAMBDA level : level.price = p)

\* The list after an operation, whether it changed, and the counter it moves.
Outcome(levels, changed, evicts, misses) ==
  [levels |-> levels, changed |-> changed, evicts |-> evicts, misses |-> misses]

\* Insert before the first level the price beats, then drop what overflows.
Inserted(levels, side, p, n) ==
  LET at   == SelectInSeq(levels, LAMBDA level : Beats(side, p, level.price))
      long == InsertAt(levels, IF at = 0 THEN Len(levels) + 1 ELSE at, PriceLevel(p, n))
  IN  IF Len(long) > n_levels
      THEN Outcome(Front(long), TRUE, 1, 0)
      ELSE Outcome(long, TRUE, 0, 0)

Add(levels, side, p, n) ==
  LET i == IndexOf(levels, p) IN
  IF i # 0
  THEN Outcome([levels EXCEPT ![i].shares = @ + n], TRUE, 0, 0)
  ELSE IF Len(levels) >= n_levels /\ Beats(side, Last(levels).price, p)
  THEN Outcome(levels, FALSE, 1, 0)
  ELSE Inserted(levels, side, p, n)

Reduce(levels, p, n) ==
  LET i == IndexOf(levels, p) IN
  IF i = 0
  THEN Outcome(levels, FALSE, 0, 1)
  ELSE IF levels[i].shares - n <= 0
  THEN Outcome(RemoveAt(levels, i), TRUE, 0, 0)
  ELSE Outcome([levels EXCEPT ![i].shares = @ - n], TRUE, 0, 0)

\* A list padded with zero levels to n_levels.
Padded(levels) ==
  [i \in 0 .. n_levels - 1 |->
     IF i < Len(levels) THEN levels[i + 1] ELSE PriceLevel(0, 0)]
=============================================================================
