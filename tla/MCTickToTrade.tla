---------------------------- MODULE MCTickToTrade ----------------------------
(* One symbol of one level, no cooldown and no order spacing: an order may  *)
(* follow the other on consecutive updates, and the ring of two overflows.  *)
EXTENDS TickToTrade

\* An update of the book with best prices b and a and shares bs and as there.
Upd(b, a, bs, as) ==
  [book_idx |-> 0, bid_price |-> [l \in {0} |-> b], ask_price |-> [l \in {0} |-> a],
   bid_shares |-> [l \in {0} |-> bs], ask_shares |-> [l \in {0} |-> as]]

MCUpdates ==
  { Upd(20, 22, 9, 2),      \* LONG
    Upd(20, 22, 2, 9),      \* SHORT
    Upd(20, 22, 8, 2),      \* NEUTRAL
    Upd(22, 20, 9, 2) }     \* LONG and crossed
=============================================================================
