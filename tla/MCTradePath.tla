----------------------------- MODULE MCTradePath -----------------------------
(* Two symbols, two levels, and updates on both sides of every threshold. *)
EXTENDS TradePath, TLC

Side2(x, y) == 0 :> x @@ 1 :> y

\* An update of book i: best prices b and a, shares of the two bid and ask levels.
Upd(i, b, a, bs, as) ==
  [book_idx |-> i, bid_price |-> Side2(b, 0), ask_price |-> Side2(a, 0),
   bid_shares |-> bs, ask_shares |-> as]

\* Masses 9 : 2 are LONG, 8 : 2 is the boundary and NEUTRAL; an odd share on
\* the second level is cut by the shift.
Heavy    == Side2(8, 2)
Boundary == Side2(8, 1)
Light    == Side2(2, 1)

MCUpdates ==
  { Upd(0, 20, 22, Heavy, Light),      \* LONG, spread 2 around 21
    Upd(0, 20, 22, Light, Heavy),      \* SHORT
    Upd(0, 20, 22, Boundary, Light),   \* NEUTRAL
    Upd(0, 20, 0, Heavy, Side2(0, 0)), \* LONG with an empty ask side
    Upd(0, 0, 22, Light, Heavy),       \* SHORT without a bid price
    Upd(0, 22, 20, Heavy, Light),      \* LONG and crossed
    Upd(0, 10, 30, Light, Heavy),      \* SHORT, mid 20: 10 away, outside the collar
    Upd(0, 16, 27, Heavy, Light),      \* LONG, mid 21: 6 away, outside by one
    Upd(1, 20, 22, Heavy, Light),
    Upd(1, 20, 22, Boundary, Light),
    Upd(1, 16, 26, Light, Heavy) }     \* SHORT, mid 21: 5 away, on the collar
=============================================================================
