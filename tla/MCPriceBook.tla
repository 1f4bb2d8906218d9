----------------------------- MODULE MCPriceBook -----------------------------
(* price_book against model/book.py's PriceBook, at a few levels and prices. *)
EXTENDS PriceBook

CONSTANTS NoEvent

\* Price and share count of every slot.
Values(cur) == [i \in Level |-> [price |-> cur[i].price, shares |-> cur[i].shares]]

\* The list of a side: its levels, best first, from slot 0.
ListOf(cur) == [k \in 1 .. Levels(cur) |-> Values(cur)[k - 1]]

Contract == INSTANCE BookContract
  WITH n_levels <- N_LEVELS, Prices <- Price, MaxAdd <- ShareMod - 1,
       bid <- ListOf(book.bid), ask <- ListOf(book.ask),
       evict_count <- book.evict_count, reduce_miss_count <- book.reduce_miss_count,
       event <- IF book.upd_valid
                THEN [bid |-> Values(book.upd.bid), ask |-> Values(book.upd.ask)]
                ELSE NoEvent

\* The comparators, priority encoders and shift network compute, in one cycle,
\* what PriceBook.add and PriceBook.reduce do with a list, and register the
\* snapshot they return, zero-padded (price_book header, "bit-matching").
ImplementsContract == Contract!Spec
=============================================================================
