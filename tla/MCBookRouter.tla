----------------------------- MODULE MCBookRouter -----------------------------
(* A table of four slots for TLC, hashed by hash_fold for two address bits. *)
EXTENDS TableRefinement, Bitwise, Functions, TLC

CONSTANTS MCAddrBits, MCIds

\* hash_fold (lines 123-133): XOR of the AW-bit chunks of the id.  The ids of
\* the runs are below 2^(4 * AW), so the higher chunks are zero.
HashFold(id, aw) ==
  LET chunk(i) == (id \div 2 ^ (i * aw)) % 2 ^ aw
  IN  FoldFunction(LAMBDA c, h : h ^^ c, 0, [i \in 0 .. 3 |-> chunk(i)])

MCHash == [id \in MCIds |-> HashFold(id, MCAddrBits)]

\* Slot 0 is unused and slot 2 repeats the symbol of slot 1.
MCSYMBOLS == 0 :> NoSymbol @@ 1 :> "AAPL" @@ 2 :> "AAPL"

\* Power-up contents: a cleared word, or a word that looks like a live order.
MCPowerUp == {ZeroEntry, SlotEntry(3, 0, 1, 0, 0)}
=============================================================================
