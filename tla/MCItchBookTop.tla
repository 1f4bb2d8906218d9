---------------------------- MODULE MCItchBookTop ----------------------------
(* A small pipeline for TLC: two probes, so a REPLACE is busy for four cycles *)
(* and its update comes seven cycles after its boundary at the latest.        *)
EXTENDS ReplayHarness, TLC

CONSTANTS MCIds, MCSides, MCAdds, MCTakes

MCHash == [id \in MCIds |-> id % DEPTH]

MCPowerUp == {SlotEntry(CHOOSE id \in MCIds : TRUE, 0, 1, 1, 1)}

MCSYMBOLS == SymbolTable(SelectSeq(<<"AAPL", "MSFT">>, LAMBDA s : s \in Symbol))

\* Both sides and all prices for AAPL, one kind of order for the others.
MCFeed ==
  {m \in Msg :
     CASE m.kind = "ADD" -> /\ m.shares \in MCAdds /\ m.side \in MCSides
                            /\ m.symbol # "AAPL" => m.side = 1 /\ m.price = 1
       [] m.kind = "REPLACE" -> m.shares \in MCAdds
       [] m.kind = "EXEC" -> m.shares \in MCTakes
       [] OTHER -> m.kind # "CANCEL"}
=============================================================================
