---------------------------- MODULE BookContract ----------------------------
(***************************************************************************)
(* What a price book promises: the lists of GoldenBook under a sequence of *)
(* add and reduce calls, and the snapshot event each call that changed     *)
(* something returns.                                                      *)
(***************************************************************************)
EXTENDS GoldenBook

CONSTANTS Prices, MaxAdd, CountMod, NoEvent

VARIABLES bid, ask, evict_count, reduce_miss_count, event

vars == <<bid, ask, evict_count, reduce_miss_count, event>>

Init ==
  /\ bid = << >> /\ ask = << >>
  /\ evict_count = 0 /\ reduce_miss_count = 0
  /\ event = NoEvent

Restart ==
  /\ bid' = << >> /\ ask' = << >>
  /\ evict_count' = 0 /\ reduce_miss_count' = 0
  /\ event' = NoEvent

Quiet ==
  /\ event' = NoEvent
  /\ UNCHANGED <<bid, ask, evict_count, reduce_miss_count>>

\* The effect of a call that leaves out on one side.
Effect(side, out) ==
  /\ bid' = IF side = Bid THEN out.levels ELSE bid
  /\ ask' = IF side = Bid THEN ask ELSE out.levels
  /\ evict_count' = (evict_count + out.evicts) % CountMod
  /\ reduce_miss_count' = (reduce_miss_count + out.misses) % CountMod
  /\ event' = IF out.changed THEN [bid |-> Padded(bid'), ask |-> Padded(ask')] ELSE NoEvent

AddCall(side, p, n) == Effect(side, Add(IF side = Bid THEN bid ELSE ask, side, p, n))

ReduceCall(side, p, n) == Effect(side, Reduce(IF side = Bid THEN bid ELSE ask, p, n))

Next ==
  \/ Restart \/ Quiet
  \/ \E side \in {Bid, Ask}, p \in Prices, n \in 0 .. MaxAdd :
       AddCall(side, p, n) \/ ReduceCall(side, p, n)

Spec == Init /\ [][Next]_vars
=============================================================================
