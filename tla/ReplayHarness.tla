---------------------------- MODULE ReplayHarness ----------------------------
(***************************************************************************)
(* tb/replay/replay_main.cpp around itch_book_top: the ordinal it gives to *)
(* an update.  The harness counts msg_boundary, which the framer raises    *)
(* one cycle before the decoder hands the message on, and takes an update  *)
(* for one of the last message it has counted.                             *)
(*                                                                         *)
(* msgs_seen has no bound, so it is kept relative: overtaken[k] says by    *)
(* how much the ordinal that an update would get now is too high for the   *)
(* k-th event of the golden model that is still to be shown.  A SYSTEM     *)
(* message of the feed stands for every message that never reaches the     *)
(* table, those of types the decoder rejects included.                     *)
(***************************************************************************)
EXTENDS ItchBookTop

VARIABLES
  any_seen,      \* msgs_seen > 0
  overtaken,     \* history: for each event of expected, as above
  owners,        \* history: the kind of message of each event of expected
  last_kind      \* history: the kind of the last message counted

harnessVars == <<topVars, any_seen, overtaken, owners, last_kind>>

\* scripts/gen_symbols.py: the names in the order given, unused slots empty.
SymbolTable(symbols) ==
  [i \in BookIdx |-> IF i < Len(symbols) THEN symbols[i + 1] ELSE NoSymbol]

\* This cycle's boundary is that of the message the decoder shows next.
msg_boundary == dec_valid'

\* The update of a cycle is taken before the boundary of the same cycle.
ExcessBoundaryFirst == overtaken[1] + IF msg_boundary THEN 1 ELSE 0
                                                     \* mutant: the boundary first
Excess == overtaken[1]

Unshown(s) == IF upd_valid /\ s # << >> THEN Tail(s) ELSE s

Due(x) == [k \in 1 .. Len(expected') - Len(Unshown(expected)) |-> x]

Sample ==
  /\ any_seen' = (any_seen \/ msg_boundary)
  /\ LET due == Unshown(overtaken) \o Due(0)
     IN  overtaken' = [k \in DOMAIN due |-> due[k] + IF msg_boundary THEN 1 ELSE 0]
  /\ owners' = Unshown(owners) \o Due(dec_msg.kind)
  /\ last_kind' = IF msg_boundary THEN dec_msg'.kind ELSE last_kind

InitHarness ==
  /\ InitTop
  /\ any_seen = FALSE /\ overtaken = << >> /\ owners = << >> /\ last_kind = "SYSTEM"

Restart ==
  /\ ResetTop
  /\ any_seen' = FALSE /\ overtaken' = << >> /\ owners' = << >> /\ last_kind' = "SYSTEM"

NextHarness == (Edge /\ Sample) \/ Restart

SpecHarness == InitHarness /\ [][NextHarness]_harnessVars

-----------------------------------------------------------------------------
\* No update comes before the first boundary, and each gets the ordinal of the
\* message it is of.  The one exception is a REPLACE with a message right
\* behind it that does not reach the table: its update may get the ordinal of
\* that message, and never of a later one (lines 33-43).
OrdinalIsRight ==
  [][upd_valid =>
       /\ any_seen /\ overtaken # << >>
       /\ \/ Excess = 0
          \/ Excess = 1 /\ owners[1] = "REPLACE" /\ last_kind = "SYSTEM"]_harnessVars
=============================================================================
