----------------------------- MODULE ReplayCheck -----------------------------
(***************************************************************************)
(* scripts/run_replay.sh: the golden dump, the replay of the stream it     *)
(* wrote, and the comparison of the two traces, or of the two order files: *)
(* which of the two is followed is the choice of the first state.          *)
(*                                                                         *)
(* The hardware appears as what the harness sees of it, with faults: an    *)
(* update or a frame that is lost, wrong, or late enough to be taken for   *)
(* one of the next message.                                                *)
(***************************************************************************)
EXTENDS DumpTrace, Comparator

CONSTANTS
  Reports, Floors,      \* values for --max-report and for --min-updates, --min-orders
  MaxFaults             \* bound: faults of the hardware in a replay

VARIABLES
  replayed,             \* messages of the stream the hardware has taken
  msgs_seen,            \* message boundaries the harness has counted
  written,              \* the file of the harness
  faults,               \* of the hardware
  replay                \* running, complete or killed

replayVars == <<replayed, msgs_seen, written, faults, replay>>
checkVars  == <<dumpVars, replayVars, compareVars>>

-----------------------------------------------------------------------------
Faulty(line) == {[line EXCEPT !.body = "wrong"], [line EXCEPT !.n = @ + 1]}

WithFault(lines) ==
  UNION {{RemoveAt(lines, i)} \cup {ReplaceAt(lines, i, f) : f \in Faulty(lines[i])} :
           i \in DOMAIN lines}

Observed(kind) == IF tool = "compare_traces" THEN Updates(kind) ELSE Frames(kind)

\* An empty message has no last byte and so no boundary; an update, or the
\* start of a frame, belongs to the boundary before it.
ReplayMessage ==
  LET kind  == Messages[replayed + 1]
      lines == Lines(msgs_seen, Observed(kind), "lat")
  IN
  /\ phase # "reading" /\ replay = "running"
  /\ replayed < Len(Messages)
  /\ replayed' = replayed + 1
  /\ msgs_seen' = IF kind = "empty" THEN msgs_seen ELSE msgs_seen + 1
  /\ \/ written' = written \o lines /\ UNCHANGED faults
     \/ /\ faults < MaxFaults /\ faults' = faults + 1
        /\ \E wrong \in WithFault(lines) : written' = written \o wrong
  /\ UNCHANGED <<dumpVars, replay, compareVars>>

ReplayEnds ==
  /\ phase # "reading" /\ replay = "running"
  /\ replayed = Len(Messages)
  /\ replay' = "complete"
  /\ UNCHANGED <<dumpVars, replayed, msgs_seen, written, faults, compareVars>>

KillReplay ==
  /\ phase # "reading" /\ replay = "running"
  /\ written' \in Cuts(written)
  /\ replay' = "killed"
  /\ UNCHANGED <<dumpVars, replayed, msgs_seen, faults, compareVars>>

\* The files of a producer that failed are compared like any others.
StartCompare ==
  /\ replay # "running" /\ max_report = 0
  /\ max_report' \in Reports /\ min_matched' \in Floors
  /\ golden' = IF tool = "compare_traces" THEN trace ELSE orders
  /\ rtl' = written
  /\ UNCHANGED <<dumpVars, replayVars, tool, index, compared, mismatches, first,
                 reports, returned>>

Compare == max_report # 0 /\ (CompareTraces \/ CompareOrders) /\ UNCHANGED <<dumpVars, replayVars>>

Init ==
  /\ DumpInit
  /\ replayed = 0 /\ msgs_seen = 0 /\ written = << >> /\ faults = 0 /\ replay = "running"
  /\ tool \in {"compare_traces", "compare_orders"}
  /\ max_report = 0 /\ min_matched = 0 /\ golden = << >> /\ rtl = << >>
  /\ CompareInit

Next ==
  \/ DumpNext /\ UNCHANGED <<replayVars, compareVars>>
  \/ ReplayMessage \/ ReplayEnds \/ KillReplay
  \/ StartCompare
  \/ Compare

Spec == Init /\ [][Next]_checkVars

-----------------------------------------------------------------------------
(* The two files, line by line.                                             *)

\* Lines from the start on which the files agree.
Agreed ==
  LET shorter == Min({Len(golden), Len(rtl)})
  IN  Max({k \in 0 .. shorter : \A i \in 1 .. k : Same(i)})

\* The tool exits with 0 exactly when the files have the same lines, all of
\* them whole, and at least as many as asked for: also when one file is a
\* prefix of the other, when both are empty and when both end in the same
\* torn line (compare_traces.py lines 14-17, 144-149).
VerdictIsRight ==
  returned =>
    (Passed <=> /\ Len(golden) = Len(rtl) /\ Agreed = Len(golden)
                /\ Len(golden) >= min_matched)

\* When no line is refused, the first difference that is reported is the first
\* one there is, after exactly the lines that agree (lines 107-110).
FirstDivergence ==
  returned /\ mismatches > 0 /\ first_mismatch.reason # "bad line" =>
    /\ matched_before_first = Agreed /\ first_mismatch.index = Agreed

\* The same of every result, that of a refused line included: "updates that
\* matched *before* the first divergence" (compare_traces.py lines 107-108).
MatchedBeforeFirst ==
  returned /\ mismatches > 0 => matched_before_first = Agreed

\* compare_orders names, after any number of differing frames, the line at
\* which the shorter file ended ("reported even when the per-frame comparison
\* stopped early", compare_orders.py lines 108-110).
LengthIsReported ==
  returned /\ tool = "compare_orders" /\ Len(golden) # Len(rtl)
    /\ first_mismatch.reason # "bad line" =>
      Last(reports) = Report(Min({Len(golden), Len(rtl)}), "ended early")

\* End to end: after a dump and a replay that ran to their end, a tool passes
\* exactly when the hardware made no fault in what it compares.  An empty record
\* shifts the ordinals, since the harness does not count it.
EndToEnd ==
  /\ returned /\ phase = "complete" /\ replay = "complete"
  /\ Len(golden) >= min_matched
  /\ \A i \in DOMAIN capture : capture[i] # "empty"
  => (Passed <=> faults = 0)
=============================================================================
