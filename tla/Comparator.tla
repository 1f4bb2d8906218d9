----------------------------- MODULE Comparator -----------------------------
(***************************************************************************)
(* model/compare_traces.py and model/compare_orders.py: compare_files and  *)
(* the verdict of main.  One step is one turn of the loop, which takes a   *)
(* line from each file; the two tools share it but for the fields they     *)
(* compare and for what they do when they have seen enough differences.    *)
(***************************************************************************)
EXTENDS TraceLines, FiniteSetsExt

CONSTANTS
  NoReport     \* first_mismatch is None

ASSUME NoReportAssumption ==
  NoReport \notin [index : Nat, reason : {"ended early", "bad line", "differs"}]

VARIABLES
  tool,                  \* which of the two runs
  max_report, min_matched,             \* --max-report, --min-updates or --min-orders
  golden, rtl,           \* the lines of the two files
  index,                 \* lines already taken from each
  compared, mismatches, first_mismatch, matched_before_first, reports,
  returned               \* compare_files has returned

arguments == <<tool, max_report, min_matched, golden, rtl>>
first     == <<first_mismatch, matched_before_first>>
compareVars == <<arguments, index, compared, mismatches, first, reports, returned>>

Report(at, reason) == [index |-> at, reason |-> reason]

-----------------------------------------------------------------------------
(* What is compared of a line.                                              *)

\* IGNORED_FIELDS; every other field counts.
NormalAll(line) == line                              \* mutant: the latency counts too
NormalUpdate(line) == IF line.other = "lat" THEN [line EXCEPT !.other = "none"] ELSE line

\* Ordinal and frame, whatever else the line holds.
NormalOrder(line) == <<line.n, line.body>>

Normal(line) == IF tool = "compare_traces" THEN NormalUpdate(line) ELSE NormalOrder(line)

GoldenLeft == Len(golden) - index
RtlLeft    == Len(rtl) - index

Whole(i) == golden[i] # Torn /\ rtl[i] # Torn
Same(i)  == Whole(i) /\ Normal(golden[i]) = Normal(rtl[i])

-----------------------------------------------------------------------------
(* The turns of the loop.                                                   *)

BothEnded ==
  /\ GoldenLeft = 0 /\ RtlLeft = 0
  /\ returned' = TRUE
  /\ UNCHANGED <<arguments, index, compared, mismatches, first, reports>>

NoteEach(detail) ==                                  \* mutant: the last difference is kept
  first_mismatch' = detail /\ matched_before_first' = compared
Note(detail) ==
  IF first_mismatch = NoReport
  THEN first_mismatch' = detail /\ matched_before_first' = compared
  ELSE UNCHANGED first

\* The report of a file that ended early is not subject to max_report.
OneEnded ==
  LET detail == Report(index, "ended early") IN
  /\ GoldenLeft = 0 \/ RtlLeft = 0
  /\ GoldenLeft # RtlLeft
  /\ mismatches' = mismatches + 1
  /\ Note(detail)
  /\ reports' = Append(reports, detail)
  /\ returned' = TRUE
  /\ UNCHANGED <<arguments, index, compared>>

Taken == GoldenLeft > 0 /\ RtlLeft > 0

\* _bad_line: a result of its own, whatever was found before.
BadLine ==
  LET detail == Report(index, "bad line") IN
  /\ Taken /\ ~Whole(index + 1)
  /\ mismatches' = 1
  /\ first_mismatch' = detail /\ matched_before_first' = compared
  /\ reports' = <<detail>>
  /\ returned' = TRUE
  /\ UNCHANGED <<arguments, index, compared>>

Matches ==
  /\ Taken /\ Same(index + 1)
  /\ compared' = compared + 1
  /\ index' = index + 1
  /\ UNCHANGED <<arguments, mismatches, first, reports, returned>>

Noted(detail) ==
  IF Len(reports) < max_report THEN Append(reports, detail) ELSE reports

\* A difference after which the comparison goes on.
Differs ==
  LET detail == Report(index, "differs") IN
  /\ Taken /\ Whole(index + 1) /\ ~Same(index + 1)
  /\ mismatches + 1 < max_report
  /\ mismatches' = mismatches + 1
  /\ Note(detail)
  /\ reports' = Noted(detail)
  /\ index' = index + 1
  /\ UNCHANGED <<arguments, compared, returned>>

\* The rest of both files, counted and not compared.
DrainNext ==                                         \* mutant: one line too far
  IF GoldenLeft = RtlLeft THEN << >>
  ELSE <<Report(index + 1 + Min({GoldenLeft, RtlLeft}), "ended early")>>
Drain ==
  IF GoldenLeft = RtlLeft THEN << >>
  ELSE <<Report(index + Min({GoldenLeft, RtlLeft}), "ended early")>>

\* The difference after which it stops: compare_orders still says whether one
\* file is longer, compare_traces does not look.
LastDiffers ==
  LET detail == Report(index, "differs")
      length == IF tool = "compare_orders" THEN Drain ELSE << >>
  IN
  /\ Taken /\ Whole(index + 1) /\ ~Same(index + 1)
  /\ mismatches + 1 >= max_report
  /\ mismatches' = mismatches + 1 + Len(length)
  /\ Note(detail)
  /\ reports' = Noted(detail) \o length
  /\ returned' = TRUE
  /\ UNCHANGED <<arguments, index, compared>>

CompareTraces ==
  /\ tool = "compare_traces" /\ ~returned
  /\ BothEnded \/ OneEnded \/ BadLine \/ Matches \/ Differs \/ LastDiffers

CompareOrders ==
  /\ tool = "compare_orders" /\ ~returned
  /\ BothEnded \/ OneEnded \/ BadLine \/ Matches \/ Differs \/ LastDiffers

CompareInit ==
  /\ index = 0 /\ compared = 0 /\ mismatches = 0
  /\ first_mismatch = NoReport /\ matched_before_first = 0
  /\ reports = << >> /\ returned = FALSE

\* Exit status 0.
PassedAny == mismatches = 0                          \* mutant: no floor on what matched
Passed == mismatches = 0 /\ compared >= min_matched
=============================================================================
