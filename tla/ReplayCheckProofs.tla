-------------------------- MODULE ReplayCheckProofs --------------------------
(***************************************************************************)
(* Proofs about ReplayCheck: what the comparators say of two files of any  *)
(* length, whatever is in them and wherever they were cut; what dump_trace *)
(* writes for a capture of any length; and what a PASS says of a replay of *)
(* it that any records may have failed.                                    *)
(***************************************************************************)
EXTENDS ReplayCheck, SequenceTheorems, WellFoundedInduction, TLAPS

-----------------------------------------------------------------------------
(* Files.                                                                   *)

File == Seq(Line \cup {Torn})

\* The files of both producers are sequences of lines, some of them torn.
FilesInv ==
  /\ trace \in File /\ orders \in File /\ written \in File
  /\ golden \in File /\ rtl \in File
  /\ capture \in Seq(Kind) /\ msgs_seen \in Nat

\* The lines a message writes are lines of a file.
LEMMA LinesTyped ==
  ASSUME NEW n \in Nat, NEW kind, NEW other \in {"none", "lat", "decoded"},
         NEW bodies, bodies = Updates(kind) \/ bodies = Frames(kind)
  PROVE  Lines(n, bodies, other) \in Seq(Line)
<1> DEFINE Body == {"changed", "reduced", "added", "frame"}
<1>1. bodies \in Seq(Body)
  <2>1. /\ <<"changed">> \in Seq(Body) /\ <<"reduced", "added">> \in Seq(Body)
        /\ <<"frame">> \in Seq(Body) /\ << >> \in Seq(Body)
    OBVIOUS
  <2>2. bodies \in {<<"changed">>, <<"reduced", "added">>, <<"frame">>, << >>}
    BY DEF Updates, Frames
  <2> HIDE DEF Body
  <2> QED
    BY <2>1, <2>2
<1>2. Len(bodies) \in Nat /\ DOMAIN bodies = 1 .. Len(bodies)
      /\ \A i \in DOMAIN bodies : bodies[i] \in Body
  BY <1>1
<1>3. Lines(n, bodies, other) \in [1 .. Len(bodies) -> Line]
  BY <1>2 DEF Lines, Line
<1> QED
  BY <1>2, <1>3

\* A file that was cut off is a file.
LEMMA CutsTyped ==
  ASSUME NEW file \in File, NEW cut \in Cuts(file)
  PROVE  cut \in File
<1>1. CASE cut = file
  BY <1>1
<1>2. ASSUME NEW k \in 0 .. Len(file) - 1,
             cut = SubSeq(file, 1, k) \/ cut = Append(SubSeq(file, 1, k), Torn)
      PROVE  cut \in File
  <2>1. SubSeq(file, 1, k) \in File
    BY SubSeqProperties DEF File
  <2> QED
    BY <1>2, <2>1 DEF File
<1> QED
  BY <1>1, <1>2 DEF Cuts

\* Lines with a fault in them are lines.
LEMMA FaultyTyped ==
  ASSUME NEW lines \in Seq(Line), NEW wrong \in WithFault(lines)
  PROVE  wrong \in Seq(Line)
<1>1. PICK i \in DOMAIN lines :
        wrong \in {RemoveAt(lines, i)} \cup {ReplaceAt(lines, i, f) : f \in Faulty(lines[i])}
  BY DEF WithFault
<1>2. i \in 1 .. Len(lines) /\ lines[i] \in Line
  BY <1>1
<1>3. CASE wrong = RemoveAt(lines, i)
  BY <1>2, <1>3 DEF RemoveAt
<1>4. ASSUME NEW f \in Faulty(lines[i]), wrong = ReplaceAt(lines, i, f)
      PROVE  wrong \in Seq(Line)
  <2>1. f \in Line
    BY <1>2 DEF Faulty, Line
  <2> QED
    BY <1>2, <1>4, <2>1 DEF ReplaceAt
<1> QED
  BY <1>1, <1>3, <1>4

\* A file with more lines is a file.
LEMMA FileAppend ==
  ASSUME NEW file \in File, NEW lines \in Seq(Line)
  PROVE  file \o lines \in File
<1>1. lines \in File
  BY DEF File
<1> QED
  BY <1>1, ConcatProperties DEF File

\* Every step leaves files.
LEMMA FilesStep == FilesInv /\ [Next]_checkVars => FilesInv'
<1> SUFFICES ASSUME FilesInv, [Next]_checkVars PROVE FilesInv'
  OBVIOUS
<1> USE DEF FilesInv
<1>1. ASSUME NEW kind \in Kind, ReadMessage(kind), UNCHANGED <<replayVars, compareVars>>
      PROVE  FilesInv'
  <2>1. /\ Lines(Ordinal, Updates(kind), "none") \in Seq(Line)
        /\ Lines(Ordinal, Frames(kind), "decoded") \in Seq(Line)
    BY LinesTyped DEF Ordinal
  <2> QED
    BY <1>1, <2>1, FileAppend DEF ReadMessage, replayVars, compareVars, arguments
<1>2. CASE EndOfCapture /\ UNCHANGED <<replayVars, compareVars>>
  BY <1>2 DEF EndOfCapture, replayVars, compareVars, arguments
<1>3. CASE Raise /\ UNCHANGED <<replayVars, compareVars>>
  BY <1>3 DEF Raise, replayVars, compareVars, arguments, Kind
<1>4. CASE Kill /\ UNCHANGED <<replayVars, compareVars>>
  BY <1>4, CutsTyped DEF Kill, replayVars, compareVars, arguments
<1>5. CASE ReplayMessage
  <2>1. PICK kind, lines :
          /\ lines = Lines(msgs_seen, Observed(kind), "lat")
          /\ \/ written' = written \o lines
             \/ \E wrong \in WithFault(lines) : written' = written \o wrong
    BY <1>5 DEF ReplayMessage
  <2>2. lines \in Seq(Line)
    BY <2>1, LinesTyped DEF Observed
  <2>3. written' \in File
    BY <2>1, <2>2, FaultyTyped, FileAppend
  <2>4. msgs_seen' \in Nat /\ UNCHANGED <<dumpVars, compareVars>>
    BY <1>5 DEF ReplayMessage
  <2> QED
    BY <2>3, <2>4 DEF dumpVars, compareVars, arguments
<1>6. CASE ReplayEnds
  BY <1>6 DEF ReplayEnds, dumpVars, compareVars, arguments
<1>7. CASE KillReplay
  BY <1>7, CutsTyped DEF KillReplay, dumpVars, compareVars, arguments
<1>8. CASE StartCompare
  BY <1>8 DEF StartCompare, dumpVars, replayVars
<1>9. CASE Compare
  <2>1. UNCHANGED <<dumpVars, replayVars, arguments>>
    BY <1>9 DEF Compare, CompareTraces, CompareOrders, BothEnded, OneEnded, BadLine,
                Matches, Differs, LastDiffers
  <2> QED
    BY <2>1 DEF dumpVars, replayVars, arguments
<1>10. CASE UNCHANGED checkVars
  BY <1>10 DEF checkVars, dumpVars, replayVars, compareVars, arguments
<1> QED
  BY <1>1, <1>2, <1>3, <1>4, <1>5, <1>6, <1>7, <1>8, <1>9, <1>10 DEF Next, DumpNext

-----------------------------------------------------------------------------
(* The loop.                                                                *)

Detail == [index : Nat, reason : {"ended early", "bad line", "differs"}]

\* The files agree on d lines, and there is no more to agree on.
AgreeOn(d) ==
  /\ d \in 0 .. Len(golden) /\ d \in 0 .. Len(rtl)
  /\ \A i \in 1 .. d : Same(i)
  /\ d < Len(golden) /\ d < Len(rtl) => ~Same(d + 1)

Shorter == IF Len(golden) < Len(rtl) THEN Len(golden) ELSE Len(rtl)

\* As long as the loop runs, and nothing differed, every line taken was the same;
\* the first one that was not is noted.
LoopInv ==
  /\ max_report = 0 => CompareInit
  /\ index \in 0 .. Len(golden) /\ index \in 0 .. Len(rtl)
  /\ compared \in Nat /\ mismatches \in Nat /\ reports \in Seq(Detail)
  /\ first_mismatch = NoReport <=> mismatches = 0
  /\ mismatches = 0 => compared = index /\ \A i \in 1 .. index : Same(i)
  /\ ~returned /\ mismatches > 0 =>
       /\ first_mismatch = Report(matched_before_first, "differs")
       /\ AgreeOn(matched_before_first) /\ matched_before_first < Shorter

\* What compare_files returns.
ResultInv ==
  returned =>
    /\ mismatches = 0 => Len(golden) = Len(rtl) /\ compared = Len(golden)
    /\ mismatches > 0 =>
         /\ \E d : AgreeOn(d) /\ ~(Len(golden) = Len(rtl) /\ d = Len(golden))
         /\ first_mismatch \in Detail
         /\ first_mismatch.reason # "bad line" =>
              /\ AgreeOn(matched_before_first)
              /\ first_mismatch.index = matched_before_first
              /\ tool = "compare_orders" /\ Len(golden) # Len(rtl) =>
                   /\ reports # << >>
                   /\ reports[Len(reports)] = Report(Shorter, "ended early")

CheckInv == FilesInv /\ LoopInv /\ ResultInv

\* The smaller of two numbers.
LEMMA MinOfTwo ==
  ASSUME NEW a \in Nat, NEW b \in Nat
  PROVE  Min({a, b}) = IF a < b THEN a ELSE b
  BY DEF Min

\* The lengths of the two files are numbers, and the shorter one is their least.
LEMMA Lengths ==
  ASSUME FilesInv
  PROVE  /\ Len(golden) \in Nat /\ Len(rtl) \in Nat /\ Shorter \in Nat
         /\ Min({Len(golden), Len(rtl)}) = Shorter
<1>1. Len(golden) \in Nat /\ Len(rtl) \in Nat
  BY DEF FilesInv, File
<1> QED
  BY <1>1, MinOfTwo DEF Shorter

\* The length of the common prefix is the number on which the files agree.
LEMMA AgreedIs ==
  ASSUME FilesInv, NEW d, AgreeOn(d)
  PROVE  Agreed = d
<1> DEFINE S == {k \in 0 .. Shorter : \A i \in 1 .. k : Same(i)}
<1>1. Agreed = Max(S)
  BY Lengths DEF Agreed
<1>2. d \in S
  BY Lengths DEF AgreeOn, Shorter
<1>3. ASSUME NEW k \in S PROVE d >= k
  <2>1. SUFFICES ASSUME k > d PROVE FALSE
    BY <1>2, Lengths
  <2>2. d + 1 \in 1 .. k
    BY <1>2, <2>1, Lengths
  <2>3. d < Len(golden) /\ d < Len(rtl)
    BY <1>2, <2>1, Lengths DEF Shorter
  <2> QED
    BY <2>2, <2>3 DEF AgreeOn
<1>4. S \subseteq Nat
  BY Lengths
<1> HIDE DEF S
<1>5. Max(S) \in S /\ \A k \in S : Max(S) >= k
  BY <1>2, <1>3 DEF Max
<1>6. ASSUME NEW m, m \in S, \A k \in S : m >= k
      PROVE  m = d
  <2>1. m \in Nat /\ d \in Nat /\ d >= m /\ m >= d
    BY <1>2, <1>3, <1>4, <1>6
  <2> QED
    BY <2>1
<1>7. Max(S) = d
  BY <1>5, <1>6
<1> QED
  BY <1>1, <1>7

-----------------------------------------------------------------------------
(* The turns.                                                               *)

\* A turn changes no argument, and what lines are the same with them.
LEMMA ArgumentsStay ==
  ASSUME UNCHANGED arguments
  PROVE  /\ golden' = golden /\ rtl' = rtl /\ max_report' = max_report /\ tool' = tool
         /\ \A i : Same(i)' <=> Same(i)
         /\ \A d : AgreeOn(d)' <=> AgreeOn(d)
         /\ Shorter' = Shorter
<1>1. golden' = golden /\ rtl' = rtl /\ max_report' = max_report /\ tool' = tool
  BY DEF arguments
<1>2. ASSUME NEW i PROVE Same(i)' <=> Same(i)
  BY <1>1 DEF Same, Whole, Normal, NormalUpdate, NormalOrder
<1> QED
  BY <1>1, <1>2 DEF AgreeOn, Shorter

\* The prefix on which the files agree stays while nothing writes them.
LEMMA AgreeStays ==
  ASSUME UNCHANGED arguments, NEW d, matched_before_first' = d, AgreeOn(d)
  PROVE  AgreeOn(matched_before_first)'
<1>1. golden' = golden /\ rtl' = rtl /\ \A i : Same(i)' <=> Same(i)
  BY ArgumentsStay
<1> QED
  BY <1>1 DEF AgreeOn

\* The comparison starts with nothing compared.
LEMMA StartStep ==
  ASSUME CheckInv, StartCompare
  PROVE  LoopInv' /\ ResultInv'
<1>1. CompareInit /\ CompareInit'
  BY DEF CheckInv, LoopInv, StartCompare, CompareInit, first
<1>2. Len(golden') \in Nat /\ Len(rtl') \in Nat
  BY DEF StartCompare, CheckInv, FilesInv, File
<1> QED
  BY <1>1, <1>2 DEF LoopInv, ResultInv, CompareInit

\* The counters of the loop are numbers inside both files.
LEMMA Counters ==
  ASSUME CheckInv
  PROVE  /\ Len(golden) \in Nat /\ Len(rtl) \in Nat
         /\ index \in Nat /\ index <= Len(golden) /\ index <= Len(rtl)
         /\ compared \in Nat /\ mismatches \in Nat /\ reports \in Seq(Detail)
<1>1. Len(golden) \in Nat /\ Len(rtl) \in Nat
  BY Lengths DEF CheckInv
<1> QED
  BY <1>1 DEF CheckInv, LoopInv

\* How many lines agree where one file ends, or a line differs.
LEMMA AgreeHere ==
  ASSUME CheckInv, mismatches = 0,
         \/ GoldenLeft = 0 \/ RtlLeft = 0
         \/ Taken /\ ~Same(index + 1)
  PROVE  AgreeOn(index) /\ compared = index
<1>1. Len(golden) \in Nat /\ Len(rtl) \in Nat
  BY Lengths DEF CheckInv
<1> QED
  BY <1>1 DEF CheckInv, LoopInv, AgreeOn, GoldenLeft, RtlLeft, Taken

\* The first mismatch noted is the one that is kept.
LEMMA NoteStep ==
  ASSUME CheckInv, NEW detail, Note(detail)
  PROVE  /\ mismatches = 0 => first_mismatch' = detail /\ matched_before_first' = compared
         /\ mismatches > 0 => UNCHANGED first
  BY DEF CheckInv, LoopInv, Note

\* A report is a report, and not the absence of one.
LEMMA DetailTyped ==
  ASSUME NEW at \in Nat, NEW reason \in {"ended early", "bad line", "differs"}
  PROVE  /\ Report(at, reason) \in Detail
         /\ Report(at, reason).index = at /\ Report(at, reason).reason = reason
         /\ Report(at, reason) # NoReport
<1>1. Report(at, reason) \in Detail
  BY DEF Report, Detail
<1>2. Report(at, reason) # NoReport
  BY <1>1, NoReportAssumption DEF Detail
<1> QED
  BY <1>1, <1>2 DEF Report

\* Both files end: the loop is done.
LEMMA BothEndedStep ==
  ASSUME CheckInv, ~returned, max_report # 0, BothEnded
  PROVE  LoopInv' /\ ResultInv'
<1>1. Len(golden) \in Nat /\ Len(rtl) \in Nat
  BY Lengths DEF CheckInv
<1>2. /\ UNCHANGED <<index, compared, mismatches, first_mismatch, matched_before_first,
                    reports>>
      /\ UNCHANGED arguments /\ returned'
  BY DEF BothEnded, first
<1>3. golden' = golden /\ rtl' = rtl /\ max_report' = max_report /\ tool' = tool
      /\ (\A i : Same(i)' <=> Same(i)) /\ (\A d : AgreeOn(d)' <=> AgreeOn(d))
      /\ Shorter' = Shorter
  BY <1>2, ArgumentsStay
<1>4. LoopInv'
  BY <1>2, <1>3 DEF CheckInv, LoopInv
<1>5. index = Len(golden) /\ index = Len(rtl) /\ Shorter = index
  BY <1>1 DEF BothEnded, GoldenLeft, RtlLeft, CheckInv, LoopInv, Shorter
<1>6. /\ mismatches \in Nat
      /\ mismatches > 0 =>
           /\ AgreeOn(matched_before_first) /\ matched_before_first < Shorter
           /\ first_mismatch = Report(matched_before_first, "differs")
  BY DEF CheckInv, LoopInv
<1>7. ResultInv'
  <2>1. CASE mismatches = 0
    BY <1>2, <1>3, <1>5, <2>1 DEF CheckInv, LoopInv, ResultInv
  <2>2. CASE mismatches > 0
    <3>1. matched_before_first \in Nat /\ matched_before_first # Len(golden)
      BY <1>1, <1>5, <1>6, <2>2 DEF AgreeOn
    <3>2. AgreeOn(matched_before_first)
      BY <1>6, <2>2
    <3>3. /\ first_mismatch' \in Detail
          /\ first_mismatch'.index = matched_before_first'
      BY <1>2, <1>6, <2>2, <3>1, DetailTyped
    <3>4. Len(golden') = Len(rtl')
      BY <1>3, <1>5
    <3>5. \E d : AgreeOn(d)' /\ ~(Len(golden) = Len(rtl) /\ d = Len(golden))'
      BY <1>3, <3>1, <3>2
    <3>6. AgreeOn(matched_before_first)'
      BY <1>2, <3>2, AgreeStays
    <3> QED
      BY <1>2, <3>3, <3>4, <3>5, <3>6, <2>2 DEF ResultInv
  <2> QED
    BY <2>1, <2>2 DEF CheckInv, LoopInv
<1> QED
  BY <1>4, <1>7

\* The first line that is not the same, now or before.
Found == IF mismatches = 0 THEN index ELSE matched_before_first

\* A turn that notes a difference at this line keeps the first one.
LEMMA FoundStep ==
  ASSUME CheckInv, ~returned, NEW detail \in Detail, detail.index = index, Note(detail),
         \/ GoldenLeft = 0 \/ RtlLeft = 0
         \/ Taken /\ ~Same(index + 1)
  PROVE  /\ AgreeOn(Found) /\ matched_before_first' = Found
         /\ first_mismatch' \in Detail /\ first_mismatch'.index = Found
         /\ first_mismatch' = detail \/ first_mismatch' = Report(Found, "differs")
         /\ first_mismatch' # NoReport
<1>1. CASE mismatches = 0
  <2>1. first_mismatch' = detail /\ matched_before_first' = index /\ AgreeOn(index)
    BY <1>1, AgreeHere, NoteStep
  <2> QED
    BY <1>1, <2>1, NoReportAssumption DEF Found, Detail
<1>2. CASE mismatches > 0
  <2>1. /\ first_mismatch = Report(matched_before_first, "differs")
        /\ AgreeOn(matched_before_first)
    BY <1>2 DEF CheckInv, LoopInv
  <2>2. UNCHANGED <<first_mismatch, matched_before_first>>
    BY <1>2, NoteStep DEF first
  <2>3. matched_before_first \in Nat /\ Found = matched_before_first
    BY <1>2, <2>1 DEF AgreeOn, Found
  <2> QED
    BY <2>1, <2>2, <2>3, DetailTyped
<1> QED
  BY <1>1, <1>2 DEF CheckInv, LoopInv

\* A pair of lines that match is counted.
LEMMA MatchesStep ==
  ASSUME CheckInv, ~returned, max_report # 0, Matches
  PROVE  LoopInv' /\ ResultInv'
<1>1. Len(golden) \in Nat /\ Len(rtl) \in Nat
  BY Lengths DEF CheckInv
<1>2. /\ UNCHANGED <<mismatches, first_mismatch, matched_before_first, reports, returned>>
      /\ UNCHANGED arguments
      /\ index' = index + 1 /\ compared' = compared + 1 /\ Taken /\ Same(index + 1)
  BY DEF Matches, first
<1>3. golden' = golden /\ rtl' = rtl /\ max_report' = max_report
      /\ (\A i : Same(i)' <=> Same(i)) /\ Shorter' = Shorter
  BY <1>2, ArgumentsStay
<1>4. index' \in 0 .. Len(golden) /\ index' \in 0 .. Len(rtl)
  BY <1>1, <1>2 DEF Taken, GoldenLeft, RtlLeft, CheckInv, LoopInv
<1>5. mismatches = 0 => compared' = index' /\ \A i \in 1 .. index' : Same(i)
  <2>1. ASSUME mismatches = 0, NEW i \in 1 .. index + 1
        PROVE  Same(i)
    <3>1. i \in 1 .. index \/ i = index + 1
      BY DEF CheckInv, LoopInv
    <3> QED
      BY <1>2, <2>1, <3>1 DEF CheckInv, LoopInv
  <2> QED
    BY <1>2, <2>1 DEF CheckInv, LoopInv
<1>6. mismatches > 0 =>
        /\ first_mismatch = Report(matched_before_first, "differs")
        /\ matched_before_first < Shorter /\ AgreeOn(matched_before_first)'
  BY <1>2, AgreeStays DEF CheckInv, LoopInv
<1>7. LoopInv'
  BY <1>2, <1>3, <1>4, <1>5, <1>6 DEF CheckInv, LoopInv
<1>8. ResultInv'
  BY <1>2 DEF ResultInv
<1> QED
  BY <1>7, <1>8

\* A pair that differs is a mismatch, and the loop goes on.
LEMMA DiffersStep ==
  ASSUME CheckInv, ~returned, max_report # 0, Differs
  PROVE  LoopInv' /\ ResultInv'
<1>1. Len(golden) \in Nat /\ Len(rtl) \in Nat /\ index \in Nat /\ mismatches \in Nat
  BY Lengths DEF CheckInv, LoopInv
<1>2. PICK detail : detail = Report(index, "differs")
  OBVIOUS
<1>3. /\ UNCHANGED <<compared, returned>> /\ UNCHANGED arguments
      /\ index' = index + 1 /\ mismatches' = mismatches + 1
      /\ Taken /\ ~Same(index + 1) /\ Note(detail) /\ reports' = Noted(detail)
  BY <1>2 DEF Differs
<1>4. golden' = golden /\ rtl' = rtl /\ max_report' = max_report /\ Shorter' = Shorter
  BY <1>3, ArgumentsStay
<1>5. detail \in Detail /\ detail.index = index
  BY <1>1, <1>2, DetailTyped
<1>6. /\ AgreeOn(Found) /\ matched_before_first' = Found
      /\ first_mismatch' = detail \/ first_mismatch' = Report(Found, "differs")
      /\ first_mismatch'.index = Found /\ first_mismatch' # NoReport
  BY <1>3, <1>5, FoundStep
<1>7. first_mismatch' = Report(Found, "differs")
  BY <1>2, <1>5, <1>6
<1>8. index' \in 0 .. Len(golden) /\ index' \in 0 .. Len(rtl) /\ index < Shorter
  BY <1>1, <1>3 DEF Taken, GoldenLeft, RtlLeft, Shorter
<1>9. Found < Shorter
  BY <1>8 DEF Found, CheckInv, LoopInv
<1>10. AgreeOn(matched_before_first)'
  BY <1>3, <1>6, AgreeStays
<1>11. reports' \in Seq(Detail)
  BY <1>3, <1>5 DEF Noted, CheckInv, LoopInv
<1>12. LoopInv'
  BY <1>1, <1>3, <1>4, <1>6, <1>7, <1>8, <1>9, <1>10, <1>11 DEF CheckInv, LoopInv
<1>13. ResultInv'
  BY <1>3 DEF ResultInv
<1> QED
  BY <1>12, <1>13

\* A turn that notes a difference and returns.
Stop(detail) ==
  /\ Note(detail) /\ detail \in Detail /\ detail.index = index
  /\ \/ GoldenLeft = 0 \/ RtlLeft = 0
     \/ Taken /\ ~Same(index + 1)
  /\ Taken \/ GoldenLeft # RtlLeft
  /\ UNCHANGED <<index, compared>> /\ UNCHANGED arguments
  /\ returned' = TRUE /\ mismatches' \in Nat \ {0} /\ reports' \in Seq(Detail)
  /\ tool = "compare_orders" /\ Len(golden) # Len(rtl) =>
       /\ reports' # << >>
       /\ reports'[Len(reports')] = Report(Shorter, "ended early")

\* A turn that notes a difference and returns leaves the right result.
LEMMA StopStep ==
  ASSUME CheckInv, ~returned, max_report # 0, NEW detail, Stop(detail)
  PROVE  LoopInv' /\ ResultInv'
<1>1. /\ Len(golden) \in Nat /\ Len(rtl) \in Nat
      /\ index \in Nat /\ index <= Len(golden) /\ index <= Len(rtl)
      /\ compared \in Nat /\ mismatches \in Nat
  BY Counters
<1>2. /\ golden' = golden /\ rtl' = rtl /\ max_report' = max_report /\ tool' = tool
      /\ Shorter' = Shorter /\ \A d : AgreeOn(d)' <=> AgreeOn(d)
  BY ArgumentsStay DEF Stop
<1>3. /\ index' = index /\ compared' = compared /\ returned' = TRUE
      /\ mismatches' \in Nat /\ mismatches' > 0 /\ mismatches' # 0
      /\ reports' \in Seq(Detail)
  <2>1. /\ UNCHANGED <<index, compared>> /\ returned' = TRUE
        /\ mismatches' \in Nat \ {0} /\ reports' \in Seq(Detail)
    BY Zenon DEF Stop
  <2> QED
    BY <2>1
<1>4. /\ AgreeOn(Found) /\ matched_before_first' = Found
      /\ first_mismatch' \in Detail /\ first_mismatch'.index = Found
      /\ first_mismatch' # NoReport
  BY FoundStep DEF Stop
<1>5. AgreeOn(matched_before_first)'
  BY <1>4, AgreeStays DEF Stop
<1>6. ~(Len(golden) = Len(rtl) /\ Found = Len(golden))
  <2>1. CASE mismatches = 0
    <3>1. Found = index
      BY <2>1 DEF Found
    <3>2. Taken \/ GoldenLeft # RtlLeft
      BY Zenon DEF Stop
    <3> QED
      BY <1>1, <3>1, <3>2 DEF GoldenLeft, RtlLeft, Taken
  <2>2. CASE mismatches > 0
    <3>1. matched_before_first < Shorter
      BY <2>2 DEF CheckInv, LoopInv
    <3>2. Found = matched_before_first
      BY <1>1, <2>2 DEF Found
    <3> QED
      BY <1>1, <1>4, <3>1, <3>2 DEF Shorter, AgreeOn
  <2> QED
    BY <1>1, <2>1, <2>2
<1>7. \E d : AgreeOn(d)' /\ ~(Len(golden) = Len(rtl) /\ d = Len(golden))'
  BY <1>2, <1>4, <1>6
<1>8. LoopInv'
  BY <1>1, <1>2, <1>3, <1>4 DEF LoopInv
<1>9. ResultInv'
  <2>1. first_mismatch'.index = matched_before_first'
    BY <1>4
  <2>2. (tool = "compare_orders" /\ Len(golden) # Len(rtl) =>
          /\ reports # << >>
          /\ reports[Len(reports)] = Report(Shorter, "ended early"))'
    BY <1>2 DEF Stop, Report
  <2> QED
    BY <1>3, <1>4, <1>5, <1>7, <2>1, <2>2 DEF ResultInv
<1> QED
  BY <1>8, <1>9

\* One file ends first: the loop is done.
LEMMA OneEndedStep ==
  ASSUME CheckInv, ~returned, max_report # 0, OneEnded
  PROVE  LoopInv' /\ ResultInv'
<1>1. Len(golden) \in Nat /\ Len(rtl) \in Nat /\ index \in Nat /\ mismatches \in Nat
      /\ reports \in Seq(Detail)
  BY Lengths DEF CheckInv, LoopInv
<1>2. PICK detail : detail = Report(index, "ended early")
  OBVIOUS
<1>3. detail \in Detail
  BY <1>1, <1>2, DetailTyped
<1>4. /\ UNCHANGED <<index, compared>> /\ UNCHANGED arguments /\ returned'
      /\ Note(detail) /\ mismatches' = mismatches + 1 /\ reports' = Append(reports, detail)
      /\ GoldenLeft = 0 \/ RtlLeft = 0
      /\ GoldenLeft # RtlLeft
  BY <1>2 DEF OneEnded
<1>5. index = Shorter
  BY <1>1, <1>4 DEF GoldenLeft, RtlLeft, Shorter, CheckInv, LoopInv
<1>6. reports' \in Seq(Detail) /\ reports' # << >> /\ reports'[Len(reports')] = detail
  BY <1>1, <1>3, <1>4
<1>7. mismatches' \in Nat \ {0}
  BY <1>1, <1>4
<1>8. detail.index = index
  BY <1>1, <1>2, DetailTyped
<1> QED
  BY <1>2, <1>3, <1>4, <1>5, <1>6, <1>7, <1>8, StopStep DEF Stop

\* The last difference to report: the loop is done.
LEMMA LastDiffersStep ==
  ASSUME CheckInv, ~returned, max_report # 0, LastDiffers
  PROVE  LoopInv' /\ ResultInv'
<1>1. Len(golden) \in Nat /\ Len(rtl) \in Nat /\ index \in Nat /\ mismatches \in Nat
      /\ reports \in Seq(Detail) /\ index <= Len(golden) /\ index <= Len(rtl)
  BY Counters
<1>2. PICK detail, length :
        /\ detail = Report(index, "differs")
        /\ length = IF tool = "compare_orders" THEN Drain ELSE << >>
  OBVIOUS
<1>3. /\ UNCHANGED <<index, compared>> /\ UNCHANGED arguments /\ returned'
      /\ Note(detail) /\ mismatches' = mismatches + 1 + Len(length)
      /\ reports' = Noted(detail) \o length
      /\ Taken /\ ~Same(index + 1)
  BY <1>2 DEF LastDiffers
<1>4. detail \in Detail /\ detail.index = index /\ Noted(detail) \in Seq(Detail)
  <2>1. detail \in Detail /\ detail.index = index
    BY <1>1, <1>2, DetailTyped
  <2>2. Append(reports, detail) \in Seq(Detail)
    BY <1>1, <2>1
  <2> QED
    BY <1>1, <2>1, <2>2 DEF Noted
<1>5. GoldenLeft \in Nat /\ RtlLeft \in Nat
      /\ index + Min({GoldenLeft, RtlLeft}) = Shorter
      /\ (GoldenLeft = RtlLeft <=> Len(golden) = Len(rtl))
  BY <1>1, MinOfTwo DEF GoldenLeft, RtlLeft, Shorter
<1>6. Drain = IF Len(golden) = Len(rtl) THEN << >> ELSE <<Report(Shorter, "ended early")>>
  BY <1>5 DEF Drain
<1>7. Shorter \in Nat /\ Report(Shorter, "ended early") \in Detail
  BY <1>1, DetailTyped DEF Shorter
<1>8. /\ length \in Seq(Detail) /\ Len(length) \in Nat
      /\ tool = "compare_orders" /\ Len(golden) # Len(rtl) =>
           length = <<Report(Shorter, "ended early")>>
  <2>1. << >> \in Seq(Detail) /\ Len(<< >>) \in Nat
    OBVIOUS
  <2>2. ASSUME NEW e \in Detail
        PROVE  <<e>> \in Seq(Detail) /\ Len(<<e>>) \in Nat
    OBVIOUS
  <2> QED
    BY <1>2, <1>6, <1>7, <2>1, <2>2
<1>9. reports' \in Seq(Detail)
  BY <1>3, <1>4, <1>8, ConcatProperties
<1>10. tool = "compare_orders" /\ Len(golden) # Len(rtl) =>
         /\ reports' # << >>
         /\ reports'[Len(reports')] = Report(Shorter, "ended early")
  <2>1. ASSUME NEW e \in Detail, length = <<e>>
        PROVE  reports' # << >> /\ reports'[Len(reports')] = e
    BY <1>3, <1>4, <2>1
  <2> QED
    BY <1>7, <1>8, <2>1
<1>11. mismatches' \in Nat \ {0}
  <2>1. ASSUME NEW k \in Nat PROVE mismatches + 1 + k \in Nat \ {0}
    BY <1>1
  <2> QED
    BY <1>3, <1>8, <2>1
<1> QED
  BY <1>3, <1>4, <1>9, <1>10, <1>11, StopStep DEF Stop

\* A line that is not whole ends the loop with a result of its own.
LEMMA BadLineStep ==
  ASSUME CheckInv, ~returned, max_report # 0, BadLine
  PROVE  LoopInv' /\ ResultInv'
<1>1. Len(golden) \in Nat /\ Len(rtl) \in Nat /\ index \in Nat /\ mismatches \in Nat
  BY Lengths DEF CheckInv, LoopInv
<1>2. PICK detail : detail = Report(index, "bad line")
  OBVIOUS
<1>3. /\ UNCHANGED <<index, compared>> /\ UNCHANGED arguments /\ returned'
      /\ mismatches' = 1 /\ first_mismatch' = detail /\ reports' = <<detail>>
      /\ Taken /\ ~Same(index + 1)
  BY <1>2 DEF BadLine, Same
<1>4. detail \in Detail /\ detail.reason = "bad line" /\ detail # NoReport
  BY <1>1, <1>2, DetailTyped
<1>5. /\ golden' = golden /\ rtl' = rtl /\ max_report' = max_report
      /\ \A d : AgreeOn(d)' <=> AgreeOn(d)
  BY <1>3, ArgumentsStay
<1>6. AgreeOn(Found) /\ Found < Shorter
  <2>1. CASE mismatches = 0
    BY <1>1, <1>3, <2>1, AgreeHere DEF Found, Taken, GoldenLeft, RtlLeft, Shorter
  <2>2. CASE mismatches > 0
    BY <2>2 DEF Found, CheckInv, LoopInv
  <2> QED
    BY <1>1, <2>1, <2>2
<1>7. ~(Len(golden) = Len(rtl) /\ Found = Len(golden))
  BY <1>1, <1>6 DEF Shorter, AgreeOn
<1>8. \E d : AgreeOn(d)' /\ ~(Len(golden) = Len(rtl) /\ d = Len(golden))'
  BY <1>5, <1>6, <1>7
<1>9. reports' \in Seq(Detail)
  <2>1. ASSUME NEW e \in Detail PROVE <<e>> \in Seq(Detail)
    OBVIOUS
  <2> QED
    BY <1>3, <1>4, <2>1
<1>10. index' = index /\ compared' = compared /\ mismatches' > 0 /\ mismatches' # 0
       /\ mismatches' \in Nat
  BY <1>3
<1>11. LoopInv'
  <2>1. index \in 0 .. Len(golden) /\ index \in 0 .. Len(rtl) /\ compared \in Nat
    BY DEF CheckInv, LoopInv
  <2>2. first_mismatch' # NoReport
    BY <1>3, <1>4
  <2> QED
    BY <1>3, <1>5, <1>9, <1>10, <2>1, <2>2 DEF LoopInv
<1>12. ResultInv'
  <2>1. first_mismatch' \in Detail /\ first_mismatch'.reason = "bad line"
    BY <1>3, <1>4
  <2> QED
    BY <1>8, <1>10, <2>1 DEF ResultInv
<1> QED
  BY <1>11, <1>12

-----------------------------------------------------------------------------
(* The behaviours.                                                          *)

\* The invariant of the comparison holds at first.
LEMMA CheckStarts == Init => CheckInv
<1> SUFFICES ASSUME Init PROVE CheckInv
  OBVIOUS
<1>1. FilesInv
  BY DEF Init, DumpInit, FilesInv, File
<1>2. LoopInv /\ ResultInv
  BY DEF Init, CompareInit, LoopInv, ResultInv
<1> QED
  BY <1>1, <1>2 DEF CheckInv

\* A step that leaves the comparison alone.
LEMMA OtherStep ==
  ASSUME CheckInv, UNCHANGED compareVars
  PROVE  LoopInv' /\ ResultInv'
<1>1. /\ UNCHANGED arguments
      /\ UNCHANGED <<index, compared, mismatches, first_mismatch, matched_before_first,
                     reports, returned>>
  BY DEF compareVars, first
<1>2. /\ golden' = golden /\ rtl' = rtl /\ max_report' = max_report /\ tool' = tool
      /\ (\A i : Same(i)' <=> Same(i)) /\ (\A d : AgreeOn(d)' <=> AgreeOn(d))
      /\ Shorter' = Shorter
  BY <1>1, ArgumentsStay
<1>3. AgreeOn(matched_before_first) => AgreeOn(matched_before_first)'
  BY <1>1, AgreeStays
<1>4. LoopInv'
  BY <1>1, <1>2, <1>3 DEF CheckInv, LoopInv, CompareInit
<1>5. ResultInv'
  BY <1>1, <1>2, <1>3 DEF CheckInv, ResultInv
<1> QED
  BY <1>4, <1>5

\* Every step keeps it.
LEMMA CheckStep ==
  ASSUME CheckInv, [Next]_checkVars
  PROVE  CheckInv'
<1>1. FilesInv'
  BY FilesStep DEF CheckInv
<1>2. LoopInv' /\ ResultInv'
  <2>1. CASE StartCompare
    BY <2>1, StartStep
  <2>2. CASE Compare
    <3>1. ~returned /\ max_report # 0
          /\ (BothEnded \/ OneEnded \/ BadLine \/ Matches \/ Differs \/ LastDiffers)
      BY <2>2 DEF Compare, CompareTraces, CompareOrders
    <3> QED
      BY <3>1, BothEndedStep, OneEndedStep, BadLineStep, MatchesStep, DiffersStep,
         LastDiffersStep
  <2>3. CASE UNCHANGED compareVars
    BY <2>3, OtherStep
  <2>4. ~StartCompare /\ ~Compare => UNCHANGED compareVars
    BY DEF Next, ReplayMessage, ReplayEnds, KillReplay, checkVars
  <2> QED
    BY <2>1, <2>2, <2>3, <2>4
<1> QED
  BY <1>1, <1>2 DEF CheckInv

\* The inductive invariant of the comparison, for files of any length.
THEOREM CheckInvariant == Spec => []CheckInv
  BY CheckStarts, CheckStep, PTL DEF Spec

\* For any two files, whole or torn, and any cap and floor: the exit status is 0
\* exactly when the files have the same lines, all whole and enough of them
\* (compare_traces.py lines 14-17, 144-149).
THEOREM VerdictsAreRight == Spec => []VerdictIsRight
<1>1. ASSUME CheckInv PROVE VerdictIsRight
  <2>1. SUFFICES ASSUME returned
                 PROVE  Passed <=> /\ Len(golden) = Len(rtl) /\ Agreed = Len(golden)
                                   /\ Len(golden) >= min_matched
    BY DEF VerdictIsRight
  <2>2. Len(golden) \in Nat /\ Len(rtl) \in Nat /\ mismatches \in Nat
    BY <1>1, Lengths DEF CheckInv, LoopInv
  <2>3. CASE mismatches = 0
    <3>1. /\ Len(golden) = Len(rtl) /\ compared = Len(golden)
          /\ \A i \in 1 .. compared : Same(i)
      BY <1>1, <2>1, <2>3 DEF CheckInv, LoopInv, ResultInv
    <3>2. AgreeOn(Len(golden))
      BY <2>2, <3>1 DEF AgreeOn
    <3>3. Agreed = Len(golden)
      BY <1>1, <3>2, AgreedIs DEF CheckInv
    <3> QED
      BY <2>3, <3>1, <3>3 DEF Passed
  <2>4. CASE mismatches > 0
    <3>1. PICK d : AgreeOn(d) /\ ~(Len(golden) = Len(rtl) /\ d = Len(golden))
      BY <1>1, <2>1, <2>4 DEF CheckInv, ResultInv
    <3>2. Agreed = d
      BY <1>1, <3>1, AgreedIs DEF CheckInv
    <3> QED
      BY <2>4, <3>1, <3>2 DEF Passed
  <2> QED
    BY <2>2, <2>3, <2>4
<1> QED
  BY <1>1, CheckInvariant, PTL

\* For any two files: unless a line is refused, the first difference that is
\* reported is the first there is (lines 107-110).
THEOREM FirstDivergenceIsFirst == Spec => []FirstDivergence
<1>1. ASSUME CheckInv PROVE FirstDivergence
  <2>1. SUFFICES ASSUME returned, mismatches > 0, first_mismatch.reason # "bad line"
                 PROVE  matched_before_first = Agreed /\ first_mismatch.index = Agreed
    BY DEF FirstDivergence
  <2>2. AgreeOn(matched_before_first) /\ first_mismatch.index = matched_before_first
    BY <1>1, <2>1 DEF CheckInv, ResultInv
  <2> QED
    BY <1>1, <2>2, AgreedIs DEF CheckInv
<1> QED
  BY <1>1, CheckInvariant, PTL

\* For any two order files of different length: the last report names the line at
\* which the shorter one ended (compare_orders.py lines 108-110).
THEOREM LengthsAreReported == Spec => []LengthIsReported
<1>1. ASSUME CheckInv PROVE LengthIsReported
  <2>1. SUFFICES ASSUME returned, tool = "compare_orders", Len(golden) # Len(rtl),
                        first_mismatch.reason # "bad line"
                 PROVE  Last(reports) = Report(Min({Len(golden), Len(rtl)}), "ended early")
    BY DEF LengthIsReported
  <2>2. mismatches > 0
    <3>1. mismatches \in Nat /\ mismatches # 0
      BY <1>1, <2>1 DEF CheckInv, LoopInv, ResultInv
    <3> QED
      BY <3>1
  <2>3. reports[Len(reports)] = Report(Shorter, "ended early")
    BY <1>1, <2>1, <2>2, Zenon DEF CheckInv, ResultInv
  <2>4. Min({Len(golden), Len(rtl)}) = Shorter
    BY <1>1, Lengths DEF CheckInv
  <2>5. Last(reports) = reports[Len(reports)]
    BY DEF Last
  <2> QED
    BY <2>3, <2>4, <2>5
<1> QED
  BY <1>1, CheckInvariant, PTL

-----------------------------------------------------------------------------
(* Pieces of a sequence.                                                    *)

\* What is appended behind a piece leaves the piece as it was.
LEMMA PieceStays ==
  ASSUME NEW S, NEW s \in Seq(S), NEW e \in S,
         NEW a \in Nat \ {0}, NEW b \in 0 .. Len(s)
  PROVE  /\ SubSeq(s, a, b) \in Seq(S)
         /\ Len(SubSeq(s, a, b)) = IF a <= b THEN b - a + 1 ELSE 0
         /\ SubSeq(Append(s, e), a, b) = SubSeq(s, a, b)
<1>1. Append(s, e) \in Seq(S) /\ \A i \in a .. b : s[i] \in S /\ Append(s, e)[i] = s[i]
  OBVIOUS
<1>2. PICK old, new : old = SubSeq(s, a, b) /\ new = SubSeq(Append(s, e), a, b)
  OBVIOUS
<1>3. /\ old \in Seq(S) /\ Len(old) = (IF a <= b THEN b - a + 1 ELSE 0)
      /\ \A i \in 1 .. b - a + 1 : old[i] = s[a + i - 1]
  BY <1>1, <1>2, SubSeqProperties
<1>4. /\ new \in Seq(S) /\ Len(new) = (IF a <= b THEN b - a + 1 ELSE 0)
      /\ \A i \in 1 .. b - a + 1 : new[i] = Append(s, e)[a + i - 1]
  <2>1. \A i \in a .. b : Append(s, e)[i] \in S
    BY <1>1
  <2> QED
    BY <1>2, <2>1, SubSeqProperties
<1>5. \A i \in 1 .. b - a + 1 : a + i - 1 \in a .. b
  OBVIOUS
<1>6. Len(old) = Len(new) /\ \A i \in 1 .. Len(old) : old[i] = new[i]
  BY <1>1, <1>3, <1>4, <1>5
<1>7. old = new
  BY <1>3, <1>4, <1>6, SeqEqual
<1> QED
  BY <1>2, <1>3, <1>7

\* A piece that reaches the end grows with the sequence.
LEMMA PieceGrows ==
  ASSUME NEW S, NEW s \in Seq(S), NEW e \in S, NEW a \in 1 .. Len(s) + 1
  PROVE  SubSeq(Append(s, e), a, Len(s) + 1) = Append(SubSeq(s, a, Len(s)), e)
<1>1. /\ Append(s, e) \in Seq(S) /\ Len(Append(s, e)) = Len(s) + 1
      /\ Append(s, e)[Len(s) + 1] = e /\ Len(s) \in Nat
  OBVIOUS
<1>2. SubSeq(Append(s, e), a, Len(s) + 1)
        = SubSeq(Append(s, e), a, Len(s)) \o <<e>>
  BY <1>1, SubSeqRecursiveSecond
<1>3. /\ SubSeq(Append(s, e), a, Len(s)) = SubSeq(s, a, Len(s))
      /\ SubSeq(s, a, Len(s)) \in Seq(S)
  BY <1>1, PieceStays
<1> QED
  BY <1>2, <1>3, AppendIsConcat

\* Adjacent pieces flatten into one.
LEMMA PiecesFlatten ==
  ASSUME NEW S, NEW s \in Seq(S), NEW n \in Nat, NEW cut \in [0 .. n -> 0 .. Len(s)],
         cut[0] = 0, \A j \in 1 .. n : cut[j - 1] <= cut[j],
         NEW pieces \in Seq(Seq(S)), Len(pieces) = n,
         \A j \in 1 .. n : pieces[j] = SubSeq(s, cut[j - 1] + 1, cut[j])
  PROVE  FlattenSeq(pieces) = SubSeq(s, 1, cut[n])
<1>1. CASE n = 0
  <2>1. pieces = << >> /\ cut[n] = 0
    BY <1>1
  <2>2. SubSeq(s, 1, 0) = << >>
    BY SubSeqEmpty
  <2> QED
    BY <2>1, <2>2 DEF FlattenSeq
<1>2. CASE n # 0
  <2> DEFINE flat == CHOOSE f : f = [i \in 1 .. Len(pieces) |->
                       IF i = 1 THEN pieces[i] ELSE f[i - 1] \o pieces[i]]
             f0 == [i \in 1 .. n |-> SubSeq(s, 1, cut[i])]
  <2>1. FlattenSeq(pieces) = flat[n]
    BY <1>2 DEF FlattenSeq
  <2>2. ASSUME NEW i \in 1 .. n
        PROVE  f0[i] = IF i = 1 THEN pieces[i] ELSE f0[i - 1] \o pieces[i]
    <3>1. CASE i = 1
      <4>1. 1 \in 1 .. n /\ 1 - 1 = 0 /\ 0 + 1 = 1
        BY <1>2
      <4>2. pieces[1] = SubSeq(s, cut[0] + 1, cut[1])
        BY <4>1
      <4> QED
        BY <3>1, <4>1, <4>2
    <3>2. CASE i # 1
      <4>1. i - 1 \in 1 .. n /\ i - 1 \in 0 .. n
        BY <3>2
      <4>2. cut[i - 1] \in 0 .. Len(s) /\ cut[i] \in cut[i - 1] .. Len(s) /\ Len(s) \in Nat
        BY <4>1
      <4>3. SubSeq(s, 1, cut[i - 1]) \o SubSeq(s, cut[i - 1] + 1, cut[i]) = SubSeq(s, 1, cut[i])
        <5>1. PICK k, m : k = cut[i - 1] /\ m = cut[i]
          OBVIOUS
        <5>2. 1 \in 1 .. Len(s) + 1 /\ k \in (1 - 1) .. Len(s) /\ m \in k .. Len(s)
          BY <4>2, <5>1
        <5> QED
          BY <5>1, <5>2, ConcatAdjacentSubSeq
      <4> QED
        BY <3>2, <4>1, <4>3
    <3> QED
      BY <3>1, <3>2
  <2>3. f0 = [i \in 1 .. Len(pieces) |->
                IF i = 1 THEN pieces[i] ELSE f0[i - 1] \o pieces[i]]
    <3> HIDE DEF f0
    <3>1. f0 = [i \in 1 .. n |-> f0[i]]
      BY DEF f0
    <3> QED
      BY <2>2, <3>1
  <2>4. flat = [i \in 1 .. Len(pieces) |->
                  IF i = 1 THEN pieces[i] ELSE flat[i - 1] \o pieces[i]]
    <3> HIDE DEF f0
    <3> QED
      BY <2>3
  <2> HIDE DEF flat
  <2> DEFINE Wrong == {i \in 1 .. n : flat[i] # f0[i]}
  <2>5. Wrong = {}
    <3>1. SUFFICES ASSUME Wrong # {} PROVE FALSE
      OBVIOUS
    <3>2. Wrong \subseteq Nat
      OBVIOUS
    <3>3. PICK i \in Wrong : \A j \in Wrong : <<j, i>> \notin OpToRel(<, Nat)
      BY <3>1, <3>2, WFMin, NatLessThanWellFounded
    <3>4. i \in Wrong /\ \A j \in Wrong : ~(j < i)
      BY <3>2, <3>3, Zenon DEF OpToRel
    <3>5. i \in 1 .. n /\ flat[i] # f0[i]
      BY <3>4
    <3>6. flat[i] = IF i = 1 THEN pieces[i] ELSE flat[i - 1] \o pieces[i]
      BY <2>4, <3>5
    <3>7. f0[i] = IF i = 1 THEN pieces[i] ELSE f0[i - 1] \o pieces[i]
      BY <2>2, <3>5
    <3> HIDE DEF f0
    <3>8. i # 1 /\ i - 1 \in 1 .. n
      BY <3>5, <3>6, <3>7
    <3>9. flat[i - 1] = f0[i - 1]
      BY <3>4, <3>8
    <3> QED
      BY <3>5, <3>6, <3>7, <3>8, <3>9
  <2>6. n \in 1 .. n
    BY <1>2
  <2>7. flat[n] = f0[n]
    <3> HIDE DEF f0
    <3> QED
      BY <2>5, <2>6
  <2> QED
    BY <2>1, <2>6, <2>7
<1> QED
  BY <1>1, <1>2

-----------------------------------------------------------------------------
(* The packets.                                                             *)

\* The messages before packet j + 1.
Start(j) == j * msgs_per_packet

\* The packets start a fixed number of messages apart.
LEMMA Starts ==
  ASSUME NEW j \in Nat
  PROVE  /\ Start(j) \in Nat /\ Start(j + 1) = Start(j) + msgs_per_packet
         /\ Start(0) = 0 /\ msgs_per_packet \in Nat \ {0} /\ Start(j) < Start(j + 1)
<1>1. msgs_per_packet \in Nat \ {0}
  BY DumpAssumption
<1> QED
  BY <1>1 DEF Start

\* A later packet starts no earlier.
LEMMA StartsGrow ==
  ASSUME NEW i \in Nat, NEW j \in Nat, i <= j
  PROVE  Start(i) <= Start(j)
<1>1. PICK m \in Nat \ {0}, d \in Nat : m = msgs_per_packet /\ j = i + d
  BY DumpAssumption
<1>2. Start(j) = Start(i) + d * m /\ d * m \in Nat /\ Start(i) \in Nat
  BY <1>1 DEF Start
<1> QED
  BY <1>2

\* The quotient is the one whose multiple is next below.
LEMMA Division ==
  ASSUME NEW m \in Nat \ {0}, NEW q \in Nat, NEW n \in Nat, q * m <= n, n < q * m + m
  PROVE  n \div m = q
<1>1. PICK d \in Nat : n = q * m + d /\ d < m
  <2>1. q * m \in Nat
    OBVIOUS
  <2> WITNESS n - q * m \in Nat
  <2> QED
    BY <2>1
<1> QED
  BY <1>1

\* A number of messages inside the last packet: how many packets they take.
LEMMA Chunks ==
  ASSUME NEW k \in Nat, NEW n \in Nat, Start(k) < n, n <= Start(k + 1)
  PROVE  (n + msgs_per_packet - 1) \div msgs_per_packet = k + 1
<1>1. PICK m \in Nat \ {0} : m = msgs_per_packet
  BY DumpAssumption
<1>2. Start(k) = k * m /\ Start(k + 1) = k * m + m /\ (k + 1) * m = k * m + m /\ k * m \in Nat
  BY <1>1 DEF Start
<1>3. n + m - 1 \in Nat /\ (k + 1) * m <= n + m - 1 /\ n + m - 1 < (k + 1) * m + m
  BY <1>2
<1>4. (n + m - 1) \div m = k + 1
  BY <1>3, Division
<1> QED
  BY <1>1, <1>4

\* The same when the last packet is full.
LEMMA EvenChunks ==
  ASSUME NEW k \in Nat
  PROVE  (Start(k) + msgs_per_packet - 1) \div msgs_per_packet = k
<1>1. PICK m \in Nat \ {0} : m = msgs_per_packet
  BY DumpAssumption
<1>2. Start(k) = k * m /\ k * m \in Nat
  BY <1>1 DEF Start
<1>3. k * m + m - 1 \in Nat /\ k * m <= k * m + m - 1 /\ k * m + m - 1 < k * m + m
  BY <1>2
<1>4. (k * m + m - 1) \div m = k
  BY <1>3, Division
<1> QED
  BY <1>1, <1>2, <1>4

PacketSet == [seq : Nat, count : Nat, messages : Seq(Kind)]

\* The first k packets of the messages c, all of them full.
Piece(c, j) == SubSeq(c, Start(j - 1) + 1, Start(j))
Packets(c, k) == [j \in 1 .. k |-> Packet(start_seq + Start(j - 1), Piece(c, j))]

\* What follows them.
Rest(c, k) == SubSeq(c, Start(k) + 1, Len(c))

\* Packets are packets.
LEMMA PacketTyped ==
  ASSUME NEW number \in Nat, NEW messages \in Seq(Kind)
  PROVE  /\ Packet(number, messages) \in PacketSet
         /\ Packet(number, messages).messages = messages
         /\ EndOfSession(number) \in PacketSet
         /\ EndOfSession(number).messages = << >>
<1>1. EndCount \in Nat
  BY DumpAssumption
<1>2. << >> \in Seq(Kind) /\ Len(messages) \in Nat
  OBVIOUS
<1> HIDE DEF Kind
<1> QED
  BY <1>1, <1>2 DEF Packet, EndOfSession, PacketSet

\* So are the packets of a capture, each with its piece of the messages.
LEMMA PacketsTyped ==
  ASSUME NEW c \in Seq(Kind), NEW k \in Nat, Start(k) <= Len(c)
  PROVE  /\ Packets(c, k) \in Seq(PacketSet) /\ Len(Packets(c, k)) = k
         /\ \A j \in 1 .. k :
              /\ Packets(c, k)[j] = Packet(start_seq + Start(j - 1), Piece(c, j))
              /\ Start(j - 1) \in Nat /\ Start(j - 1) + 1 \in Nat \ {0}
              /\ Start(j) \in 0 .. Len(c) /\ Start(j - 1) < Start(j)
              /\ Piece(c, j) \in Seq(Kind)
<1>1. ASSUME NEW j \in 1 .. k
      PROVE  /\ Start(j - 1) \in Nat /\ Start(j - 1) + 1 \in Nat \ {0}
             /\ Start(j) \in 0 .. Len(c) /\ Start(j - 1) < Start(j)
             /\ Piece(c, j) \in Seq(Kind)
  <2>1. j - 1 \in Nat /\ (j - 1) + 1 = j /\ j \in Nat /\ j <= k
    OBVIOUS
  <2>2. Start(j - 1) \in Nat /\ Start(j) \in Nat /\ Start(j - 1) < Start(j) /\ Start(j) <= Start(k)
    BY <2>1, Starts, StartsGrow
  <2>3. Start(j) \in 0 .. Len(c) /\ Start(j - 1) + 1 \in Nat \ {0}
    <3>1. Start(k) \in Nat /\ Len(c) \in Nat
      BY Starts
    <3> QED
      BY <2>2, <3>1
  <2>4. Piece(c, j) \in Seq(Kind)
    <3>1. \A i \in Start(j - 1) + 1 .. Start(j) : c[i] \in Kind
      <4>1. Len(c) \in Nat /\ \A i \in 1 .. Len(c) : c[i] \in Kind
        OBVIOUS
      <4> QED
        BY <2>2, <2>3, <4>1
    <3>2. Start(j - 1) + 1 \in Int /\ Start(j) \in Int
      BY <2>2
    <3> QED
      BY <3>1, <3>2, SubSeqProperties DEF Piece
  <2> QED
    BY <2>2, <2>3, <2>4
<1>2. ASSUME NEW j \in 1 .. k
      PROVE  Packet(start_seq + Start(j - 1), Piece(c, j)) \in PacketSet
  <2>1. start_seq + Start(j - 1) \in Nat /\ Piece(c, j) \in Seq(Kind)
    <3>1. Start(j - 1) \in Nat /\ Piece(c, j) \in Seq(Kind)
      BY <1>1
    <3>2. start_seq \in Nat
      BY DumpAssumption
    <3> QED
      BY <3>1, <3>2
  <2> QED
    BY <2>1, PacketTyped
<1>3. Packets(c, k) \in [1 .. k -> PacketSet]
  BY <1>2 DEF Packets
<1>4. Packets(c, k) \in Seq(PacketSet) /\ Len(Packets(c, k)) = k
  BY <1>3
<1> QED
  BY <1>1, <1>4 DEF Packets

\* A message more leaves the full packets as they are.
LEMMA PacketsStay ==
  ASSUME NEW c \in Seq(Kind), NEW e \in Kind, NEW k \in Nat, Start(k) <= Len(c)
  PROVE  Packets(Append(c, e), k) = Packets(c, k)
<1>1. ASSUME NEW j \in 1 .. k PROVE Piece(Append(c, e), j) = Piece(c, j)
  <2>1. Start(j - 1) + 1 \in Nat \ {0} /\ Start(j) \in 0 .. Len(c)
    BY PacketsTyped
  <2> QED
    BY <2>1, PieceStays DEF Piece
<1> QED
  BY <1>1 DEF Packets

\* Packets of a longer list.
LEMMA PacketsGrow ==
  ASSUME NEW c \in Seq(Kind), NEW k \in Nat, Start(k + 1) = Len(c)
  PROVE  Packets(c, k + 1) = Append(Packets(c, k), Packet(start_seq + Start(k), Rest(c, k)))
<1>1. /\ Start(k) \in Nat /\ Start(k) <= Len(c) /\ Start(k + 1) <= Len(c) /\ k + 1 \in Nat
      /\ Len(c) \in Nat
  <2>1. Start(k) \in Nat /\ Start(k) < Start(k + 1)
    BY Starts
  <2>2. Len(c) \in Nat
    OBVIOUS
  <2> QED
    BY <2>1, <2>2
<1>2. PICK few, many, last :
        few = Packets(c, k) /\ many = Packets(c, k + 1)
        /\ last = Packet(start_seq + Start(k), Rest(c, k))
  OBVIOUS
<1>3. Rest(c, k) = Piece(c, k + 1)
  <2>1. (k + 1) - 1 = k
    OBVIOUS
  <2> QED
    BY <2>1 DEF Rest, Piece
<1>4. /\ few \in Seq(PacketSet) /\ Len(few) = k
      /\ \A j \in 1 .. k : few[j] = Packet(start_seq + Start(j - 1), Piece(c, j))
  BY <1>1, <1>2, PacketsTyped
<1>5. /\ many \in Seq(PacketSet) /\ Len(many) = k + 1
      /\ \A j \in 1 .. k + 1 : many[j] = Packet(start_seq + Start(j - 1), Piece(c, j))
  BY <1>1, <1>2, PacketsTyped
<1>6. last = many[k + 1]
  <2>1. (k + 1) - 1 = k /\ k + 1 \in 1 .. k + 1
    OBVIOUS
  <2> QED
    BY <1>2, <1>3, <1>5, <2>1
<1>7. last \in PacketSet
  BY <1>5, <1>6
<1>8. \A j \in 1 .. k : many[j] = few[j]
  BY <1>4, <1>5
<1>9. Append(few, last) \in Seq(PacketSet) /\ Len(Append(few, last)) = k + 1
      /\ \A i \in 1 .. k + 1 : Append(few, last)[i] = many[i]
  BY <1>4, <1>6, <1>7, <1>8
<1>10. many = Append(few, last)
  BY <1>5, <1>9, SeqEqual
<1> QED
  BY <1>2, <1>10

\* The stream that wrap() makes of full packets.
LEMMA WrapEven ==
  ASSUME NEW c \in Seq(Kind), NEW k \in Nat, Start(k) = Len(c)
  PROVE  Wrap(c) = Append(Packets(c, k), EndOfSession(start_seq + Len(c)))
<1>1. (Len(c) + msgs_per_packet - 1) \div msgs_per_packet = k
  BY EvenChunks
<1>2. Packets(c, k) =
        [j \in 1 .. k |->
           Packet(start_seq + (j - 1) * msgs_per_packet,
                  SubSeq(c, (j - 1) * msgs_per_packet + 1,
                         IF ((j - 1) + 1) * msgs_per_packet < Len(c)
                         THEN ((j - 1) + 1) * msgs_per_packet ELSE Len(c)))]
  <2>1. ASSUME NEW j \in 1 .. k
        PROVE  /\ Start(j) = IF ((j - 1) + 1) * msgs_per_packet < Len(c)
                             THEN ((j - 1) + 1) * msgs_per_packet ELSE Len(c)
    <3>1. Start(j) \in 0 .. Len(c) /\ (j - 1) + 1 = j /\ Len(c) \in Nat
      <4>1. Len(c) \in Nat /\ Start(k) <= Len(c) /\ (j - 1) + 1 = j
        OBVIOUS
      <4>2. Start(j) \in 0 .. Len(c)
        BY <4>1, PacketsTyped
      <4> QED
        BY <4>1, <4>2
    <3>2. Start(j) = ((j - 1) + 1) * msgs_per_packet
      BY <3>1 DEF Start
    <3> QED
      BY <3>1, <3>2
  <2> QED
    BY <2>1 DEF Packets, Piece, Start
<1>3. Packets(c, k) \in Seq(PacketSet)
  BY Starts, PacketsTyped
<1>4. EndOfSession(start_seq + Len(c)) \in PacketSet
  BY PacketTyped, DumpAssumption
<1>5. Wrap(c) = Packets(c, k) \o <<EndOfSession(start_seq + Len(c))>>
  BY <1>1, <1>2 DEF Wrap
<1> QED
  BY <1>3, <1>4, <1>5, AppendIsConcat

\* And that of full packets and one that need not be.
LEMMA WrapOdd ==
  ASSUME NEW c \in Seq(Kind), NEW k \in Nat, Start(k) < Len(c), Len(c) <= Start(k + 1)
  PROVE  Wrap(c) = Append(Append(Packets(c, k), Packet(start_seq + Start(k), Rest(c, k))),
                          EndOfSession(start_seq + Len(c)))
<1> DEFINE last == Packet(start_seq + Start(k), Rest(c, k))
           till(j) == IF ((j - 1) + 1) * msgs_per_packet < Len(c)
                      THEN ((j - 1) + 1) * msgs_per_packet ELSE Len(c)
           cut(j) == Packet(start_seq + (j - 1) * msgs_per_packet,
                            SubSeq(c, (j - 1) * msgs_per_packet + 1, till(j)))
<1>1. Start(k) \in Nat /\ Len(c) \in Nat /\ Start(k) <= Len(c) /\ Start(k + 1) \in Nat
  <2>1. Start(k) \in Nat /\ Start(k + 1) = Start(k) + msgs_per_packet
        /\ msgs_per_packet \in Nat \ {0}
    BY Starts
  <2>2. Len(c) \in Nat
    OBVIOUS
  <2> QED
    BY <2>1, <2>2
<1>2. (Len(c) + msgs_per_packet - 1) \div msgs_per_packet = k + 1
  BY <1>1, Chunks
<1>3. ASSUME NEW j \in 1 .. k PROVE cut(j) = Packets(c, k)[j]
  <2>1. /\ Start(j) \in 0 .. Len(c) /\ (j - 1) + 1 = j
        /\ Packets(c, k)[j] = Packet(start_seq + Start(j - 1), Piece(c, j))
    BY <1>1, PacketsTyped
  <2>2. till(j) = Start(j)
    BY <1>1, <2>1 DEF Start
  <2> HIDE DEF till
  <2> QED
    BY <2>1, <2>2 DEF Piece, Start
<1>4. cut(k + 1) = last
  <2>1. (k + 1) - 1 = k
    OBVIOUS
  <2>2. till(k + 1) = Len(c)
    BY <1>1, <2>1 DEF Start
  <2> HIDE DEF till
  <2> QED
    BY <2>1, <2>2 DEF Rest, Start
<1>5. Wrap(c) = [j \in 1 .. k + 1 |-> cut(j)] \o <<EndOfSession(start_seq + Len(c))>>
  BY <1>2 DEF Wrap
<1>6. /\ Packets(c, k) \in Seq(PacketSet) /\ Len(Packets(c, k)) = k
  BY <1>1, PacketsTyped
<1>7. last \in PacketSet /\ EndOfSession(start_seq + Len(c)) \in PacketSet
  <2>1. Rest(c, k) \in Seq(Kind)
    <3>1. Start(k) + 1 \in Nat \ {0} /\ Len(c) \in 0 .. Len(c)
      BY <1>1
    <3> QED
      BY <3>1, SubSeqProperties DEF Rest
  <2> QED
    BY <1>1, <2>1, PacketTyped, DumpAssumption
<1>8. [j \in 1 .. k + 1 |-> cut(j)] = Append(Packets(c, k), last)
  <2>1. PICK few : few = Packets(c, k)
    OBVIOUS
  <2> HIDE DEF cut, last
  <2>2. few \in Seq(PacketSet) /\ Len(few) = k /\ \A j \in 1 .. k : few[j] = cut(j)
    BY <1>3, <1>6, <2>1
  <2>3. PICK all : all = [j \in 1 .. k + 1 |-> cut(j)]
    OBVIOUS
  <2>4. \A j \in 1 .. k + 1 : cut(j) \in PacketSet
    <3>1. \A j \in 1 .. k + 1 : j \in 1 .. k \/ j = k + 1
      OBVIOUS
    <3>2. \A j \in 1 .. k : cut(j) \in PacketSet
      BY <2>2
    <3> QED
      BY <1>4, <1>7, <3>1, <3>2
  <2>5. all \in Seq(PacketSet) /\ Len(all) = k + 1 /\ \A j \in 1 .. k + 1 : all[j] = cut(j)
    BY <2>3, <2>4
  <2>6. /\ Append(few, last) \in Seq(PacketSet) /\ Len(Append(few, last)) = k + 1
        /\ \A j \in 1 .. k + 1 : Append(few, last)[j] = cut(j)
    BY <1>4, <1>7, <2>2
  <2>7. all = Append(few, last)
    BY <2>5, <2>6, SeqEqual
  <2> QED
    BY <2>1, <2>3, <2>7
<1>9. Append(Packets(c, k), last) \in Seq(PacketSet)
  BY <1>6, <1>7
<1>10. PICK all, final : all = Append(Packets(c, k), last)
                        /\ final = EndOfSession(start_seq + Len(c))
  OBVIOUS
<1>11. all \in Seq(PacketSet) /\ final \in PacketSet /\ Append(all, final) = all \o <<final>>
  BY <1>7, <1>9, <1>10, AppendIsConcat
<1>12. all = Append(Packets(c, k), Packet(start_seq + Start(k), Rest(c, k)))
  BY <1>10
<1> HIDE DEF cut, last
<1>13. Wrap(c) = all \o <<final>>
  BY <1>5, <1>8, <1>10
<1> QED
  BY <1>10, <1>11, <1>12, <1>13

-----------------------------------------------------------------------------
(* The dump.                                                                *)

\* The writer holds what is behind the last full packet; once closed, the stream
\* is the one of wrap().
StreamInv ==
  /\ capture \in Seq(Kind)
  /\ phase = "reading" =>
       \E k \in Nat :
         /\ Start(k) <= Len(capture) /\ Len(capture) < Start(k + 1)
         /\ stream = Packets(capture, k) /\ batch = Rest(capture, k)
         /\ seq = start_seq + Start(k)
  /\ phase \in {"complete", "raised"} => stream = Wrap(capture) /\ batch = << >>

\* Sequences of one and two elements.
LEMMA PairOfTwo ==
  ASSUME NEW S, NEW a \in S, NEW b \in S
  PROVE  /\ <<a>> \in Seq(S) /\ <<b>> \in Seq(S) /\ <<a>> \o <<b>> = <<a, b>>
         /\ Append(<<a>>, b) = <<a, b>>
<1>1. <<a>> \in Seq(S) /\ <<b>> \in Seq(S) /\ <<a, b>> \in Seq(S)
  OBVIOUS
<1>2. PICK both : both = <<a>> \o <<b>>
  OBVIOUS
<1>3. both \in Seq(S) /\ Len(both) = 2 /\ both[1] = a /\ both[2] = b
  BY <1>1, <1>2, ConcatProperties
<1>4. \A i \in 1 .. 2 : i = 1 \/ i = 2
  OBVIOUS
<1>5. \A i \in 1 .. 2 : both[i] = <<a, b>>[i]
  BY <1>3, <1>4
<1>6. both = <<a, b>>
  BY <1>1, <1>3, <1>5, SeqEqual
<1> QED
  BY <1>1, <1>2, <1>6, AppendIsConcat

\* The batch with one message more.
LEMMA RestGrows ==
  ASSUME NEW c \in Seq(Kind), NEW e \in Kind, NEW k \in Nat, Start(k) <= Len(c)
  PROVE  /\ Rest(Append(c, e), k) = Append(Rest(c, k), e)
         /\ Rest(c, k) \in Seq(Kind) /\ Len(Rest(c, k)) = Len(c) - Start(k)
         /\ Append(c, e) \in Seq(Kind) /\ Len(Append(c, e)) = Len(c) + 1
<1>1. Start(k) \in Nat /\ Len(c) \in Nat
  BY Starts
<1>2. /\ Start(k) + 1 \in 1 .. Len(c) + 1 /\ Start(k) + 1 \in Nat \ {0}
      /\ Len(c) \in 0 .. Len(c)
  BY <1>1
<1>3. Append(c, e) \in Seq(Kind) /\ Len(Append(c, e)) = Len(c) + 1
  OBVIOUS
<1>4. Rest(Append(c, e), k) = Append(Rest(c, k), e)
  BY <1>2, <1>3, PieceGrows DEF Rest
<1>5. /\ Rest(c, k) \in Seq(Kind)
      /\ Len(Rest(c, k)) = IF Start(k) + 1 <= Len(c) THEN Len(c) - (Start(k) + 1) + 1 ELSE 0
  BY <1>2, PieceStays DEF Rest
<1> QED
  BY <1>1, <1>3, <1>4, <1>5

\* Reading a message keeps the stream in step with the messages read.
LEMMA ReadStep ==
  ASSUME StreamInv, NEW kind \in Kind, ReadMessage(kind)
  PROVE  StreamInv'
<1>1. PICK k \in Nat :
        /\ Start(k) <= Len(capture) /\ Len(capture) < Start(k + 1)
        /\ stream = Packets(capture, k) /\ batch = Rest(capture, k)
        /\ seq = start_seq + Start(k)
  BY DEF StreamInv, ReadMessage
<1>2. PICK c, d : c = capture /\ d = capture'
  OBVIOUS
<1>3. c \in Seq(Kind) /\ d = Append(c, kind)
  BY <1>2 DEF StreamInv, ReadMessage
<1>4. /\ Rest(d, k) = Append(Rest(c, k), kind) /\ Rest(c, k) \in Seq(Kind)
      /\ Len(Rest(c, k)) = Len(c) - Start(k) /\ d \in Seq(Kind) /\ Len(d) = Len(c) + 1
  BY <1>1, <1>2, <1>3, RestGrows
<1>5. /\ Len(c) \in Nat /\ Start(k) \in Nat /\ Start(k + 1) = Start(k) + msgs_per_packet
      /\ msgs_per_packet \in Nat \ {0} /\ k + 1 \in Nat /\ Start(k + 1) < Start((k + 1) + 1)
  <2>1. k + 1 \in Nat /\ Len(c) \in Nat
    BY <1>3
  <2> QED
    BY <2>1, Starts
<1>6. Len(Append(batch, kind)) = Len(c) - Start(k) + 1 /\ Append(batch, kind) = Rest(d, k)
  BY <1>1, <1>2, <1>4, <1>5
<1>7. Packets(d, k) = Packets(c, k)
  BY <1>1, <1>2, <1>3, PacketsStay
<1>8. phase' = "reading"
  BY DEF ReadMessage
<1>9. CASE Full(Append(batch, kind))
  <2>1. Start(k + 1) = Len(d) /\ Len(Rest(d, k)) = msgs_per_packet
    BY <1>4, <1>5, <1>6, <1>9 DEF Full
  <2>2. /\ stream' = Append(stream, Packet(seq, Rest(d, k)))
        /\ seq' = seq + msgs_per_packet /\ batch' = << >>
    BY <1>6, <1>9, <2>1 DEF ReadMessage, Add
  <2>3. stream' = Packets(d, k + 1)
    BY <1>1, <1>2, <1>4, <1>7, <2>1, <2>2, PacketsGrow
  <2>4. batch' = Rest(d, k + 1)
    <3>1. Len(d) \in Int /\ Start(k + 1) + 1 \in Int /\ Len(d) < Start(k + 1) + 1
      BY <1>4, <1>5, <2>1
    <3> QED
      BY <2>2, <3>1, SubSeqEmpty DEF Rest
  <2>5. seq' = start_seq + Start(k + 1)
    BY <1>1, <1>5, <2>2, DumpAssumption
  <2>6. Start(k + 1) <= Len(d) /\ Len(d) < Start((k + 1) + 1)
    BY <1>4, <1>5, <2>1
  <2> QED
    BY <1>2, <1>4, <1>5, <1>8, <2>3, <2>4, <2>5, <2>6 DEF StreamInv
<1>10. CASE ~Full(Append(batch, kind))
  <2>1. batch' = Rest(d, k) /\ stream' = Packets(d, k) /\ seq' = start_seq + Start(k)
    BY <1>1, <1>2, <1>6, <1>7, <1>10 DEF ReadMessage, Add
  <2>2. Start(k) <= Len(d) /\ Len(d) < Start(k + 1)
    BY <1>1, <1>2, <1>4, <1>5, <1>6, <1>10 DEF Full
  <2> QED
    BY <1>2, <1>4, <1>8, <2>1, <2>2 DEF StreamInv
<1> QED
  BY <1>9, <1>10

\* So does the end of the capture.
LEMMA EndStep ==
  ASSUME StreamInv, EndOfCapture
  PROVE  StreamInv'
<1>1. PICK k \in Nat :
        /\ Start(k) <= Len(capture) /\ Len(capture) < Start(k + 1)
        /\ stream = Packets(capture, k) /\ batch = Rest(capture, k)
        /\ seq = start_seq + Start(k)
  BY DEF StreamInv, EndOfCapture
<1>2. PICK c : c = capture
  OBVIOUS
<1>3. c \in Seq(Kind) /\ capture' = c /\ phase' = "complete" /\ batch' = << >>
  BY <1>2 DEF StreamInv, EndOfCapture, Close
<1>4. Len(c) \in Nat /\ Start(k) \in Nat /\ Start(k) <= Len(c)
  BY <1>1, <1>2, <1>3, Starts
<1>5. Rest(c, k) \in Seq(Kind) /\ Len(Rest(c, k)) = Len(c) - Start(k)
  <2>1. "silent" \in Kind
    BY DEF Kind
  <2> QED
    BY <1>3, <1>4, <2>1, RestGrows
<1>6. seq + Len(batch) = start_seq + Len(c)
  BY <1>1, <1>2, <1>4, <1>5, DumpAssumption
<1>7. PICK few, last, end :
        few = Packets(c, k) /\ last = Packet(seq, batch) /\ end = EndOfSession(start_seq + Len(c))
  OBVIOUS
<1>8. few \in Seq(PacketSet) /\ last \in PacketSet /\ end \in PacketSet
  <2>1. seq \in Nat /\ start_seq + Len(c) \in Nat /\ batch \in Seq(Kind)
    BY <1>1, <1>2, <1>4, <1>5, DumpAssumption
  <2> QED
    BY <1>3, <1>4, <1>7, <2>1, PacketsTyped, PacketTyped
<1>9. CASE batch = << >>
  <2>1. Start(k) = Len(c)
    BY <1>1, <1>2, <1>4, <1>5, <1>9
  <2>2. stream' = few \o << >> \o <<end>>
    BY <1>1, <1>2, <1>6, <1>7, <1>9 DEF EndOfCapture, Close
  <2>3. stream' = Append(few, end)
    BY <1>8, <2>2
  <2>4. stream' = Wrap(c)
    BY <1>3, <1>7, <2>1, <2>3, WrapEven
  <2> QED
    BY <1>3, <2>4 DEF StreamInv
<1>10. CASE batch # << >>
  <2>1. Start(k) < Len(c) /\ Len(c) <= Start(k + 1)
    <3>1. Len(batch) # 0 /\ Len(batch) = Len(c) - Start(k)
      BY <1>1, <1>2, <1>5, <1>10
    <3>2. Len(c) < Start(k + 1) /\ Start(k + 1) = Start(k) + msgs_per_packet
          /\ msgs_per_packet \in Nat
      BY <1>1, <1>2, Starts
    <3> QED
      BY <1>4, <3>1, <3>2
  <2>2. stream' = few \o <<last>> \o <<end>>
    BY <1>1, <1>2, <1>6, <1>7, <1>10 DEF EndOfCapture, Close
  <2>3. stream' = Append(Append(few, last), end)
    <3>1. Append(few, last) \in Seq(PacketSet) /\ few \o <<last>> = Append(few, last)
      BY <1>8, AppendIsConcat
    <3> QED
      BY <1>8, <2>2, <3>1, AppendIsConcat
  <2>4. stream' = Wrap(c)
    BY <1>1, <1>2, <1>3, <1>7, <2>1, <2>3, WrapOdd
  <2> QED
    BY <1>3, <2>4 DEF StreamInv
<1> QED
  BY <1>9, <1>10

\* So does an error.
LEMMA RaiseStep ==
  ASSUME StreamInv, Raise
  PROVE  StreamInv'
<1>1. PICK k \in Nat :
        /\ Start(k) <= Len(capture) /\ Len(capture) < Start(k + 1)
        /\ stream = Packets(capture, k) /\ batch = Rest(capture, k)
        /\ seq = start_seq + Start(k)
  BY DEF StreamInv, Raise
<1>2. PICK c, d : c = capture /\ d = capture'
  OBVIOUS
<1>3. "garbled" \in Kind
  BY DEF Kind
<1>4. c \in Seq(Kind) /\ d = Append(c, "garbled") /\ phase' = "raised" /\ batch' = << >>
  BY <1>2 DEF StreamInv, Raise
<1>5. /\ Rest(d, k) = Append(Rest(c, k), "garbled") /\ Rest(c, k) \in Seq(Kind)
      /\ Len(Rest(c, k)) = Len(c) - Start(k) /\ d \in Seq(Kind) /\ Len(d) = Len(c) + 1
  BY <1>1, <1>2, <1>3, <1>4, RestGrows
<1>6. Len(c) \in Nat /\ Start(k) \in Nat /\ Start(k) <= Len(c) /\ Start(k + 1) \in Nat
  <2>1. Len(c) \in Nat /\ k + 1 \in Nat
    BY <1>4
  <2> QED
    BY <1>1, <1>2, <2>1, Starts
<1>7. PICK few, last, end :
        few = Packets(d, k) /\ last = Packet(seq, Rest(d, k))
        /\ end = EndOfSession(start_seq + Len(d))
  OBVIOUS
<1>8. few = stream
  BY <1>1, <1>2, <1>3, <1>4, <1>7, PacketsStay
<1>9. Append(batch, "garbled") = Rest(d, k)
      /\ Len(Append(batch, "garbled")) = Len(c) - Start(k) + 1
  BY <1>1, <1>2, <1>3, <1>5, <1>6
<1>10. seq + Len(Rest(d, k)) = start_seq + Len(d)
  <2>1. Len(Rest(d, k)) = Len(c) - Start(k) + 1 /\ seq = start_seq + Start(k)
    BY <1>1, <1>9
  <2>2. start_seq \in Nat
    BY DumpAssumption
  <2> QED
    <3>1. Len(d) = Len(c) + 1 /\ Len(c) \in Nat /\ Start(k) \in Nat
      BY <1>5, <1>6
    <3>2. \A n, a, t \in Nat : (a + t) + (n - t + 1) = a + (n + 1)
      OBVIOUS
    <3> QED
      BY <2>1, <2>2, <3>1, <3>2
<1>11. stream' = few \o <<last, end>>
  BY <1>7, <1>8, <1>9, <1>10 DEF Raise
<1>12. few \in Seq(PacketSet) /\ last \in PacketSet /\ end \in PacketSet
  <2>1. seq \in Nat /\ start_seq + Len(d) \in Nat /\ Rest(d, k) \in Seq(Kind)
    BY <1>1, <1>3, <1>5, <1>6, <1>9, DumpAssumption
  <2>2. Start(k) <= Len(d)
    BY <1>5, <1>6
  <2> QED
    BY <1>5, <1>7, <2>1, <2>2, PacketsTyped, PacketTyped
<1>13. stream' = Append(Append(few, last), end)
  <2>1. /\ Append(few, last) \in Seq(PacketSet) /\ <<last>> \in Seq(PacketSet)
        /\ <<end>> \in Seq(PacketSet) /\ <<last>> \o <<end>> = <<last, end>>
    BY <1>12, PairOfTwo
  <2>2. Append(Append(few, last), end) = (few \o <<last>>) \o <<end>>
    BY <1>12, <2>1, AppendIsConcat
  <2>3. (few \o <<last>>) \o <<end>> = few \o (<<last>> \o <<end>>)
    BY <1>12, <2>1, ConcatAssociative
  <2> QED
    BY <1>11, <2>1, <2>2, <2>3
<1>14. Start(k) < Len(d) /\ Len(d) <= Start(k + 1)
  BY <1>1, <1>2, <1>5, <1>6
<1>15. stream' = Wrap(d)
  BY <1>1, <1>5, <1>7, <1>13, <1>14, WrapOdd
<1> QED
  BY <1>2, <1>4, <1>5, <1>15 DEF StreamInv

\* So does every step of the dump.
LEMMA StreamStep == StreamInv /\ [DumpNext]_dumpVars => StreamInv'
<1> SUFFICES ASSUME StreamInv, [DumpNext]_dumpVars PROVE StreamInv'
  OBVIOUS
<1>1. ASSUME NEW kind \in Kind, ReadMessage(kind) PROVE StreamInv'
  BY <1>1, ReadStep
<1>2. CASE EndOfCapture
  BY <1>2, EndStep
<1>3. CASE Raise
  BY <1>3, RaiseStep
<1>4. CASE Kill
  <2>1. phase' = "killed" /\ capture' = capture
    BY <1>4 DEF Kill
  <2> QED
    BY <2>1 DEF StreamInv
<1>5. CASE UNCHANGED dumpVars
  BY <1>5 DEF dumpVars, StreamInv, Packets, Piece, Rest, Start, Packet, Wrap, EndOfSession
<1> QED
  BY <1>1, <1>2, <1>3, <1>4, <1>5 DEF DumpNext

\* At first nothing is read and nothing is written.
LEMMA StreamStarts == DumpInit => StreamInv
<1> SUFFICES ASSUME DumpInit PROVE StreamInv
  OBVIOUS
<1>1. capture = << >> /\ Len(capture) = 0 /\ capture \in Seq(Kind)
  BY DEF DumpInit
<1>2. Start(0) = 0 /\ 0 < Start(0 + 1)
  BY Starts
<1>3. Packets(capture, 0) = << >>
  BY DEF Packets
<1>4. Rest(capture, 0) = << >>
  BY <1>1, <1>2, SubSeqEmpty DEF Rest
<1>5. seq = start_seq + Start(0)
  BY <1>2, DumpAssumption DEF DumpInit
<1>6. stream = << >> /\ batch = << >> /\ phase = "reading"
  BY DEF DumpInit
<1> QED
  BY <1>1, <1>2, <1>3, <1>4, <1>5, <1>6 DEF StreamInv

\* A stream of adjacent pieces of the capture.
LEMMA MessagesCut ==
  ASSUME capture \in Seq(Kind), NEW n \in Nat, NEW cut \in [0 .. n -> 0 .. Len(capture)],
         cut[0] = 0, \A j \in 1 .. n : cut[j - 1] <= cut[j], DOMAIN stream = 1 .. n,
         \A j \in 1 .. n : stream[j].messages = SubSeq(capture, cut[j - 1] + 1, cut[j])
  PROVE  Messages = SubSeq(capture, 1, cut[n])
<1>1. PICK p : p = [i \in DOMAIN stream |-> stream[i].messages]
  OBVIOUS
<1>2. ASSUME NEW j \in 1 .. n
      PROVE  p[j] = SubSeq(capture, cut[j - 1] + 1, cut[j]) /\ p[j] \in Seq(Kind)
  <2>1. p[j] = SubSeq(capture, cut[j - 1] + 1, cut[j])
    BY <1>1
  <2>2. cut[j - 1] \in 0 .. Len(capture) /\ cut[j] \in 0 .. Len(capture) /\ Len(capture) \in Nat
    BY j - 1 \in 0 .. n
  <2>3. \A i \in cut[j - 1] + 1 .. cut[j] : i \in 1 .. Len(capture)
    BY <2>2
  <2>4. cut[j - 1] + 1 \in Int /\ cut[j] \in Int
        /\ \A i \in cut[j - 1] + 1 .. cut[j] : capture[i] \in Kind
    BY <2>2, <2>3
  <2> QED
    BY <2>1, <2>4, SubSeqProperties
<1>3. p \in Seq(Seq(Kind)) /\ Len(p) = n
  <2>1. p = [j \in 1 .. n |-> p[j]]
    BY <1>1
  <2> QED
    BY <1>2, <2>1
<1>4. FlattenSeq(p) = SubSeq(capture, 1, cut[n])
  BY <1>2, <1>3, PiecesFlatten
<1> QED
  BY <1>1, <1>4 DEF Messages

\* What was given to the writer is in the stream or still in the batch.
LEMMA MessagesAre ==
  ASSUME StreamInv, phase # "killed"
  PROVE  /\ phase = "reading" => Messages \o batch = capture
         /\ phase \in {"complete", "raised"} => Messages = capture /\ Messages \o batch = capture
<1> DEFINE pieces == [i \in DOMAIN stream |-> stream[i].messages]
<1>1. capture \in Seq(Kind) /\ Len(capture) \in Nat
  BY DEF StreamInv
<1>2. ASSUME NEW k \in Nat, Start(k) <= Len(capture)
      PROVE  /\ [j \in 0 .. k |-> Start(j)] \in [0 .. k -> 0 .. Len(capture)]
             /\ Start(0) = 0 /\ \A j \in 1 .. k : Start(j - 1) <= Start(j)
  <2>1. ASSUME NEW j \in 0 .. k PROVE Start(j) \in 0 .. Len(capture)
    <3>1. j \in Nat /\ j <= k /\ k \in Nat
      OBVIOUS
    <3>2. Start(j) \in Nat /\ Start(j) <= Start(k) /\ Start(k) \in Nat
      BY <3>1, Starts, StartsGrow
    <3> QED
      BY <1>1, <1>2, <3>2
  <2>2. ASSUME NEW j \in 1 .. k PROVE Start(j - 1) <= Start(j)
    <3>1. j - 1 \in Nat /\ j \in Nat /\ j - 1 <= j
      OBVIOUS
    <3> QED
      BY <3>1, StartsGrow
  <2>3. Start(0) = 0
    BY Starts
  <2> QED
    BY <2>1, <2>2, <2>3
<1>3. ASSUME NEW k \in Nat, Start(k) <= Len(capture), stream = Packets(capture, k)
      PROVE  Messages = SubSeq(capture, 1, Start(k))
  <2>1. PICK cut \in [0 .. k -> 0 .. Len(capture)] : cut = [j \in 0 .. k |-> Start(j)]
    BY <1>2, <1>3
  <2>2. Len(stream) = k /\ DOMAIN stream = 1 .. k
    BY <1>1, <1>3, PacketsTyped
  <2>3. \A j \in 1 .. k : cut[j - 1] = Start(j - 1) /\ cut[j] = Start(j)
    BY <2>1
  <2>4. ASSUME NEW j \in 1 .. k
        PROVE  stream[j].messages = SubSeq(capture, cut[j - 1] + 1, cut[j])
    <3>1. stream[j] = Packet(start_seq + Start(j - 1), Piece(capture, j))
      BY <1>1, <1>3, PacketsTyped
    <3> QED
      <4>1. stream[j].messages = Piece(capture, j)
        BY <3>1 DEF Packet
      <4>2. cut[j - 1] = Start(j - 1) /\ cut[j] = Start(j)
        BY <2>3
      <4> QED
        BY <4>1, <4>2 DEF Piece
  <2>5. cut[0] = 0 /\ (\A j \in 1 .. k : cut[j - 1] <= cut[j]) /\ cut[k] = Start(k)
    BY <1>2, <1>3, <2>1, <2>3
  <2> QED
    BY <1>1, <2>2, <2>4, <2>5, MessagesCut
<1>4. ASSUME NEW k \in Nat, Start(k) <= Len(capture)
      PROVE  SubSeq(capture, 1, Start(k)) \o Rest(capture, k) = capture
  <2>1. PICK a, n : a = Start(k) /\ n = Len(capture)
    OBVIOUS
  <2>2. 1 \in 1 .. Len(capture) + 1 /\ a \in (1 - 1) .. Len(capture) /\ n \in a .. Len(capture)
    BY <1>1, <1>4, <2>1, Starts
  <2>3. SubSeq(capture, 1, a) \o SubSeq(capture, a + 1, n) = SubSeq(capture, 1, n)
    BY <1>1, <2>2, ConcatAdjacentSubSeq
  <2> QED
    BY <1>1, <2>1, <2>3, SubSeqFull DEF Rest
<1>5. CASE phase = "reading"
  <2>1. PICK k \in Nat :
          /\ Start(k) <= Len(capture)
          /\ stream = Packets(capture, k) /\ batch = Rest(capture, k)
    BY <1>5 DEF StreamInv
  <2> QED
    BY <1>3, <1>4, <1>5, <2>1
<1>6. CASE phase \in {"complete", "raised"}
  <2>1. stream = Wrap(capture) /\ batch = << >>
    BY <1>6 DEF StreamInv
  <2>2. PICK q \in Nat : Start(q) <= Len(capture) /\ Len(capture) < Start(q + 1)
    <3>1. PICK m \in Nat \ {0} : m = msgs_per_packet
      BY DumpAssumption
    <3>2. Len(capture) \div m \in Nat /\ (Len(capture) \div m) * m <= Len(capture)
          /\ Len(capture) < (Len(capture) \div m + 1) * m
      BY <1>1
    <3> QED
      BY <3>1, <3>2 DEF Start
  <2>3. Messages = capture
    <3>1. PICK c, few : c = capture /\ few = Packets(c, q)
      OBVIOUS
    <3>2. /\ few \in Seq(PacketSet) /\ Len(few) = q
          /\ \A j \in 1 .. q : few[j] = Packet(start_seq + Start(j - 1), Piece(c, j))
      BY <1>1, <2>2, <3>1, PacketsTyped
    <3>3. PICK end, last :
            end = EndOfSession(start_seq + Len(c))
            /\ last = Packet(start_seq + Start(q), Rest(c, q))
      OBVIOUS
    <3>4. Start(q) \in Nat /\ q + 1 \in Nat /\ Start(q + 1) \in Nat /\ Start(q) \in 0 .. Len(c)
      <4>1. Start(q) \in Nat /\ q + 1 \in Nat
        BY Starts
      <4>2. Start(q + 1) \in Nat
        BY <4>1, Starts
      <4> QED
        BY <1>1, <2>2, <3>1, <4>1, <4>2
    <3>5. Rest(c, q) \in Seq(Kind)
      <4>1. "silent" \in Kind
        BY DEF Kind
      <4> QED
        BY <1>1, <2>2, <3>1, <4>1, RestGrows
    <3>6. end \in PacketSet /\ last \in PacketSet
          /\ end.messages = << >> /\ last.messages = Rest(c, q)
      <4>1. start_seq + Len(c) \in Nat /\ start_seq + Start(q) \in Nat
        BY <1>1, <3>1, <3>4, DumpAssumption
      <4> QED
        BY <3>3, <3>5, <4>1, PacketTyped
    <3> DEFINE n == IF Start(q) = Len(c) THEN q + 1 ELSE q + 2
    <3>7. PICK cut : cut = [j \in 0 .. n |-> IF j <= q THEN Start(j) ELSE Len(c)]
      OBVIOUS
    <3>8. n \in Nat /\ cut \in [0 .. n -> 0 .. Len(capture)]
      <4>1. ASSUME NEW j \in 0 .. n, j <= q PROVE Start(j) \in 0 .. Len(c)
        BY <1>2, <2>2, <3>1, <4>1
      <4>2. Len(c) \in 0 .. Len(c) /\ n \in Nat
        BY <1>1, <3>1
      <4> HIDE DEF n
      <4> QED
        BY <3>1, <3>7, <4>1, <4>2
    <3>9. cut[0] = 0 /\ cut[n] = Len(c) /\ \A j \in 1 .. n : cut[j - 1] <= cut[j]
      <4>1. cut[0] = 0 /\ cut[n] = Len(c)
        BY <1>2, <2>2, <3>7
      <4>2. ASSUME NEW j \in 1 .. n PROVE cut[j - 1] <= cut[j]
        <5>1. CASE j <= q
          BY <1>2, <2>2, <3>7, <5>1
        <5>2. CASE j = q + 1
          <6>1. cut[j - 1] = Start(q) /\ cut[j] = Len(c)
            BY <3>7, <5>2
          <6> QED
            BY <2>2, <3>1, <6>1
        <5>3. CASE j > q + 1
          BY <1>1, <3>1, <3>7, <5>3
        <5> QED
          BY <5>1, <5>2, <5>3
      <4> QED
        BY <4>1, <4>2
    <3>10. /\ DOMAIN stream = 1 .. n
           /\ \A j \in 1 .. q : stream[j] = few[j]
           /\ stream[n] = end
           /\ n = q + 2 => stream[q + 1] = last
      <4>1. CASE Start(q) = Len(c)
        <5>1. stream = Append(few, end)
          BY <1>1, <2>1, <3>1, <3>3, <4>1, WrapEven
        <5> QED
          BY <3>2, <3>6, <4>1, <5>1
      <4>2. CASE Start(q) # Len(c)
        <5>1. Start(q) < Len(c) /\ Len(c) <= Start(q + 1)
          BY <1>1, <2>2, <3>1, <3>4, <4>2
        <5>2. stream = Append(Append(few, last), end)
          BY <1>1, <2>1, <3>1, <3>3, <5>1, WrapOdd
        <5>3. /\ Append(few, last) \in Seq(PacketSet) /\ Len(Append(few, last)) = q + 1
              /\ \A j \in 1 .. q : Append(few, last)[j] = few[j]
              /\ Append(few, last)[q + 1] = last
          BY <3>2, <3>6
        <5> QED
          BY <3>6, <4>2, <5>2, <5>3
      <4> QED
        BY <4>1, <4>2
    <3>11. ASSUME NEW j \in 1 .. n
           PROVE  stream[j].messages = SubSeq(capture, cut[j - 1] + 1, cut[j])
      <4>1. CASE j <= q
        <5>1. stream[j] = Packet(start_seq + Start(j - 1), Piece(c, j))
          BY <3>2, <3>10, <4>1
        <5>2. cut[j - 1] = Start(j - 1) /\ cut[j] = Start(j)
          BY <3>7, <4>1
        <5> QED
          <6>1. stream[j].messages = Piece(c, j)
            BY <5>1 DEF Packet
          <6> QED
            BY <3>1, <5>2, <6>1 DEF Piece
      <4>2. CASE j = q + 1 /\ n = q + 2
        <5>1. cut[j - 1] = Start(q) /\ cut[j] = Len(c)
          BY <3>7, <4>2
        <5> QED
          BY <3>1, <3>6, <3>10, <4>2, <5>1 DEF Rest
      <4>3. CASE j = n
        <5>1. cut[j - 1] = Len(c) /\ cut[j] = Len(c)
          BY <3>7, <4>3
        <5>2. SubSeq(c, Len(c) + 1, Len(c)) = << >>
          <6>1. Len(c) + 1 \in Int /\ Len(c) \in Int /\ Len(c) < Len(c) + 1
            BY <1>1, <3>1
          <6> QED
            BY <6>1, SubSeqEmpty
        <5> QED
          BY <3>1, <3>6, <3>10, <4>3, <5>1, <5>2
      <4> QED
        BY <4>1, <4>2, <4>3
    <3> HIDE DEF n
    <3>12. Messages = SubSeq(capture, 1, cut[n])
      BY <1>1, <3>8, <3>9, <3>10, <3>11, MessagesCut
    <3> QED
      BY <1>1, <3>1, <3>9, <3>12, SubSeqFull
  <2>4. Messages \o batch = capture
    BY <1>1, <2>1, <2>3, ConcatEmptySeq
  <2> QED
    BY <1>6, <2>3, <2>4
<1> QED
  BY <1>5, <1>6

-----------------------------------------------------------------------------
(* The whole chain.                                                         *)

Body == {"changed", "reduced", "added", "frame"}

LineOf(other) == [n : Nat, body : Body \cup {"wrong"}, other : {other}]

\* What the golden model writes into the file that is compared.
GoldenFile == IF tool = "compare_traces" THEN trace ELSE orders
Mark       == IF tool = "compare_traces" THEN "none" ELSE "decoded"

\* The lines of the j-th record of c end at at[j].
Follows(file, c, at) ==
  /\ at \in [0 .. Len(c) -> Nat] /\ at[0] = 0 /\ at[Len(c)] = Len(file)
  /\ \A j \in 0 .. Len(c) : at[j] <= Len(file)
  /\ \A j \in 1 .. Len(c) :
       /\ at[j] = at[j - 1] + Len(Observed(c[j]))
       /\ \A i \in 1 .. Len(Observed(c[j])) :
            file[at[j - 1] + i] = [n |-> j - 1, body |-> Observed(c[j])[i], other |-> Mark]

Alike(a, b) == a.n = b.n /\ a.body = b.body

\* What a message makes the tools write is a sequence.
LEMMA BodiesTyped ==
  ASSUME NEW kind \in Kind
  PROVE  /\ Updates(kind) \in Seq(Body) /\ Frames(kind) \in Seq(Body)
         /\ Observed(kind) \in Seq(Body)
         /\ kind = "garbled" => Observed(kind) = << >>
<1>1. /\ <<"changed">> \in Seq(Body) /\ <<"reduced", "added">> \in Seq(Body)
      /\ <<"frame">> \in Seq(Body) /\ << >> \in Seq(Body)
  BY DEF Body
<1>2. /\ Updates(kind) \in {<<"changed">>, <<"reduced", "added">>, << >>}
      /\ Frames(kind) \in {<<"frame">>, << >>}
      /\ kind = "garbled" => Updates(kind) = << >> /\ Frames(kind) = << >>
  BY DEF Updates, Frames
<1> QED
  BY <1>1, <1>2 DEF Observed

\* One line for each body, in order, all with the ordinal of the message.
LEMMA LinesAre ==
  ASSUME NEW n \in Nat, NEW bodies \in Seq(Body), NEW other
  PROVE  /\ Lines(n, bodies, other) \in Seq(LineOf(other))
         /\ Len(Lines(n, bodies, other)) = Len(bodies)
         /\ \A i \in 1 .. Len(bodies) :
              Lines(n, bodies, other)[i] = [n |-> n, body |-> bodies[i], other |-> other]
<1>1. Len(bodies) \in Nat /\ DOMAIN bodies = 1 .. Len(bodies)
      /\ \A i \in 1 .. Len(bodies) : bodies[i] \in Body
  OBVIOUS
<1>2. Lines(n, bodies, other) \in [1 .. Len(bodies) -> LineOf(other)]
  BY <1>1 DEF Lines, LineOf
<1>3. Lines(n, bodies, other) \in Seq(LineOf(other))
      /\ Len(Lines(n, bodies, other)) = Len(bodies)
  BY <1>1, <1>2
<1> QED
  BY <1>1, <1>3 DEF Lines

\* Lines of one kind are lines.
LEMMA LineOfIsLine ==
  ASSUME NEW other \in {"none", "lat", "decoded"}
  PROVE  LineOf(other) \subseteq Line
  BY DEF LineOf, Line, Body

\* A record more.
LEMMA FollowsOn ==
  ASSUME NEW c \in Seq(Kind), NEW kind \in Kind, NEW file \in Seq(LineOf(Mark)),
         NEW at, Follows(file, c, at)
  PROVE  \E new : Follows(file \o Lines(Len(c), Observed(kind), Mark), Append(c, kind), new)
<1>1. PICK n, d, lines, obs :
        /\ n = Len(c) /\ d = Append(c, kind) /\ obs = Observed(kind)
        /\ lines = Lines(Len(c), Observed(kind), Mark)
  OBVIOUS
<1>2. n \in Nat /\ Len(d) = n + 1 /\ (\A j \in 1 .. n : d[j] = c[j]) /\ d[n + 1] = kind
  BY <1>1
<1>3. obs \in Seq(Body) /\ Len(obs) \in Nat
  BY <1>1, BodiesTyped
<1>4. /\ lines \in Seq(LineOf(Mark)) /\ Len(lines) = Len(obs)
      /\ \A i \in 1 .. Len(obs) : lines[i] = [n |-> n, body |-> obs[i], other |-> Mark]
  BY <1>1, <1>2, <1>3, LinesAre
<1>5. PICK long : long = file \o lines
  OBVIOUS
<1>6. /\ long \in Seq(LineOf(Mark)) /\ Len(long) = Len(file) + Len(obs) /\ Len(file) \in Nat
      /\ \A i \in 1 .. Len(file) : long[i] = file[i]
      /\ \A i \in 1 .. Len(obs) : long[Len(file) + i] = lines[i]
  <2>1. Len(file) \in Nat
    OBVIOUS
  <2>2. /\ long \in Seq(LineOf(Mark)) /\ Len(long) = Len(file) + Len(lines)
        /\ \A i \in 1 .. Len(file) + Len(lines) :
             long[i] = IF i <= Len(file) THEN file[i] ELSE lines[i - Len(file)]
    <3>1. PICK S : S = LineOf(Mark)
      OBVIOUS
    <3>2. file \in Seq(S) /\ lines \in Seq(S)
      BY <1>4, <3>1
    <3> QED
      BY <1>5, <3>1, <3>2, ConcatProperties
  <2>3. ASSUME NEW i \in 1 .. Len(file) PROVE long[i] = file[i]
    <3>1. i \in 1 .. Len(file) + Len(lines) /\ i <= Len(file)
      BY <1>3, <1>4, <2>1
    <3> QED
      BY <2>2, <3>1
  <2>4. ASSUME NEW i \in 1 .. Len(obs) PROVE long[Len(file) + i] = lines[i]
    <3>1. Len(file) + i \in 1 .. Len(file) + Len(lines) /\ ~(Len(file) + i <= Len(file))
          /\ (Len(file) + i) - Len(file) = i
      BY <1>3, <1>4, <2>1
    <3> QED
      BY <2>2, <3>1
  <2> QED
    BY <1>4, <2>1, <2>2, <2>3, <2>4
<1>7. PICK new : new = [j \in 0 .. n + 1 |-> IF j <= n THEN at[j] ELSE at[n] + Len(obs)]
  OBVIOUS
<1>8. /\ at \in [0 .. n -> Nat] /\ at[0] = 0 /\ at[n] = Len(file)
      /\ \A j \in 0 .. n : at[j] <= Len(file)
  BY <1>1 DEF Follows
<1>9. new \in [0 .. Len(d) -> Nat] /\ new[0] = 0 /\ new[Len(d)] = Len(long)
      /\ \A j \in 0 .. Len(d) : new[j] <= Len(long)
  BY <1>2, <1>3, <1>6, <1>7, <1>8
<1>10. ASSUME NEW j \in 1 .. Len(d)
       PROVE  /\ new[j] = new[j - 1] + Len(Observed(d[j]))
              /\ \A i \in 1 .. Len(Observed(d[j])) :
                   long[new[j - 1] + i]
                     = [n |-> j - 1, body |-> Observed(d[j])[i], other |-> Mark]
  <2>1. CASE j <= n
    <3>1. j \in 1 .. n /\ d[j] = c[j] /\ new[j] = at[j] /\ new[j - 1] = at[j - 1]
      BY <1>2, <1>7, <2>1
    <3>2. /\ at[j] = at[j - 1] + Len(Observed(c[j]))
          /\ \A i \in 1 .. Len(Observed(c[j])) :
               file[at[j - 1] + i] = [n |-> j - 1, body |-> Observed(c[j])[i], other |-> Mark]
      BY <1>1, <3>1 DEF Follows
    <3>3. at[j - 1] \in Nat /\ Len(Observed(c[j])) \in Nat
      <4>1. c[j] \in Kind
        BY <1>1, <3>1
      <4>2. Len(Observed(c[j])) \in Nat
        BY <4>1, BodiesTyped
      <4> QED
        BY <1>2, <1>8, <3>1, <4>2
    <3>4. at[j] <= Len(file)
      BY <1>8, <3>1
    <3>5. \A i \in 1 .. Len(Observed(c[j])) : at[j - 1] + i \in 1 .. Len(file)
      BY <1>6, <3>2, <3>3, <3>4
    <3> QED
      BY <1>6, <3>1, <3>2, <3>5
  <2>2. CASE j = n + 1
    <3>1. d[j] = kind /\ Observed(d[j]) = obs /\ j - 1 = n
          /\ new[j] = at[n] + Len(obs) /\ new[j - 1] = at[n]
      BY <1>1, <1>2, <1>7, <2>2
    <3> QED
      BY <1>4, <1>6, <1>8, <3>1
  <2> QED
    BY <1>2, <2>1, <2>2
<1>11. Follows(long, d, new)
  BY <1>9, <1>10 DEF Follows
<1> QED
  BY <1>1, <1>5, <1>11

\* A lost line leaves fewer, a wrong or late one is not the one it should be.
LEMMA FaultIs ==
  ASSUME NEW lines \in Seq(LineOf("lat")), NEW wrong \in WithFault(lines),
         \A i \in 1 .. Len(lines) : lines[i].body \in Body
  PROVE  /\ wrong \in Seq(LineOf("lat"))
         /\ \/ Len(wrong) < Len(lines)
            \/ /\ Len(wrong) = Len(lines)
               /\ \E i \in 1 .. Len(lines) : ~Alike(lines[i], wrong[i])
<1>1. PICK i \in DOMAIN lines :
        wrong \in {RemoveAt(lines, i)} \cup {ReplaceAt(lines, i, f) : f \in Faulty(lines[i])}
  BY DEF WithFault
<1>2. PICK S : S = LineOf("lat")
  OBVIOUS
<1>3. lines \in Seq(S) /\ i \in 1 .. Len(lines) /\ Len(lines) \in Nat /\ lines[i] \in S
  BY <1>1, <1>2
<1>4. CASE wrong = RemoveAt(lines, i)
  <2>1. PICK head, tail : head = SubSeq(lines, 1, i - 1) /\ tail = SubSeq(lines, i + 1, Len(lines))
    OBVIOUS
  <2>2. head \in Seq(S) /\ Len(head) = i - 1
    <3>1. 1 \in Int /\ i - 1 \in Int /\ \A j \in 1 .. i - 1 : lines[j] \in S
      BY <1>3
    <3>2. head \in Seq(S) /\ Len(head) = IF 1 <= i - 1 THEN (i - 1) - 1 + 1 ELSE 0
      BY <2>1, <3>1, SubSeqProperties
    <3> QED
      BY <1>3, <3>2
  <2>3. tail \in Seq(S) /\ Len(tail) = Len(lines) - i
    <3>1. i + 1 \in Int /\ Len(lines) \in Int /\ \A j \in i + 1 .. Len(lines) : lines[j] \in S
      BY <1>3
    <3>2. tail \in Seq(S)
          /\ Len(tail) = IF i + 1 <= Len(lines) THEN Len(lines) - (i + 1) + 1 ELSE 0
      BY <2>1, <3>1, SubSeqProperties
    <3> QED
      BY <1>3, <3>2
  <2>4. wrong = head \o tail
    BY <1>4, <2>1 DEF RemoveAt
  <2>5. wrong \in Seq(S) /\ Len(wrong) = Len(head) + Len(tail)
    BY <2>2, <2>3, <2>4, ConcatProperties
  <2> QED
    BY <1>2, <1>3, <2>2, <2>3, <2>5
<1>5. ASSUME NEW f \in Faulty(lines[i]), wrong = ReplaceAt(lines, i, f)
      PROVE  /\ wrong \in Seq(LineOf("lat")) /\ Len(wrong) = Len(lines)
             /\ \E j \in 1 .. Len(lines) : ~Alike(lines[j], wrong[j])
  <2>1. PICK l : l = lines[i]
    OBVIOUS
  <2>2. l \in LineOf("lat") /\ l.body \in Body /\ f \in Faulty(l)
    BY <1>2, <1>3, <1>5, <2>1
  <2>3. f \in LineOf("lat")
    BY <2>2 DEF Faulty, LineOf
  <2>4. ~Alike(l, f)
    BY <2>2 DEF Faulty, LineOf, Alike, Body
  <2>5. wrong = [lines EXCEPT ![i] = f]
    BY <1>5 DEF ReplaceAt
  <2>6. f \in S
    BY <1>2, <2>3
  <2>7. wrong \in Seq(S) /\ Len(wrong) = Len(lines) /\ wrong[i] = f
    BY <1>3, <2>5, <2>6, ExceptSeq
  <2> QED
    BY <1>2, <1>3, <2>1, <2>4, <2>7
<1> QED
  BY <1>1, <1>4, <1>5

\* The harness has written as many lines as the golden file has up to record r, and the
\* same, as long as there was no fault; with one there are fewer, or one is not the same.
CaughtUp(file, at, r, lines, f) ==
  /\ Len(lines) <= at[r]
  /\ f = 0 => Len(lines) = at[r] /\ \A i \in 1 .. Len(lines) : Alike(file[i], lines[i])
  /\ f > 0 /\ Len(lines) = at[r] => \E i \in 1 .. Len(lines) : ~Alike(file[i], lines[i])

\* A message more, and the replay has caught up with one message more.
LEMMA CatchesUp ==
  ASSUME NEW c \in Seq(Kind), NEW file \in Seq(LineOf(Mark)), NEW at, Follows(file, c, at),
         NEW r \in Nat, r < Len(c), NEW old \in Seq(LineOf("lat")), NEW f \in Nat,
         CaughtUp(file, at, r, old, f),
         NEW lines, lines = Lines(r, Observed(c[r + 1]), "lat"),
         NEW g, NEW next,
         \/ next = old \o lines /\ g = f
         \/ g = f + 1 /\ \E wrong \in WithFault(lines) : next = old \o wrong
  PROVE  next \in Seq(LineOf("lat")) /\ CaughtUp(file, at, r + 1, next, g) /\ g \in Nat
<1>1. PICK S, obs : S = LineOf("lat") /\ obs = Observed(c[r + 1])
  OBVIOUS
<1>2. r + 1 \in 1 .. Len(c) /\ (r + 1) - 1 = r /\ c[r + 1] \in Kind /\ r \in 0 .. Len(c)
  OBVIOUS
<1>3. obs \in Seq(Body) /\ Len(obs) \in Nat
  BY <1>1, <1>2, BodiesTyped
<1>4. /\ lines \in Seq(S) /\ Len(lines) = Len(obs)
      /\ \A i \in 1 .. Len(obs) : lines[i] = [n |-> r, body |-> obs[i], other |-> "lat"]
  BY <1>1, <1>3, LinesAre
<1>5. /\ at[r] \in Nat /\ at[r + 1] = at[r] + Len(obs)
      /\ \A i \in 1 .. Len(obs) : file[at[r] + i] = [n |-> r, body |-> obs[i], other |-> Mark]
  BY <1>1, <1>2 DEF Follows
<1>6. ASSUME NEW i \in 1 .. Len(obs)
      PROVE  Alike(file[at[r] + i], lines[i]) /\ lines[i].body \in Body
  <2>1. /\ lines[i] = [n |-> r, body |-> obs[i], other |-> "lat"]
        /\ file[at[r] + i] = [n |-> r, body |-> obs[i], other |-> Mark]
    BY <1>4, <1>5
  <2>2. obs[i] \in Body
    BY <1>3
  <2> QED
    BY <2>1, <2>2 DEF Alike
<1>7. ASSUME NEW more \in Seq(S), next = old \o more
      PROVE  /\ next \in Seq(S) /\ Len(next) = Len(old) + Len(more) /\ Len(old) \in Nat
             /\ Len(more) \in Nat
             /\ \A i \in 1 .. Len(old) : i \in 1 .. Len(next) /\ next[i] = old[i]
             /\ \A i \in 1 .. Len(more) :
                  Len(old) + i \in 1 .. Len(next) /\ next[Len(old) + i] = more[i]
  <2>1. old \in Seq(S) /\ Len(old) \in Nat /\ Len(more) \in Nat
    BY <1>1
  <2>2. /\ next \in Seq(S) /\ Len(next) = Len(old) + Len(more)
        /\ \A i \in 1 .. Len(old) + Len(more) :
             next[i] = IF i <= Len(old) THEN old[i] ELSE more[i - Len(old)]
    BY <1>7, <2>1, ConcatProperties
  <2>3. ASSUME NEW i \in 1 .. Len(old) PROVE i \in 1 .. Len(next) /\ next[i] = old[i]
    <3>1. i \in 1 .. Len(old) + Len(more) /\ i <= Len(old)
      BY <2>1
    <3> QED
      BY <2>2, <3>1
  <2>4. ASSUME NEW i \in 1 .. Len(more)
        PROVE  Len(old) + i \in 1 .. Len(next) /\ next[Len(old) + i] = more[i]
    <3>1. Len(old) + i \in 1 .. Len(old) + Len(more) /\ ~(Len(old) + i <= Len(old))
          /\ (Len(old) + i) - Len(old) = i
      BY <2>1
    <3> QED
      BY <2>2, <3>1
  <2> QED
    BY <2>1, <2>2, <2>3, <2>4
<1>8. /\ Len(old) <= at[r]
      /\ f = 0 => Len(old) = at[r] /\ \A i \in 1 .. Len(old) : Alike(file[i], old[i])
      /\ f > 0 /\ Len(old) = at[r] => \E i \in 1 .. Len(old) : ~Alike(file[i], old[i])
  BY DEF CaughtUp
<1>9. CASE next = old \o lines /\ g = f
  <2>1. /\ next \in Seq(S) /\ Len(next) = Len(old) + Len(obs) /\ Len(old) \in Nat
        /\ \A i \in 1 .. Len(old) : i \in 1 .. Len(next) /\ next[i] = old[i]
        /\ \A i \in 1 .. Len(obs) :
             Len(old) + i \in 1 .. Len(next) /\ next[Len(old) + i] = lines[i]
    BY <1>4, <1>7, <1>9
  <2>2. Len(next) <= at[r + 1] /\ (Len(next) = at[r + 1] <=> Len(old) = at[r])
    <3>1. Len(next) = Len(old) + Len(obs) /\ Len(old) \in Nat
      BY <2>1
    <3>2. at[r] \in Nat /\ at[r + 1] = at[r] + Len(obs)
      BY <1>5
    <3>3. Len(old) <= at[r]
      BY <1>8
    <3>4. PICK a, b, n, x, y :
            a = Len(old) /\ b = at[r] /\ n = Len(obs) /\ x = Len(next) /\ y = at[r + 1]
      OBVIOUS
    <3>5. a \in Nat /\ b \in Nat /\ n \in Nat /\ x = a + n /\ y = b + n /\ a <= b
      BY <1>3, <3>1, <3>2, <3>3, <3>4
    <3>6. x <= y /\ (x = y <=> a = b)
      BY <3>5
    <3> QED
      BY <3>4, <3>6
  <2>3. ASSUME f = 0, NEW i \in 1 .. Len(next)
        PROVE  Alike(file[i], next[i])
    <3>1. CASE i <= Len(old)
      <4>1. i \in 1 .. Len(old)
        BY <2>1, <3>1
      <4> QED
        BY <1>8, <2>1, <2>3, <4>1
    <3>2. CASE i > Len(old)
      <4>1. PICK j \in 1 .. Len(obs) : i = Len(old) + j
        <5>1. i - Len(old) \in 1 .. Len(obs) /\ i = Len(old) + (i - Len(old))
          BY <1>3, <2>1, <3>2
        <5> QED
          BY <5>1
      <4>2. Len(old) = at[r]
        BY <1>8, <2>3
      <4> QED
        BY <1>6, <2>1, <4>1, <4>2
    <3> QED
      BY <2>1, <3>1, <3>2
  <2>4. ASSUME f > 0, Len(next) = at[r + 1]
        PROVE  \E i \in 1 .. Len(next) : ~Alike(file[i], next[i])
    BY <1>8, <2>1, <2>2, <2>4
  <2>5. CaughtUp(file, at, r + 1, next, g)
    BY <1>8, <1>9, <2>2, <2>3, <2>4 DEF CaughtUp
  <2> QED
    BY <1>1, <1>9, <2>1, <2>5
<1>10. ASSUME NEW wrong \in WithFault(lines), g = f + 1, next = old \o wrong
       PROVE  next \in Seq(S) /\ CaughtUp(file, at, r + 1, next, g) /\ g \in Nat
  <2>1. \A i \in 1 .. Len(lines) : lines[i].body \in Body
    BY <1>4, <1>6
  <2>2. /\ wrong \in Seq(S)
        /\ \/ Len(wrong) < Len(lines)
           \/ /\ Len(wrong) = Len(lines)
              /\ \E i \in 1 .. Len(lines) : ~Alike(lines[i], wrong[i])
    BY <1>1, <1>4, <2>1, FaultIs
  <2>3. /\ next \in Seq(S) /\ Len(next) = Len(old) + Len(wrong) /\ Len(old) \in Nat
        /\ Len(wrong) \in Nat
        /\ \A i \in 1 .. Len(wrong) :
             Len(old) + i \in 1 .. Len(next) /\ next[Len(old) + i] = wrong[i]
    BY <1>7, <1>10, <2>2
  <2>4. g \in Nat /\ g > 0 /\ ~(g = 0)
    BY <1>10
  <2>5. Len(next) <= at[r + 1]
    BY <1>3, <1>4, <1>5, <1>8, <2>2, <2>3
  <2>6. ASSUME Len(next) = at[r + 1]
        PROVE  \E i \in 1 .. Len(next) : ~Alike(file[i], next[i])
    <3>1. Len(old) = at[r] /\ Len(wrong) = Len(lines)
      BY <1>3, <1>4, <1>5, <1>8, <2>2, <2>3, <2>6
    <3>2. PICK i \in 1 .. Len(lines) : ~Alike(lines[i], wrong[i])
      BY <1>3, <1>4, <2>2, <3>1
    <3>3. i \in 1 .. Len(obs) /\ Alike(file[at[r] + i], lines[i])
      BY <1>4, <1>6
    <3>4. ~Alike(file[at[r] + i], wrong[i])
      BY <3>2, <3>3 DEF Alike
    <3> QED
      BY <2>3, <3>1, <3>4
  <2>7. CaughtUp(file, at, r + 1, next, g)
    BY <2>4, <2>5, <2>6 DEF CaughtUp
  <2> QED
    BY <2>3, <2>4, <2>7
<1> QED
  BY <1>1, <1>9, <1>10

\* The files of a dump that was not killed.
Produced ==
  phase # "killed" =>
    /\ trace \in Seq(LineOf("none")) /\ orders \in Seq(LineOf("decoded"))
    /\ \E at : Follows(GoldenFile, capture, at)

\* The replay waits for the dump.
Waits ==
  /\ phase \in {"reading", "complete", "raised", "killed"} /\ faults \in Nat
  /\ phase = "reading" =>
       replayed = 0 /\ msgs_seen = 0 /\ written = << >> /\ faults = 0 /\ replay = "running"

\* A replay of a complete dump without empty records.
Replays ==
  /\ phase = "complete" /\ replay # "killed" /\ (\A i \in DOMAIN capture : capture[i] # "empty")
  => /\ replayed \in 0 .. Len(capture) /\ msgs_seen = replayed
     /\ written \in Seq(LineOf("lat"))
     /\ replay = "complete" => replayed = Len(capture)
     /\ \E at : /\ Follows(GoldenFile, capture, at)
                /\ CaughtUp(GoldenFile, at, replayed, written, faults)

\* The comparators get the files as they were left.
HandedOver ==
  /\ tool \in {"compare_traces", "compare_orders"}
  /\ max_report # 0 => golden = GoldenFile /\ rtl = written /\ replay # "running"

ChainInv == StreamInv /\ Produced /\ Waits /\ Replays /\ HandedOver

\* A step that keeps the tool keeps what a file follows.
LEMMA FollowsStays ==
  ASSUME tool' = tool, NEW file, NEW c, NEW at
  PROVE  Follows(file, c, at)' <=> Follows(file, c, at)
  BY DEF Follows, Observed, Mark

\* The golden file of a comparison holds lines of one kind.
LEMMA FileTyped ==
  ASSUME Produced, phase # "killed", tool \in {"compare_traces", "compare_orders"}
  PROVE  GoldenFile \in Seq(LineOf(Mark))
  BY DEF Produced, GoldenFile, Mark

\* A step that leaves what was dumped and replayed alone.
LEMMA ChainStays ==
  ASSUME ChainInv, UNCHANGED <<dumpVars, replayVars, tool>>
  PROVE  StreamInv' /\ Produced' /\ Waits' /\ Replays'
<1>1. UNCHANGED <<capture, batch, seq, stream, trace, orders, phase>> /\ tool' = tool
      /\ UNCHANGED <<replayed, msgs_seen, written, faults, replay>>
  BY DEF dumpVars, replayVars
<1>2. StreamInv'
  BY <1>1, StreamStep DEF ChainInv, dumpVars
<1>3. GoldenFile' = GoldenFile
  BY <1>1 DEF GoldenFile
<1>4. ASSUME NEW at, Follows(GoldenFile, capture, at)
      PROVE  Follows(GoldenFile, capture, at)'
  BY <1>1, <1>3, <1>4 DEF Follows, Observed, Mark
<1>5. Produced'
  BY <1>1, <1>4 DEF ChainInv, Produced
<1>6. Waits'
  BY <1>1 DEF ChainInv, Waits
<1>7. Replays'
  <2>1. ASSUME NEW at, CaughtUp(GoldenFile, at, replayed, written, faults)
        PROVE  CaughtUp(GoldenFile, at, replayed, written, faults)'
    BY <1>1, <1>3, <2>1 DEF CaughtUp, Alike
  <2> QED
    BY <1>1, <1>4, <2>1 DEF ChainInv, Replays
<1> QED
  BY <1>2, <1>5, <1>6, <1>7

\* A step of the dump keeps the chain.
LEMMA DumpChain ==
  ASSUME ChainInv, DumpNext, UNCHANGED <<replayVars, compareVars>>
  PROVE  ChainInv'
<1>1. StreamInv'
  BY StreamStep DEF ChainInv
<1>2. phase = "reading" /\ max_report = 0 /\ max_report' = 0 /\ tool' = tool
      /\ replayed = 0 /\ msgs_seen = 0 /\ written = << >> /\ faults = 0 /\ replay = "running"
      /\ UNCHANGED <<replayed, msgs_seen, written, faults, replay>>
  <2>1. phase = "reading"
    BY DEF DumpNext, ReadMessage, EndOfCapture, Raise, Kill
  <2> QED
    BY <2>1 DEF ChainInv, Waits, HandedOver, replayVars, compareVars, arguments
<1>3. HandedOver'
  BY <1>2 DEF ChainInv, HandedOver
<1>4. /\ trace \in Seq(LineOf("none")) /\ orders \in Seq(LineOf("decoded"))
      /\ capture \in Seq(Kind) /\ GoldenFile \in Seq(LineOf(Mark))
  BY <1>2, FileTyped DEF ChainInv, Produced, StreamInv, HandedOver
<1>5. PICK at : Follows(GoldenFile, capture, at)
  BY <1>2 DEF ChainInv, Produced
<1>6. ASSUME NEW kind \in Kind, ReadMessage(kind) PROVE ChainInv'
  <2>1. PICK upd, ord :
          /\ upd = Lines(Len(capture), Updates(kind), "none")
          /\ ord = Lines(Len(capture), Frames(kind), "decoded")
    OBVIOUS
  <2>2. /\ trace' = trace \o upd /\ orders' = orders \o ord
        /\ capture' = Append(capture, kind) /\ phase' = "reading"
    BY <1>6, <2>1 DEF ReadMessage, Ordinal
  <2>3. upd \in Seq(LineOf("none")) /\ ord \in Seq(LineOf("decoded"))
    <3>1. Len(capture) \in Nat
      BY <1>4
    <3> QED
      BY <2>1, <3>1, BodiesTyped, LinesAre
  <2>4. trace' \in Seq(LineOf("none")) /\ orders' \in Seq(LineOf("decoded"))
    BY <1>4, <2>2, <2>3, ConcatProperties
  <2>5. PICK file : file = GoldenFile'
    OBVIOUS
  <2>6. file = GoldenFile \o Lines(Len(capture), Observed(kind), Mark)
    BY <1>2, <2>1, <2>2, <2>5 DEF GoldenFile, Observed, Mark
  <2>7. PICK c, new : c = capture' /\ Follows(file, c, new)
    BY <1>4, <1>5, <2>2, <2>6, FollowsOn
  <2>8. Follows(GoldenFile, capture, new)'
    BY <1>2, <2>5, <2>7 DEF Follows, Observed, Mark
  <2>9. Produced'
    BY <2>4, <2>8 DEF Produced
  <2>10. Waits' /\ Replays'
    BY <1>2, <2>2 DEF Waits, Replays
  <2> QED
    BY <1>1, <1>3, <2>9, <2>10 DEF ChainInv
<1>7. CASE EndOfCapture
  <2>1. UNCHANGED <<capture, trace, orders>> /\ phase' = "complete"
    BY <1>7 DEF EndOfCapture
  <2>2. GoldenFile' = GoldenFile
    BY <1>2, <2>1 DEF GoldenFile
  <2>3. Follows(GoldenFile, capture, at)'
    BY <1>2, <1>5, <2>1, <2>2 DEF Follows, Observed, Mark
  <2>4. Produced' /\ Waits'
    BY <1>2, <1>4, <2>1, <2>3 DEF Produced, Waits
  <2>5. CaughtUp(GoldenFile, at, replayed, written, faults)'
    <3>1. at[0] = 0
      BY <1>5 DEF Follows
    <3>2. replayed' = 0 /\ written' = << >> /\ faults' = 0 /\ Len(<< >>) = 0
      BY <1>2
    <3> QED
      BY <3>1, <3>2 DEF CaughtUp
  <2>6. Replays'
    <3>1. 0 \in 0 .. Len(capture') /\ << >> \in Seq(LineOf("lat"))
      BY <1>4, <2>1
    <3> QED
      BY <1>2, <2>3, <2>5, <3>1 DEF Replays
  <2> QED
    BY <1>1, <1>3, <2>4, <2>6 DEF ChainInv
<1>8. CASE Raise
  <2>1. UNCHANGED <<trace, orders>> /\ phase' = "raised" /\ capture' = Append(capture, "garbled")
    BY <1>8 DEF Raise
  <2>2. PICK file : file = GoldenFile
    OBVIOUS
  <2>3. file = GoldenFile' /\ file \in Seq(LineOf(Mark))
    BY <1>2, <1>4, <2>1, <2>2 DEF GoldenFile
  <2>4. "garbled" \in Kind
    BY DEF Kind
  <2>5. file = file \o Lines(Len(capture), Observed("garbled"), Mark)
    <3>1. Lines(Len(capture), << >>, Mark) = << >>
      BY DEF Lines
    <3>2. Observed("garbled") = << >>
      BY <2>4, BodiesTyped
    <3> QED
      BY <2>3, <3>1, <3>2, ConcatEmptySeq
  <2>6. PICK c, new : c = capture' /\ Follows(file, c, new)
    BY <1>4, <1>5, <2>1, <2>2, <2>4, <2>5, FollowsOn
  <2>7. Follows(GoldenFile, capture, new)'
    BY <1>2, <2>3, <2>6 DEF Follows, Observed, Mark
  <2>8. Produced' /\ Waits' /\ Replays'
    BY <1>2, <1>4, <2>1, <2>7 DEF Produced, Waits, Replays
  <2> QED
    BY <1>1, <1>3, <2>8 DEF ChainInv
<1>9. CASE Kill
  <2>1. phase' = "killed"
    BY <1>9 DEF Kill
  <2>2. Produced' /\ Waits' /\ Replays'
    BY <1>2, <2>1 DEF Produced, Waits, Replays
  <2> QED
    BY <1>1, <1>3, <2>2 DEF ChainInv
<1> QED
  BY <1>6, <1>7, <1>8, <1>9 DEF DumpNext

\* So does a step of the replay.
LEMMA ReplayChain ==
  ASSUME ChainInv, ReplayMessage \/ ReplayEnds \/ KillReplay
  PROVE  ChainInv'
<1>1. /\ UNCHANGED <<capture, batch, seq, stream, trace, orders, phase>>
      /\ UNCHANGED <<tool, max_report, golden, rtl>> /\ UNCHANGED dumpVars
      /\ phase # "reading" /\ replay = "running"
  BY DEF ReplayMessage, ReplayEnds, KillReplay, dumpVars, compareVars, arguments
<1>2. StreamInv'
  BY <1>1, StreamStep DEF ChainInv
<1>3. GoldenFile' = GoldenFile
  BY <1>1 DEF GoldenFile
<1>4. ASSUME NEW at, Follows(GoldenFile, capture, at)
      PROVE  Follows(GoldenFile, capture, at)'
  BY <1>1, <1>3, <1>4 DEF Follows, Observed, Mark
<1>5. Produced'
  BY <1>1, <1>4 DEF ChainInv, Produced
<1>6. HandedOver'
  BY <1>1 DEF ChainInv, HandedOver
<1>7. Waits'
  <2>1. faults' \in Nat
    BY DEF ChainInv, Waits, ReplayMessage, ReplayEnds, KillReplay
  <2> QED
    BY <1>1, <2>1 DEF ChainInv, Waits
<1>8. ASSUME phase = "complete", \A i \in DOMAIN capture : capture[i] # "empty"
      PROVE  /\ Messages = capture
             /\ replayed \in 0 .. Len(capture) /\ msgs_seen = replayed
             /\ written \in Seq(LineOf("lat"))
             /\ \E at : /\ Follows(GoldenFile, capture, at)
                        /\ CaughtUp(GoldenFile, at, replayed, written, faults)
  <2>1. Messages = capture
    BY <1>8, MessagesAre DEF ChainInv
  <2> QED
    BY <1>1, <1>8, <2>1 DEF ChainInv, Replays
<1>9. CASE KillReplay
  BY <1>2, <1>5, <1>6, <1>7, <1>9 DEF KillReplay, ChainInv, Replays
<1>10. CASE ReplayEnds
  <2>1. replay' = "complete" /\ replayed = Len(Messages)
        /\ UNCHANGED <<replayed, msgs_seen, written, faults>>
    BY <1>10 DEF ReplayEnds
  <2>2. ASSUME NEW at, CaughtUp(GoldenFile, at, replayed, written, faults)
        PROVE  CaughtUp(GoldenFile, at, replayed, written, faults)'
    BY <1>1, <1>3, <2>1, <2>2 DEF CaughtUp, Alike
  <2>3. Replays'
    BY <1>1, <1>4, <1>8, <2>1, <2>2 DEF Replays
  <2> QED
    BY <1>2, <1>5, <1>6, <1>7, <2>3 DEF ChainInv
<1>11. CASE ReplayMessage
  <2>1. SUFFICES Replays'
    BY <1>2, <1>5, <1>6, <1>7 DEF ChainInv
  <2>2. SUFFICES ASSUME phase = "complete", \A i \in DOMAIN capture : capture[i] # "empty"
                 PROVE  /\ replayed' \in 0 .. Len(capture) /\ msgs_seen' = replayed'
                        /\ written' \in Seq(LineOf("lat"))
                        /\ \E at : /\ Follows(GoldenFile, capture, at)'
                                   /\ CaughtUp(GoldenFile, at, replayed, written, faults)'
    BY <1>1, <1>11 DEF Replays, ReplayMessage
  <2>3. PICK at : /\ Follows(GoldenFile, capture, at)
                  /\ CaughtUp(GoldenFile, at, replayed, written, faults)
    BY <1>8, <2>2
  <2>4. /\ Messages = capture /\ replayed \in Nat /\ msgs_seen = replayed
        /\ replayed < Len(capture) /\ replayed' = replayed + 1 /\ Len(capture) \in Nat
        /\ written \in Seq(LineOf("lat")) /\ capture \in Seq(Kind) /\ faults \in Nat
    BY <1>8, <1>11, <2>2 DEF ReplayMessage, ChainInv, StreamInv, Waits
  <2>5. capture[replayed + 1] # "empty"
    <3>1. replayed + 1 \in DOMAIN capture
      BY <2>4
    <3> QED
      BY <2>2, <3>1
  <2>6. PICK lines : lines = Lines(replayed, Observed(capture[replayed + 1]), "lat")
    OBVIOUS
  <2>7. /\ msgs_seen' = msgs_seen + 1
        /\ \/ written' = written \o lines /\ faults' = faults
           \/ faults' = faults + 1 /\ \E wrong \in WithFault(lines) : written' = written \o wrong
    BY <1>11, <2>4, <2>5, <2>6 DEF ReplayMessage
  <2>8. PICK c, file, next, g :
          c = capture /\ file = GoldenFile /\ next = written' /\ g = faults'
    OBVIOUS
  <2>9. file \in Seq(LineOf(Mark))
    BY <2>2, <2>8, FileTyped DEF ChainInv, HandedOver
  <2>10. next \in Seq(LineOf("lat")) /\ CaughtUp(file, at, replayed + 1, next, g)
    BY <2>3, <2>4, <2>6, <2>7, <2>8, <2>9, CatchesUp
  <2>11. CaughtUp(GoldenFile, at, replayed, written, faults)'
    BY <1>3, <2>4, <2>8, <2>10 DEF CaughtUp, Alike
  <2>12. replayed' \in 0 .. Len(capture) /\ msgs_seen' = replayed'
    BY <2>4, <2>7
  <2> QED
    BY <1>4, <2>3, <2>8, <2>10, <2>11, <2>12
<1> QED
  BY <1>9, <1>10, <1>11

\* So does every step.
LEMMA ChainStep ==
  ASSUME ChainInv, [Next]_checkVars
  PROVE  ChainInv'
<1>1. CASE DumpNext /\ UNCHANGED <<replayVars, compareVars>>
  BY <1>1, DumpChain
<1>2. CASE ReplayMessage \/ ReplayEnds \/ KillReplay
  BY <1>2, ReplayChain
<1>3. CASE StartCompare
  <2>1. UNCHANGED <<dumpVars, replayVars, tool>>
    BY <1>3 DEF StartCompare
  <2>2. StreamInv' /\ Produced' /\ Waits' /\ Replays'
    BY <2>1, ChainStays
  <2>3. golden' = GoldenFile' /\ rtl' = written' /\ replay' # "running" /\ tool' = tool
    BY <1>3 DEF StartCompare, GoldenFile, dumpVars, replayVars
  <2>4. HandedOver'
    BY <2>3 DEF ChainInv, HandedOver
  <2> QED
    BY <2>2, <2>4 DEF ChainInv
<1>4. CASE Compare \/ UNCHANGED checkVars
  <2>1. UNCHANGED <<dumpVars, replayVars, arguments>>
    BY <1>4 DEF Compare, CompareTraces, CompareOrders, BothEnded, OneEnded, BadLine,
                Matches, Differs, LastDiffers, checkVars, compareVars
  <2>2. UNCHANGED <<tool, max_report, golden, rtl, trace, orders, written, replay>>
    BY <2>1 DEF arguments, dumpVars, replayVars
  <2>3. StreamInv' /\ Produced' /\ Waits' /\ Replays'
    BY <2>1, <2>2, ChainStays
  <2>4. HandedOver'
    BY <2>2 DEF ChainInv, HandedOver, GoldenFile
  <2> QED
    BY <2>3, <2>4 DEF ChainInv
<1> QED
  BY <1>1, <1>2, <1>3, <1>4 DEF Next

\* At first all files are empty.
LEMMA ChainStarts == Init => ChainInv
<1> SUFFICES ASSUME Init PROVE ChainInv
  OBVIOUS
<1>1. StreamInv
  BY StreamStarts DEF Init
<1>2. Waits /\ HandedOver /\ Replays
  BY DEF Init, DumpInit, Waits, HandedOver, Replays
<1>3. capture = << >> /\ trace = << >> /\ orders = << >>
      /\ tool \in {"compare_traces", "compare_orders"}
  BY DEF Init, DumpInit
<1>4. PICK at : at = [j \in 0 .. 0 |-> 0]
  OBVIOUS
<1>5. Follows(GoldenFile, capture, at)
  BY <1>3, <1>4 DEF Follows, GoldenFile
<1>6. Produced
  BY <1>3, <1>5 DEF Produced
<1> QED
  BY <1>1, <1>2, <1>6 DEF ChainInv

\* The inductive invariant of the chain from the capture to the files that are
\* compared, for captures, packets and numbers of faults of any size.
THEOREM ChainInvariant == Spec => []ChainInv
  BY ChainStarts, ChainStep, PTL DEF Spec

\* For every capture and packet size, the stream written packet by packet is the
\* one that wrap() makes at once (moldwrap.py lines 33-34), also when the dump
\* ends in an exception.
THEOREM StreamsAreWraps == Spec => []StreamIsWrap
<1>1. ChainInv => StreamIsWrap
  BY DEF ChainInv, StreamInv, StreamIsWrap
<1> QED
  BY <1>1, ChainInvariant, PTL

\* For every capture and number of faults: after a dump and a replay that ran to
\* their end, a comparator passes exactly when the hardware made no fault in what
\* it compares; no fault makes up for another.
THEOREM PassMeansNoFault == Spec => []EndToEnd
<1>1. ASSUME CheckInv, ChainInv PROVE EndToEnd
  <2>1. SUFFICES ASSUME returned, phase = "complete", replay = "complete",
                        Len(golden) >= min_matched,
                        \A i \in DOMAIN capture : capture[i] # "empty"
                 PROVE  Passed <=> faults = 0
    BY DEF EndToEnd
  <2>2. max_report # 0
    BY <1>1, <2>1 DEF CheckInv, LoopInv, CompareInit
  <2>3. golden = GoldenFile /\ rtl = written /\ tool \in {"compare_traces", "compare_orders"}
    BY <1>1, <2>2 DEF ChainInv, HandedOver
  <2>4. golden \in Seq(LineOf(Mark)) /\ rtl \in Seq(LineOf("lat"))
        /\ Len(golden) \in Nat /\ Len(rtl) \in Nat
    <3>1. GoldenFile \in Seq(LineOf(Mark))
      BY <1>1, <2>1, <2>3, FileTyped DEF ChainInv
    <3>2. written \in Seq(LineOf("lat"))
      BY <1>1, <2>1 DEF ChainInv, Replays
    <3> QED
      BY <2>3, <3>1, <3>2
  <2>5. PICK at : /\ Follows(GoldenFile, capture, at)
                  /\ CaughtUp(GoldenFile, at, replayed, written, faults)
    BY <1>1, <2>1 DEF ChainInv, Replays
  <2>6. at[replayed] = Len(golden)
    BY <1>1, <2>1, <2>3, <2>5 DEF ChainInv, Replays, Follows
  <2>7. faults \in Nat /\ mismatches \in Nat
    BY <1>1 DEF ChainInv, Waits, CheckInv, LoopInv
  <2>8. /\ faults = 0 => Len(rtl) = Len(golden) /\ \A i \in 1 .. Len(rtl) : Alike(golden[i], rtl[i])
        /\ faults > 0 /\ Len(rtl) = Len(golden) => \E i \in 1 .. Len(rtl) : ~Alike(golden[i], rtl[i])
    BY <2>3, <2>5, <2>6 DEF CaughtUp
  <2>9. ASSUME NEW i \in 1 .. Len(golden), i \in 1 .. Len(rtl)
        PROVE  Same(i) <=> Alike(golden[i], rtl[i])
    <3>1. PICK a, b : a = golden[i] /\ b = rtl[i]
      OBVIOUS
    <3>2. a \in LineOf(Mark) /\ b \in LineOf("lat")
      BY <2>4, <2>9, <3>1
    <3>3. Mark \in {"none", "lat", "decoded"}
      BY DEF Mark
    <3>4. a # Torn /\ b # Torn
      BY <3>2, <3>3, LineOfIsLine, TornAssumption
    <3>5. Normal(a) = Normal(b) <=> Alike(a, b)
      <4>1. CASE tool = "compare_traces"
        <5>1. NormalUpdate(a) = a
          BY <3>2, <4>1 DEF NormalUpdate, LineOf, Mark
        <5>2. NormalUpdate(b) = [b EXCEPT !.other = "none"]
          BY <3>2 DEF NormalUpdate, LineOf
        <5>3. a = [n |-> a.n, body |-> a.body, other |-> "none"]
          BY <3>2, <4>1 DEF LineOf, Mark
        <5>4. [b EXCEPT !.other = "none"] = [n |-> b.n, body |-> b.body, other |-> "none"]
          BY <3>2 DEF LineOf
        <5> QED
          BY <4>1, <5>1, <5>2, <5>3, <5>4 DEF Normal, Alike
      <4>2. CASE tool = "compare_orders"
        BY <4>2 DEF Normal, NormalOrder, Alike
      <4> QED
        BY <2>3, <4>1, <4>2
    <3> QED
      BY <3>1, <3>4, <3>5 DEF Same, Whole
  <2>10. CASE faults = 0
    <3>1. Len(rtl) = Len(golden) /\ \A i \in 1 .. Len(golden) : Same(i)
      BY <2>4, <2>8, <2>9, <2>10
    <3>2. mismatches = 0
      <4>1. SUFFICES ASSUME mismatches > 0 PROVE FALSE
        BY <2>7
      <4>2. PICK d : AgreeOn(d) /\ ~(Len(golden) = Len(rtl) /\ d = Len(golden))
        BY <1>1, <2>1, <4>1 DEF CheckInv, ResultInv
      <4>3. d \in 0 .. Len(golden) /\ d < Len(golden) /\ d < Len(rtl) /\ ~Same(d + 1)
        BY <2>4, <3>1, <4>2 DEF AgreeOn
      <4> QED
        BY <2>4, <3>1, <4>3
    <3>3. compared = Len(golden)
      BY <1>1, <2>1, <3>2 DEF CheckInv, ResultInv
    <3> QED
      BY <2>1, <2>10, <3>2, <3>3 DEF Passed
  <2>11. CASE faults > 0
    <3>1. SUFFICES ASSUME mismatches = 0 PROVE FALSE
      BY <2>7, <2>11 DEF Passed
    <3>2. /\ Len(golden) = Len(rtl) /\ compared = Len(golden)
          /\ \A i \in 1 .. compared : Same(i)
      BY <1>1, <2>1, <3>1 DEF CheckInv, LoopInv, ResultInv
    <3> QED
      BY <2>8, <2>9, <2>11, <3>2
  <2> QED
    BY <2>7, <2>10, <2>11
<1> QED
  BY <1>1, CheckInvariant, ChainInvariant, PTL

\* A line's ordinal is that of a record that writes such a line.
Placed(c, updates, frames) ==
  /\ \A i \in DOMAIN updates :
       updates[i].n < Len(c) /\ updates[i].body \in Range(Updates(c[updates[i].n + 1]))
  /\ \A i \in DOMAIN frames :
       frames[i].n < Len(c) /\ Frames(c[frames[i].n + 1]) # << >>

\* A message more keeps the lines of every message in their place.
LEMMA PlacedOn ==
  ASSUME NEW c \in Seq(Kind), NEW kind \in Kind,
         NEW updates \in Seq(LineOf("none")), NEW frames \in Seq(LineOf("decoded")),
         Placed(c, updates, frames)
  PROVE  Placed(Append(c, kind), updates \o Lines(Len(c), Updates(kind), "none"),
                frames \o Lines(Len(c), Frames(kind), "decoded"))
<1>1. PICK n, d, U, F, upd, ord :
        /\ n = Len(c) /\ d = Append(c, kind) /\ U = Updates(kind) /\ F = Frames(kind)
        /\ upd = Lines(n, U, "none") /\ ord = Lines(n, F, "decoded")
  OBVIOUS
<1>2. n \in Nat /\ Len(d) = n + 1 /\ (\A j \in 1 .. n : d[j] = c[j]) /\ d[n + 1] = kind
  BY <1>1
<1>3. U \in Seq(Body) /\ F \in Seq(Body) /\ Len(U) \in Nat /\ Len(F) \in Nat
  BY <1>1, BodiesTyped
<1>4. /\ upd \in Seq(LineOf("none")) /\ Len(upd) = Len(U)
      /\ \A i \in 1 .. Len(U) : upd[i] = [n |-> n, body |-> U[i], other |-> "none"]
      /\ ord \in Seq(LineOf("decoded")) /\ Len(ord) = Len(F)
      /\ \A i \in 1 .. Len(F) : ord[i] = [n |-> n, body |-> F[i], other |-> "decoded"]
  <2>1. ASSUME NEW bodies \in Seq(Body), NEW other
        PROVE  /\ Lines(n, bodies, other) \in Seq(LineOf(other))
               /\ Len(Lines(n, bodies, other)) = Len(bodies)
               /\ \A i \in 1 .. Len(bodies) :
                    Lines(n, bodies, other)[i] = [n |-> n, body |-> bodies[i], other |-> other]
    BY <1>2, LinesAre
  <2>2. PICK none, decoded : none = "none" /\ decoded = "decoded"
    OBVIOUS
  <2>3. /\ upd \in Seq(LineOf(none)) /\ Len(upd) = Len(U)
        /\ \A i \in 1 .. Len(U) : upd[i] = [n |-> n, body |-> U[i], other |-> none]
    BY <1>1, <1>3, <2>1, <2>2
  <2>4. /\ ord \in Seq(LineOf(decoded)) /\ Len(ord) = Len(F)
        /\ \A i \in 1 .. Len(F) : ord[i] = [n |-> n, body |-> F[i], other |-> decoded]
    BY <1>1, <1>3, <2>1, <2>2
  <2> QED
    BY <2>2, <2>3, <2>4
<1>5. ASSUME NEW S, NEW s \in Seq(S), NEW t \in Seq(S), NEW i \in DOMAIN (s \o t)
      PROVE  \/ i \in DOMAIN s /\ (s \o t)[i] = s[i]
             \/ \E j \in 1 .. Len(t) : (s \o t)[i] = t[j]
  <2>1. Len(s) \in Nat /\ Len(t) \in Nat /\ i \in 1 .. Len(s) + Len(t)
        /\ (s \o t)[i] = IF i <= Len(s) THEN s[i] ELSE t[i - Len(s)]
    BY <1>5, ConcatProperties
  <2>2. CASE i <= Len(s)
    BY <2>1, <2>2
  <2>3. CASE i > Len(s)
    <3>1. i - Len(s) \in 1 .. Len(t)
      BY <2>1, <2>3
    <3> QED
      BY <2>1, <2>3, <3>1
  <2> QED
    BY <2>1, <2>2, <2>3
<1>6. ASSUME NEW i \in DOMAIN (updates \o upd)
      PROVE  /\ (updates \o upd)[i].n < Len(d)
             /\ (updates \o upd)[i].body \in Range(Updates(d[(updates \o upd)[i].n + 1]))
  <2>1. PICK l : l = (updates \o upd)[i]
    OBVIOUS
  <2>2. \/ \E j \in DOMAIN updates : l = updates[j]
        \/ \E j \in 1 .. Len(upd) : l = upd[j]
    BY <1>4, <1>5, <1>6, <2>1
  <2>3. ASSUME NEW j \in DOMAIN updates, l = updates[j]
        PROVE  l.n < Len(d) /\ l.body \in Range(Updates(d[l.n + 1]))
    <3>1. l \in LineOf("none") /\ l.n < n /\ l.body \in Range(Updates(c[l.n + 1]))
      BY <1>1, <2>3 DEF Placed
    <3>2. l.n \in Nat
      BY <3>1 DEF LineOf
    <3>3. l.n + 1 \in 1 .. n /\ l.n < Len(d)
      BY <1>2, <3>1, <3>2
    <3> QED
      BY <1>2, <3>1, <3>3
  <2>4. ASSUME NEW j \in 1 .. Len(upd), l = upd[j]
        PROVE  l.n < Len(d) /\ l.body \in Range(Updates(d[l.n + 1]))
    <3>1. l = [n |-> n, body |-> U[j], other |-> "none"] /\ j \in 1 .. Len(U)
      BY <1>4, <2>4
    <3>2. l.n = n /\ l.body = U[j]
      BY <3>1
    <3>3. U[j] \in Range(U)
      BY <1>3, <3>1 DEF Range
    <3> QED
      BY <1>1, <1>2, <3>2, <3>3
  <2> QED
    BY <2>1, <2>2, <2>3, <2>4
<1>7. ASSUME NEW i \in DOMAIN (frames \o ord)
      PROVE  /\ (frames \o ord)[i].n < Len(d)
             /\ Frames(d[(frames \o ord)[i].n + 1]) # << >>
  <2>1. PICK l : l = (frames \o ord)[i]
    OBVIOUS
  <2>2. \/ \E j \in DOMAIN frames : l = frames[j]
        \/ \E j \in 1 .. Len(ord) : l = ord[j]
    BY <1>4, <1>5, <1>7, <2>1
  <2>3. ASSUME NEW j \in DOMAIN frames, l = frames[j]
        PROVE  l.n < Len(d) /\ Frames(d[l.n + 1]) # << >>
    <3>1. l \in LineOf("decoded") /\ l.n < n /\ Frames(c[l.n + 1]) # << >>
      BY <1>1, <2>3 DEF Placed
    <3>2. l.n \in Nat
      BY <3>1 DEF LineOf
    <3>3. l.n + 1 \in 1 .. n /\ l.n < Len(d)
      BY <1>2, <3>1, <3>2
    <3> QED
      BY <1>2, <3>1, <3>3
  <2>4. ASSUME NEW j \in 1 .. Len(ord), l = ord[j]
        PROVE  l.n < Len(d) /\ Frames(d[l.n + 1]) # << >>
    <3>1. l = [n |-> n, body |-> F[j], other |-> "decoded"] /\ j \in 1 .. Len(F)
      BY <1>4, <2>4
    <3>2. l.n = n
      BY <3>1
    <3>3. F # << >>
      BY <3>1
    <3> QED
      BY <1>1, <1>2, <3>2, <3>3
  <2> QED
    BY <2>1, <2>2, <2>3, <2>4
<1>8. Placed(d, updates \o upd, frames \o ord)
  BY <1>6, <1>7 DEF Placed
<1> QED
  BY <1>1, <1>8

\* So does every step.
LEMMA PlacedStep ==
  ASSUME ChainInv, phase # "killed" => Placed(capture, trace, orders), [Next]_checkVars
  PROVE  (phase # "killed" => Placed(capture, trace, orders))'
<1>1. ASSUME NEW kind \in Kind, ReadMessage(kind)
      PROVE  Placed(capture, trace, orders)'
  <2>1. PICK c, updates, frames : c = capture' /\ updates = trace' /\ frames = orders'
    OBVIOUS
  <2>2. /\ c = Append(capture, kind)
        /\ updates = trace \o Lines(Len(capture), Updates(kind), "none")
        /\ frames = orders \o Lines(Len(capture), Frames(kind), "decoded")
        /\ phase = "reading"
    BY <1>1, <2>1 DEF ReadMessage, Ordinal
  <2>3. Placed(c, updates, frames)
    BY <2>2, PlacedOn DEF ChainInv, Produced, StreamInv
  <2> QED
    BY <2>1, <2>3 DEF Placed
<1>2. CASE Raise
  <2>1. /\ capture' = Append(capture, "garbled") /\ trace' = trace /\ orders' = orders
        /\ phase = "reading" /\ capture \in Seq(Kind)
        /\ trace \in Seq(LineOf("none")) /\ orders \in Seq(LineOf("decoded"))
    BY <1>2 DEF Raise, ChainInv, StreamInv, Produced
  <2>2. PICK c, updates, frames : c = capture' /\ updates = trace' /\ frames = orders'
    OBVIOUS
  <2>3. "garbled" \in Kind /\ Updates("garbled") = << >> /\ Frames("garbled") = << >>
    BY DEF Kind, Updates, Frames
  <2>4. /\ Lines(Len(capture), << >>, "none") = << >>
        /\ Lines(Len(capture), << >>, "decoded") = << >>
    BY DEF Lines
  <2>5. /\ trace \o << >> = trace /\ orders \o << >> = orders
    BY <2>1, ConcatEmptySeq
  <2>6. Placed(Append(capture, "garbled"), trace \o Lines(Len(capture), Updates("garbled"), "none"),
               orders \o Lines(Len(capture), Frames("garbled"), "decoded"))
    BY <2>1, <2>3, PlacedOn
  <2>7. Placed(c, updates, frames)
    BY <2>1, <2>2, <2>3, <2>4, <2>5, <2>6
  <2> QED
    BY <2>2, <2>7 DEF Placed
<1>3. CASE Kill
  BY <1>3 DEF Kill
<1>4. CASE EndOfCapture
  BY <1>4 DEF EndOfCapture, Placed
<1>5. CASE UNCHANGED dumpVars
  BY <1>5 DEF dumpVars, Placed
<1>6. \/ DumpNext \/ UNCHANGED dumpVars
  BY DEF Next, ReplayMessage, ReplayEnds, KillReplay, StartCompare, Compare, checkVars
<1> QED
  BY <1>1, <1>2, <1>3, <1>4, <1>5, <1>6 DEF DumpNext

\* For every capture, limit and packet size: the ordinal of a line is the place in
\* the stream of the message that wrote it (dump_trace.py lines 11-15).
THEOREM OrdinalsAlwaysLineUp == Spec => []OrdinalsLineUp
<1>1. Init => (phase # "killed" => Placed(capture, trace, orders))
  BY DEF Init, DumpInit, Placed
<1>2. Spec => [](phase # "killed" => Placed(capture, trace, orders))
  BY <1>1, PlacedStep, ChainInvariant, PTL DEF Spec
<1>3. ASSUME ChainInv, phase # "killed" => Placed(capture, trace, orders)
      PROVE  OrdinalsLineUp
  <2>1. SUFFICES ASSUME phase # "killed"
                 PROVE  LET w == Messages \o batch IN
                        /\ \A i \in DOMAIN trace :
                             /\ trace[i].n < Len(w)
                             /\ trace[i].body \in Range(Updates(w[trace[i].n + 1]))
                        /\ \A i \in DOMAIN orders :
                             orders[i].n < Len(w) /\ Frames(w[orders[i].n + 1]) # << >>
    BY DEF OrdinalsLineUp
  <2>2. phase \in {"reading", "complete", "raised"}
    BY <1>3, <2>1 DEF ChainInv, Waits
  <2>3. Messages \o batch = capture
    BY <1>3, <2>1, <2>2, MessagesAre DEF ChainInv
  <2> QED
    BY <1>3, <2>1, <2>3 DEF Placed
<1> QED
  BY <1>2, <1>3, ChainInvariant, PTL

==============================================================================
