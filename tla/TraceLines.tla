----------------------------- MODULE TraceLines -----------------------------
(***************************************************************************)
(* The lines of a trace or of an order file.  A line is an ordinal, a body *)
(* (the levels, or the order frame) and the other field that its producer  *)
(* adds.  Torn is any line that is refused before it is compared: not      *)
(* JSON, a key missing, a list of the wrong length.                        *)
(***************************************************************************)
EXTENDS Integers, Sequences

CONSTANTS Torn

Line == [n : Nat, body : {"changed", "reduced", "added", "frame", "wrong"},
         other : {"none", "lat", "decoded"}]

ASSUME TornAssumption == Torn \notin Line

Lines(n, bodies, other) ==
  [i \in DOMAIN bodies |-> [n |-> n, body |-> bodies[i], other |-> other]]

\* What may be left of a file whose writer is killed.
Cuts(lines) ==
  {lines} \cup UNION {{SubSeq(lines, 1, k), Append(SubSeq(lines, 1, k), Torn)} :
                        k \in 0 .. Len(lines) - 1}
=============================================================================
