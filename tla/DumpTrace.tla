------------------------------ MODULE DumpTrace ------------------------------
(***************************************************************************)
(* model/dump_trace.py with the reader of model/binaryfile.py and the      *)
(* MoldWriter of model/moldwrap.py: one pass over a capture that writes    *)
(* the golden trace, the golden orders and the stream for the replay.      *)
(*                                                                         *)
(* A record of the capture is what it makes the golden model do: nothing   *)
(* because it is empty ("empty") or of no interest ("silent"), one update  *)
(* ("update"), an update and an accepted order ("trade"), two updates of a *)
(* REPLACE ("replace"), or an exception, since the symbol of an ADD is no  *)
(* ASCII ("garbled").                                                      *)
(***************************************************************************)
EXTENDS TraceLines, SequencesExt

CONSTANTS
  limit,                          \* --limit
  msgs_per_packet, start_seq,
  EndCount                        \* 0xFFFF

ASSUME DumpAssumption ==
  /\ limit \in Nat /\ start_seq \in Nat /\ EndCount \in Nat
  /\ msgs_per_packet \in 1 .. EndCount - 1

VARIABLES
  capture,                 \* the records read so far
  batch, seq, stream,      \* MoldWriter: _batch, seq, and the packets written
  trace, orders,           \* the lines of the two files
  phase                    \* reading, then how the dump came to its end

dumpVars == <<capture, batch, seq, stream, trace, orders, phase>>

Kind == {"empty", "silent", "update", "trade", "replace", "garbled"}

-----------------------------------------------------------------------------
(* The packets.                                                             *)

Packet(first, messages) == [seq |-> first, count |-> Len(messages), messages |-> messages]

EndOfSession(first) == [seq |-> first, count |-> EndCount, messages |-> << >>]

\* wrap(): the whole stream of a list of messages at once.
Wrap(messages) ==
  LET chunks == (Len(messages) + msgs_per_packet - 1) \div msgs_per_packet
      chunk(k) == SubSeq(messages, k * msgs_per_packet + 1,
                         IF (k + 1) * msgs_per_packet < Len(messages)
                         THEN (k + 1) * msgs_per_packet ELSE Len(messages))
  IN  [k \in 1 .. chunks |-> Packet(start_seq + (k - 1) * msgs_per_packet, chunk(k - 1))]
        \o <<EndOfSession(start_seq + Len(messages))>>

\* add(): the batch with the message, and the packet once it is full.
FullLate(filled) == Len(filled) > msgs_per_packet    \* mutant: one message too many
Full(filled) == Len(filled) = msgs_per_packet

Add(message) ==
  LET filled == Append(batch, message) IN
  IF Full(filled)
  THEN /\ stream' = Append(stream, Packet(seq, filled))
       /\ seq' = seq + Len(filled) /\ batch' = << >>
  ELSE batch' = filled /\ UNCHANGED <<stream, seq>>

\* close(): _flush, then the end of the session.
Close ==
  LET flushed == IF batch = << >> THEN << >> ELSE <<Packet(seq, batch)>> IN
  /\ stream' = stream \o flushed \o <<EndOfSession(seq + Len(batch))>>
  /\ seq' = seq + Len(batch) /\ batch' = << >>

-----------------------------------------------------------------------------
(* The lines a record makes the model write: what on_message returns, and   *)
(* the order that the strategy and the gate let through.                    *)

Updates(kind) ==
  CASE kind \in {"update", "trade"} -> <<"changed">>
    [] kind = "replace" -> <<"reduced", "added">>
    [] OTHER -> << >>

Frames(kind) == IF kind = "trade" THEN <<"frame">> ELSE << >>

\* enumerate(): the ordinal counts every record that was read.
OrdinalOfParsed ==                                   \* mutant: empty records are not counted
  Len(SelectSeq(capture, LAMBDA kind : kind # "empty"))
Ordinal == Len(capture)

-----------------------------------------------------------------------------
ReadMessage(kind) ==
  /\ phase = "reading" /\ Len(capture) < limit
  /\ kind # "garbled"
  /\ capture' = Append(capture, kind)
  /\ Add(kind)
  /\ trace' = trace \o Lines(Ordinal, Updates(kind), "none")
  /\ orders' = orders \o Lines(Ordinal, Frames(kind), "decoded")
  /\ UNCHANGED phase

\* read_messages stops at the limit, or where a record or its length is cut.
EndOfCapture ==
  /\ phase = "reading"
  /\ Close
  /\ phase' = "complete"
  /\ UNCHANGED <<capture, trace, orders>>

\* parse_message raises after the record went to the writer; finally closes:
\* Add, then Close.
Raise ==
  /\ phase = "reading" /\ Len(capture) < limit
  /\ capture' = Append(capture, "garbled")
  /\ LET filled == Append(batch, "garbled") IN
       /\ stream' = stream \o <<Packet(seq, filled), EndOfSession(seq + Len(filled))>>
       /\ seq' = seq + Len(filled) /\ batch' = << >>
  /\ phase' = "raised"
  /\ UNCHANGED <<trace, orders>>

\* No finally: the batch is lost, and of each file what was not written yet.
Kill ==
  /\ phase = "reading"
  /\ trace' \in Cuts(trace) /\ orders' \in Cuts(orders)
  /\ \E k \in 0 .. Len(stream) : stream' = SubSeq(stream, 1, k)
  /\ batch' = << >>
  /\ phase' = "killed"
  /\ UNCHANGED <<capture, seq>>

DumpInit ==
  /\ capture = << >> /\ batch = << >> /\ seq = start_seq /\ stream = << >>
  /\ trace = << >> /\ orders = << >> /\ phase = "reading"

DumpNext == (\E kind \in Kind : ReadMessage(kind)) \/ EndOfCapture \/ Raise \/ Kill

Messages == FlattenSeq([i \in DOMAIN stream |-> stream[i].messages])

-----------------------------------------------------------------------------
\* Whatever ends the dump but a kill, the stream it wrote packet by packet is
\* the one that wrap() makes of the same messages ("Same packet layout and
\* sequence arithmetic as wrap()", moldwrap.py lines 33-34).
StreamIsWrap == phase \in {"complete", "raised"} => stream = Wrap(capture)

\* The ordinal of a line is the place, in the stream, of the message it comes
\* from ("the two can never drift", dump_trace.py lines 11-15).
OrdinalsLineUp ==
  LET written == Messages \o batch IN
  phase # "killed" =>
    /\ \A i \in DOMAIN trace :
         /\ trace[i].n < Len(written)
         /\ trace[i].body \in Range(Updates(written[trace[i].n + 1]))
    /\ \A i \in DOMAIN orders :
         orders[i].n < Len(written) /\ Frames(written[orders[i].n + 1]) # << >>
=============================================================================
