----------------------------- MODULE MCMoldLink -----------------------------
(***************************************************************************)
(* The framer implements MoldStream, fed by the bytes of whole packets.    *)
(***************************************************************************)
EXTENDS MoldLink

CONSTANTS NoSeq

ASSUME NoSeqAssumption == NoSeq \notin Nat

MCPackets == {[seq |-> s, count |-> c, lens |-> l] :
                s \in 0 .. SeqWrap - 1, c \in Word,
                l \in UNION {[1 .. n -> Length] : n \in 0 .. msgs_per_packet}}

Remaining ==
  IF net = << >> \/ sent < SESSION_LEN + SEQ_LEN + COUNT_LEN THEN << >>
  ELSE SubSeq(Head(net).lens, EndedBy(Head(net), sent) + 1, Len(Head(net).lens))

Stream == INSTANCE MoldStream WITH
  Packet <- MCPackets,
  due <- IF first_pkt THEN NoSeq ELSE expected_seq,
  pending <- Remaining,
  message <- IF out_last THEN run ELSE 0,
  gaps <- gap_count, malformed <- malformed_count, ended <- end_of_session

\* Byte by byte, the framer hands on what the packets hold, with the counts
\* and the resynchronisation of the header comment (lines 8-19).
ImplementsStream == Stream!Spec
=============================================================================
