------------------------------ MODULE FeedPath ------------------------------
(***************************************************************************)
(* The byte side of rtl/itch_book_top.sv: mold_framer feeds itch_decoder,  *)
(* one byte a cycle at most, whatever the bytes are.  The decoder reads    *)
(* the framer's output registers, so it is one edge behind.                *)
(*                                                                         *)
(* since is a history variable: cycles since a message last left the       *)
(* decoder, or since reset.  ItchBookTop assumes what SpacingHolds shows.  *)
(***************************************************************************)
EXTENDS MoldFramer, ItchDecoder

CONSTANT MaxSince   \* bound: where since stops

ASSUME FeedPathAssumption ==
  /\ ItchByte = Byte
  /\ MaxSince \in Nat /\ MAX_LEN + LEN_LEN <= MaxSince

VARIABLE since

pathVars == <<framerVars, decoderVars, since>>

Framer == FramerIdle \/ \E b \in Byte : FramerByte(b)

Decoder == IF out_valid THEN DecoderByte(out_data, out_last) ELSE DecoderIdle

Edge ==
  /\ Framer /\ Decoder
  /\ since' = IF dec_valid' THEN 0 ELSE IF since < MaxSince THEN since + 1 ELSE since

ResetPath == FramerReset /\ DecoderReset /\ since' = 0

Init == FramerInit /\ DecoderInit /\ since = 0

Next == Edge \/ ResetPath

Spec == Init /\ [][Next]_pathVars

-----------------------------------------------------------------------------
TypeOK == FramerTypeOK /\ DecoderTypeOK /\ since \in 0 .. MaxSince

Saturated(n) == IF n < CNT_SAT THEN n ELSE CNT_SAT

\* The decoder holds bytes of the message the framer is in, and of no other:
\* as many as have passed through, less the one on the way; and outside a
\* message nothing, once the last byte has been taken.
AlignedWithFramer ==
  /\ state = "ST_MSG_BODY" =>
       Saturated(body_cnt) = IF out_valid THEN Counted(byte_cnt) ELSE byte_cnt
  /\ state # "ST_MSG_BODY" => IF out_valid THEN out_last ELSE byte_cnt = 0

\* Two messages leave the decoder at least as many cycles apart as the second
\* one has bytes on the wire, its length field included, also across packets,
\* gaps, messages that do not decode and zero-length ones.  The router, which
\* has no backpressure, relies on it (book_router.sv, lines 40-52).
SpacingHolds ==
  [][dec_valid' => \E t \in DOMAIN Layout :
       /\ Layout[t].kind = dec_msg'.kind
       /\ since + 1 >= Layout[t].len + LEN_LEN]_pathVars
=============================================================================
