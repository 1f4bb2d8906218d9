--------------------------- MODULE FeedPathProofs ---------------------------
(***************************************************************************)
(* Proofs about FeedPath: the decoder stays aligned with the framer, and   *)
(* the messages that leave it are spaced.                                  *)
(***************************************************************************)
EXTENDS DecoderFeed, SequenceTheorems, TLAPS

\* The registers the argument is about: counters, flags, states.
Counters ==
  /\ hdr_cnt \in Nat /\ body_cnt \in Nat
  /\ byte_cnt \in 0 .. CNT_SAT
  /\ since \in 0 .. MaxSince

Flags ==
  /\ state \in {"ST_SESSION", "ST_SEQ", "ST_COUNT", "ST_MSG_LEN", "ST_MSG_BODY"}
  /\ out_valid \in BOOLEAN /\ out_last \in BOOLEAN

Control == Counters /\ Flags

\* Between messages the framer has not begun the next record's length field,
\* and no field is under way inside a message.
AtRest ==
  /\ out_last => out_valid /\ state # "ST_MSG_BODY" /\ hdr_cnt = 0
  /\ state = "ST_MSG_BODY" => hdr_cnt = 0

\* The bytes of the record under way.
Progress ==
  IF state = "ST_MSG_LEN" THEN hdr_cnt
  ELSE IF state = "ST_MSG_BODY" THEN LEN_LEN + body_cnt ELSE 0

\* Each took a cycle, and so did those of the record the decoder finishes.
Paced ==
  since = MaxSince \/
    /\ Progress <= since + 1
    /\ out_valid => byte_cnt + 1 + LEN_LEN <= since + 1

PathInv == Control /\ AtRest /\ Paced /\ AlignedWithFramer

\* The two limits are numbers.
LEMMA Bounds == CNT_SAT \in Nat \ {0} /\ MaxSince \in Nat
  BY DecoderAssumption, FeedPathAssumption DEF LEN_LEN

\* Registers at their reset values satisfy the invariant.
LEMMA Starts ==
  ASSUME state = "ST_SESSION", hdr_cnt = 0, body_cnt = 0, byte_cnt = 0, since = 0,
         out_valid = FALSE, out_last = FALSE
  PROVE  PathInv
<1>1. Control
  <2>1. Counters
    BY Bounds DEF Counters
  <2> QED BY <2>1 DEF Control, Flags
<1>2. AtRest /\ AlignedWithFramer
  BY DEF AtRest, AlignedWithFramer
<1>3. Progress <= since + 1
  BY DEF Progress
<1>4. Paced
  BY <1>3 DEF Paced
<1> QED BY <1>1, <1>2, <1>4 DEF PathInv

\* The framer and the decoder start with nothing under way.
LEMMA PathInit == Init => PathInv
  BY Starts DEF Init, FramerInit, DecoderInit

\* What an edge of the decoder does to its byte counter.
LEMMA DecoderStep ==
  ASSUME Decoder, Control, AtRest
  PROVE  /\ byte_cnt' = IF ~out_valid THEN byte_cnt
                        ELSE IF out_last THEN 0 ELSE Counted(byte_cnt)
         /\ dec_valid' \in BOOLEAN
         /\ dec_valid' => /\ out_valid /\ out_last
                          /\ \E t \in DOMAIN Layout :
                               Layout[t].kind = dec_msg'.kind /\ Layout[t].len = Counted(byte_cnt)
<1>1. CASE ~out_valid
  BY <1>1 DEF Decoder, DecoderIdle
<1>2. CASE out_valid /\ ~out_last
  BY <1>2 DEF Decoder, DecoderByte, Store
<1>3. CASE out_valid /\ out_last
  <2>1. Emits(out_data) \/ Rejects(out_data)
    BY <1>3 DEF Decoder, DecoderByte
  <2>2. CASE Emits(out_data)
    BY <1>3, <2>2 DEF Emits, DecOk, Known, Decode, Decoded, Control, Counters, Flags
  <2>3. CASE Rejects(out_data)
    BY <1>3, <2>3 DEF Rejects
  <2> QED BY <2>1, <2>2, <2>3
<1> QED BY <1>1, <1>2, <1>3 DEF Control, Counters, Flags

-----------------------------------------------------------------------------
(* What an edge does to the framer's control registers.                     *)

Silent == ~out_valid' /\ ~out_last'

Rests == Silent /\ UNCHANGED <<state, hdr_cnt, body_cnt>>

FieldByte ==
  /\ Silent /\ state # "ST_MSG_BODY"
  /\ state' \in {"ST_SESSION", "ST_SEQ", "ST_COUNT", "ST_MSG_LEN"}
  /\ \/ hdr_cnt' = 0
     \/ state' = state /\ hdr_cnt' = hdr_cnt + 1
  /\ UNCHANGED body_cnt

MessageBegins ==
  /\ Silent /\ state = "ST_MSG_LEN" /\ hdr_cnt = 1
  /\ state' = "ST_MSG_BODY" /\ hdr_cnt' = 0 /\ body_cnt' = 0

MessageByte ==
  /\ out_valid' /\ ~out_last'
  /\ state = "ST_MSG_BODY" /\ state' = state
  /\ hdr_cnt' = hdr_cnt /\ body_cnt' = body_cnt + 1

MessageEnds ==
  /\ out_valid' /\ out_last'
  /\ state = "ST_MSG_BODY" /\ state' \in {"ST_SESSION", "ST_MSG_LEN"}
  /\ hdr_cnt' = hdr_cnt /\ body_cnt' = 0

\* Every byte of the stream is one of these, and so is an edge without one.
LEMMA FramerStep ==
  ASSUME Framer, Control
  PROVE  /\ out_valid' \in BOOLEAN /\ out_last' \in BOOLEAN
         /\ Rests \/ FieldByte \/ MessageBegins \/ MessageByte \/ MessageEnds
<1>1. CASE FramerIdle
  BY <1>1 DEF FramerIdle, NoOutput, Rests, Silent
<1>2. ASSUME NEW b \in Byte, FramerByte(b)
      PROVE  /\ out_valid' \in BOOLEAN /\ out_last' \in BOOLEAN
             /\ FieldByte \/ MessageBegins \/ MessageByte \/ MessageEnds
  <2> USE DEF FieldByte, Silent, NoOutput
  <2>1. CASE SessionByte(b)
    BY <2>1 DEF SessionByte, NextByte
  <2>2. CASE SeqByte(b)
    BY <2>2 DEF SeqByte, NextByte
  <2>3. CASE CountByte(b)
    BY <2>3 DEF CountByte, NextByte
  <2>4. CASE HeaderDone(b)
    BY <2>4 DEF HeaderDone
  <2>5. CASE LengthByte(b)
    BY <2>5 DEF LengthByte, NextByte
  <2>6. CASE ZeroLength(b)
    BY <2>6 DEF ZeroLength, AfterMessage
  <2>7. CASE LengthDone(b)
    <3>1. hdr_cnt = 1
      BY <2>7 DEF LengthDone, Ends, LEN_LEN, Control, Counters, Flags
    <3> QED BY <2>7, <3>1 DEF LengthDone, MessageBegins
  <2>8. CASE BodyByte(b)
    BY <2>8 DEF BodyByte, MessageByte
  <2>9. CASE BodyDone(b)
    BY <2>9 DEF BodyDone, MessageEnds, AfterMessage
  <2> QED
    BY <1>2, <2>1, <2>2, <2>3, <2>4, <2>5, <2>6, <2>7, <2>8, <2>9 DEF FramerByte
<1> QED BY <1>1, <1>2 DEF Framer

-----------------------------------------------------------------------------
\* An edge that ends a record has taken as many cycles as the record has bytes.
LEMMA PathSpaced ==
  ASSUME PathInv, Edge, dec_valid'
  PROVE  \E t \in DOMAIN Layout :
           /\ Layout[t].kind = dec_msg'.kind
           /\ since + 1 >= Layout[t].len + LEN_LEN
<1>1. out_valid /\ \E t \in DOMAIN Layout :
        Layout[t].kind = dec_msg'.kind /\ Layout[t].len = Counted(byte_cnt)
  BY DecoderStep DEF Edge, PathInv
<1>2. PICK t \in DOMAIN Layout :
        Layout[t].kind = dec_msg'.kind /\ Layout[t].len = Counted(byte_cnt)
  BY <1>1
<1>3. /\ Layout[t].len \in Nat /\ Layout[t].len <= MAX_LEN /\ Layout[t].len < CNT_SAT
      /\ MAX_LEN \in Nat /\ CNT_SAT \in Nat
  BY DecoderAssumption
<1>4. byte_cnt \in Nat /\ Layout[t].len = byte_cnt + 1
  BY <1>2, <1>3 DEF Counted, PathInv, Control, Counters, Flags
<1>5. since + 1 >= Layout[t].len + LEN_LEN
  BY <1>1, <1>3, <1>4, FeedPathAssumption DEF PathInv, Paced, Control, Counters, Flags, LEN_LEN
<1> QED BY <1>2, <1>5

\* No edge, whatever the byte, breaks the invariant.
LEMMA PathNext == PathInv /\ [Next]_pathVars => PathInv'
<1> SUFFICES ASSUME PathInv, [Next]_pathVars PROVE PathInv'
  OBVIOUS
<1>1. CASE UNCHANGED pathVars
  BY <1>1 DEF pathVars, framerVars, decoderVars, header, PathInv, Control, Counters, Flags,
              AtRest, Progress,
              Paced, AlignedWithFramer, Saturated, Counted
<1>2. CASE ResetPath
  <2>1. /\ state' = "ST_SESSION" /\ hdr_cnt' = 0 /\ body_cnt' = 0 /\ byte_cnt' = 0
        /\ since' = 0 /\ out_valid' = FALSE /\ out_last' = FALSE
    BY <1>2 DEF ResetPath, FramerReset, DecoderReset, NoOutput
  <2>2. Control'
    <3>1. Counters'
      BY <2>1, Bounds DEF Counters
    <3> QED BY <2>1, <3>1 DEF Control, Flags
  <2>3. AtRest' /\ AlignedWithFramer'
    BY <2>1 DEF AtRest, AlignedWithFramer
  <2>4. Progress' <= since' + 1
    BY <2>1 DEF Progress
  <2>5. Paced'
    BY <2>1, <2>4 DEF Paced
  <2> QED BY <2>2, <2>3, <2>5 DEF PathInv
<1>3. CASE Edge
  <2>1. /\ out_valid' \in BOOLEAN /\ out_last' \in BOOLEAN
        /\ Rests \/ FieldByte \/ MessageBegins \/ MessageByte \/ MessageEnds
    BY <1>3, FramerStep DEF Edge, PathInv
  <2>2. /\ byte_cnt' = IF ~out_valid THEN byte_cnt
                       ELSE IF out_last THEN 0 ELSE Counted(byte_cnt)
        /\ dec_valid' \in BOOLEAN
        /\ dec_valid' => out_valid /\ out_last
    BY <1>3, DecoderStep DEF Edge, PathInv
  <2>3. since' = IF dec_valid' THEN 0 ELSE IF since < MaxSince THEN since + 1 ELSE since
    BY <1>3 DEF Edge
  <2>4. CNT_SAT \in Nat \ {0} /\ MaxSince \in Nat
    BY Bounds
  <2>5. byte_cnt' \in 0 .. CNT_SAT /\ byte_cnt' <= byte_cnt + 1 /\ since' \in 0 .. MaxSince
    BY <2>2, <2>3, <2>4 DEF PathInv, Control, Counters, Flags, Counted
  <2>6. Control' /\ AtRest'
    BY <2>1, <2>5 DEF PathInv, Control, Counters, Flags, AtRest, Rests, FieldByte,
                      MessageBegins, MessageByte,
                      MessageEnds, Silent
  <2>7. AlignedWithFramer'
    BY <2>1, <2>2, <2>4
       DEF PathInv, Control, Counters, Flags, AtRest, AlignedWithFramer, Saturated, Counted,
           Rests, FieldByte,
           MessageBegins, MessageByte, MessageEnds, Silent
  <2>8. Progress <= since + 1 \/ since = MaxSince
    BY DEF PathInv, Paced
  <2>9. Paced'
    <3>1. CASE dec_valid'
      \* The last message has just left; at most one byte of the next was taken.
      <4>1. since' = 0 /\ out_last /\ state # "ST_MSG_BODY" /\ hdr_cnt = 0
        BY <3>1, <2>2, <2>3 DEF PathInv, AtRest
      <4>2. ~out_valid' /\ Progress' <= 1
        BY <4>1, <2>1 DEF Rests, FieldByte, MessageBegins, MessageByte, MessageEnds, Silent,
                          Progress
      <4> QED BY <4>1, <4>2 DEF Paced
    <3>2. CASE ~dec_valid'
      <4>1. since = MaxSince => since' = MaxSince
        BY <3>2, <2>3, <2>4
      <4>2. since # MaxSince => since' = since + 1
        BY <3>2, <2>3, <2>4 DEF PathInv, Control, Counters, Flags
      <4>3. Progress' <= Progress + 1 /\ Progress \in Nat /\ Progress' \in Nat
        <5>1. Progress \in Nat
          BY DEF PathInv, Control, Counters, Progress, LEN_LEN
        <5>2. CASE Rests
          BY <5>1, <5>2 DEF Rests, Progress
        <5>3. CASE FieldByte
          BY <5>3 DEF FieldByte, Progress, PathInv, Control, Counters, Flags
        <5>4. CASE MessageBegins
          BY <5>4 DEF MessageBegins, Progress, LEN_LEN
        <5>5. CASE MessageByte
          BY <5>5 DEF MessageByte, Progress, LEN_LEN, PathInv, Control, Counters, Flags
        <5>6. CASE MessageEnds
          BY <5>6 DEF MessageEnds, Progress, LEN_LEN, PathInv, Control, Counters, Flags, AtRest
        <5> QED BY <2>1, <5>1, <5>2, <5>3, <5>4, <5>5, <5>6
      <4>4. out_valid' => byte_cnt' <= body_cnt /\ Progress = LEN_LEN + body_cnt
        BY <2>1, <2>2, <2>4
           DEF PathInv, Control, Counters, Flags, AtRest, AlignedWithFramer, Saturated, Counted,
               Rests, FieldByte,
               MessageBegins, MessageByte, MessageEnds, Silent, Progress
      <4>5. CASE since = MaxSince
        BY <4>1, <4>5 DEF Paced
      <4>6. CASE since # MaxSince
        <5>1. Progress' <= since' + 1 /\ Progress <= since'
          BY <4>2, <4>3, <4>6, <2>8 DEF PathInv, Control, Counters, Flags
        <5>2. out_valid' => byte_cnt' + 1 + LEN_LEN <= since' + 1
          <6> DEFINE taken == IF ~out_valid THEN byte_cnt
                              ELSE IF out_last THEN 0 ELSE Counted(byte_cnt)
          <6>1. SUFFICES ASSUME out_valid' PROVE byte_cnt' + 1 + LEN_LEN <= since' + 1
            OBVIOUS
          <6>2. taken <= body_cnt /\ LEN_LEN + body_cnt <= since + 1
            BY <2>2, <2>8, <4>4, <4>6, <6>1
          <6>3. taken \in Int /\ body_cnt \in Int /\ since \in Int
            BY <2>4 DEF PathInv, Control, Counters, Counted
          <6> HIDE DEF taken
          <6>4. taken + 1 + LEN_LEN <= since + 1 + 1
            BY <6>2, <6>3 DEF LEN_LEN
          <6> QED BY <2>2, <4>2, <4>6, <6>4 DEF taken
        <5> QED BY <5>1, <5>2 DEF Paced
      <4> QED BY <4>5, <4>6
    <3> QED BY <3>1, <3>2, <2>2
  <2> QED BY <2>6, <2>7, <2>9 DEF PathInv
<1> QED BY <1>1, <1>2, <1>3 DEF Next

\* The inductive invariant: the decoder is in step, and since is at least the
\* bytes of the record under way.
THEOREM PathInvariant == Spec => []PathInv
  BY PathInit, PathNext, PTL DEF Spec

\* The decoder's byte counter follows the framer's, for messages of any length,
\* in every packet, whatever the bytes.
THEOREM DecoderAligned == Spec => []AlignedWithFramer
  BY PathInvariant, PTL DEF PathInv

\* The spacing that book_router.sv takes for granted (lines 40-52, 394-402).
THEOREM MessagesSpaced == Spec => SpacingHolds
<1>1. PathInv /\ [Next]_pathVars =>
        [dec_valid' => \E t \in DOMAIN Layout :
           /\ Layout[t].kind = dec_msg'.kind
           /\ since + 1 >= Layout[t].len + LEN_LEN]_pathVars
  <2> SUFFICES ASSUME PathInv, Next, dec_valid'
               PROVE  \E t \in DOMAIN Layout :
                        /\ Layout[t].kind = dec_msg'.kind
                        /\ since + 1 >= Layout[t].len + LEN_LEN
    OBVIOUS
  <2>1. CASE Edge
    BY <2>1, PathSpaced
  <2>2. CASE ResetPath
    BY <2>2 DEF ResetPath, DecoderReset
  <2> QED BY <2>1, <2>2 DEF Next
<1> QED BY <1>1, PathInvariant, PTL DEF Spec, SpacingHolds
-----------------------------------------------------------------------------
(* Next to the parser.                                                      *)

\* The bytes of the message as the decoder keeps them.
Kept(bytes) == [i \in BufIdx |-> IF i < Len(bytes) THEN bytes[i + 1] ELSE 0]

\* The decoder holds what has arrived of the message, as far as its buffer and
\* its counter go.
HeldInv ==
  /\ payload \in Seq(ItchByte)
  /\ byte_cnt = Saturated(Len(payload))
  /\ msg_buf = Kept(payload)
  /\ out_valid \in BOOLEAN /\ out_last \in BOOLEAN
  /\ out_valid => out_data \in ItchByte

FeedInv == HeldInv /\ DecodesLikeModel

\* The limits of the decoder and of the messages it knows.
LEMMA Limits ==
  /\ 0 \in ItchByte /\ ItchByte \subseteq Nat /\ ItchByte = Byte
  /\ MAX_LEN \in Nat /\ CNT_SAT \in Nat /\ MAX_LEN < CNT_SAT /\ HDR_LEN \in Nat \ {0}
  /\ \A t \in DOMAIN Layout :
       /\ Layout[t].len \in Nat /\ Layout[t].len <= MAX_LEN
       /\ Fields[Layout[t].kind] \in Nat
       /\ HDR_LEN + Fields[Layout[t].kind] <= Layout[t].len
       /\ Layout[t].kind # "none" /\ Layout[t].kind # "raised"
  BY DecoderAssumption, FeedPathAssumption

\* The buffer and the counter after the next byte are those of the message
\* with it.
LEMMA TakesByte ==
  ASSUME HeldInv, out_valid
  PROVE  /\ Recorded \in Seq(ItchByte) /\ Len(Recorded) = Len(payload) + 1
         /\ View(out_data) = Kept(Recorded)
         /\ Counted(byte_cnt) = Saturated(Len(Recorded))
<1>1. PICK n, b : n = Len(payload) /\ b = (IF n < MAX_LEN THEN out_data ELSE 0)
  OBVIOUS
<1>2. n \in Nat /\ b \in ItchByte /\ payload \in Seq(ItchByte) /\ Recorded = Append(payload, b)
  BY <1>1, Limits DEF HeldInv, Recorded
<1>3. /\ Recorded \in Seq(ItchByte) /\ Len(Recorded) = n + 1
      /\ \A i \in 1 .. n : Recorded[i] = payload[i]
      /\ Recorded[n + 1] = b
  BY <1>1, <1>2
<1>4. byte_cnt = IF n < CNT_SAT THEN n ELSE CNT_SAT
  BY <1>1 DEF HeldInv, Saturated
<1>5. Counted(byte_cnt) = IF n + 1 < CNT_SAT THEN n + 1 ELSE CNT_SAT
  BY <1>2, <1>4, Limits DEF Counted
<1>6. Counted(byte_cnt) = Saturated(Len(Recorded))
  BY <1>3, <1>5 DEF Saturated
<1>7. msg_buf = Kept(payload)
  BY DEF HeldInv
<1>8. byte_cnt < MAX_LEN <=> n < MAX_LEN
  BY <1>2, <1>4, Limits
<1>9. CASE n < MAX_LEN
  <2>1. byte_cnt = n /\ b = out_data
    BY <1>1, <1>2, <1>4, <1>9, Limits
  <2>2. View(out_data) = [msg_buf EXCEPT ![n] = b]
    BY <1>9, <2>1 DEF View
  <2>3. ASSUME NEW i \in BufIdx
        PROVE  View(out_data)[i] = IF i < n + 1 THEN Recorded[i + 1] ELSE 0
    <3>1. i \in Nat /\ msg_buf[i] = (IF i < n THEN payload[i + 1] ELSE 0)
      BY <1>1, <1>7, Limits DEF Kept, BufIdx
    <3>2. CASE i < n
      BY <1>2, <1>3, <1>7, <2>2, <3>1, <3>2 DEF Kept
    <3>3. CASE i = n
      BY <1>2, <1>3, <1>7, <2>2, <3>1, <3>3 DEF Kept
    <3>4. CASE i > n
      BY <1>2, <1>3, <1>7, <2>2, <3>1, <3>4 DEF Kept
    <3> QED
      <4>1. i < n \/ i = n \/ i > n
        BY <1>2, <3>1
      <4> QED
        BY <3>2, <3>3, <3>4, <4>1
  <2>4. View(out_data) = [i \in BufIdx |-> View(out_data)[i]]
    BY <1>7, <2>2 DEF Kept
  <2> QED
    BY <1>1, <1>3, <1>6, <2>3, <2>4 DEF Kept
<1>10. CASE ~(n < MAX_LEN)
  <2>1. View(out_data) = Kept(payload)
    BY <1>7, <1>8, <1>10 DEF View
  <2>2. ASSUME NEW i \in BufIdx
        PROVE  /\ (IF i < n THEN payload[i + 1] ELSE 0)
                  = (IF i < n + 1 THEN Recorded[i + 1] ELSE 0)
    BY <1>2, <1>3, <1>10, Limits DEF BufIdx
  <2> QED
    BY <1>1, <1>3, <1>6, <2>1, <2>2 DEF Kept
<1> QED
  BY <1>9, <1>10

\* What the decoder hands on goes with what the parser makes of the message.
Agrees(message, answer) ==
  IF answer = Raised THEN message.kind = "ADD" ELSE message = BookReads(answer)

\* The last byte of a message decodes as the parser has it, if it has it.
LEMMA DecodesAsParsed ==
  ASSUME HeldInv, out_valid
  PROVE  /\ DecOk(out_data) <=> ParseMessage(Recorded) # NotDecoded
         /\ DecOk(out_data) => Agrees(Decode(out_data), ParseMessage(Recorded))
<1>1. PICK n, all : n = Len(payload) /\ all = Recorded
  OBVIOUS
<1>2. /\ n \in Nat /\ all \in Seq(ItchByte) /\ Len(all) = n + 1 /\ all # << >>
      /\ View(out_data) = Kept(all)
      /\ Counted(byte_cnt) = IF n + 1 < CNT_SAT THEN n + 1 ELSE CNT_SAT
  BY <1>1, TakesByte DEF HeldInv, Saturated
<1>3. CASE DOMAIN Layout = {}
  BY <1>1, <1>3 DEF DecOk, Known, ParseMessage
<1>4. CASE DOMAIN Layout # {}
  <2>1. 0 \in BufIdx
    BY <1>4, Limits DEF BufIdx
  <2>2. View(out_data)[0] = all[1]
    BY <1>2, <2>1 DEF Kept
  <2>3. CASE all[1] \notin DOMAIN Layout
    BY <1>1, <1>2, <2>2, <2>3 DEF DecOk, Known, ParseMessage
  <2>4. CASE all[1] \in DOMAIN Layout
    <3>1. PICK t, kind, len, reads :
            t = all[1] /\ kind = Layout[t].kind /\ len = Layout[t].len /\ reads = Fields[kind]
      OBVIOUS
    <3>2. /\ len \in Nat /\ len <= MAX_LEN /\ reads \in Nat /\ HDR_LEN + reads <= len
          /\ kind # "none" /\ kind # "raised"
      BY <2>4, <3>1, Limits
    <3>3. DecOk(out_data) <=> len = n + 1
      BY <1>2, <2>2, <2>4, <3>1, <3>2, Limits DEF DecOk, Known
    <3>4. CASE len # n + 1
      BY <1>1, <1>2, <2>4, <3>1, <3>3, <3>4 DEF ParseMessage
    <3>5. CASE len = n + 1
      <4>1. PICK part : part = SubSeq(all, HDR_LEN + 1, HDR_LEN + reads)
        OBVIOUS
      <4>2. ParseMessage(Recorded) = IF Unreadable(kind, part) THEN Raised ELSE Decoded(kind, part)
        BY <1>1, <1>2, <2>4, <3>1, <3>5, <4>1 DEF ParseMessage
      <4>3. /\ part \in Seq(ItchByte) /\ Len(part) = reads
            /\ \A i \in 1 .. reads : part[i] = all[HDR_LEN + i]
        <5>1. \A i \in HDR_LEN + 1 .. HDR_LEN + reads : all[i] \in ItchByte
          BY <1>2, <3>2, <3>5, Limits
        <5>2. /\ part \in Seq(ItchByte)
              /\ Len(part) = IF HDR_LEN + 1 <= HDR_LEN + reads
                             THEN (HDR_LEN + reads) - (HDR_LEN + 1) + 1 ELSE 0
              /\ \A i \in 1 .. (HDR_LEN + reads) - (HDR_LEN + 1) + 1 :
                   part[i] = all[(HDR_LEN + 1) + i - 1]
          BY <3>2, <4>1, <5>1, Limits, SubSeqProperties
        <5>3. (HDR_LEN + reads) - (HDR_LEN + 1) + 1 = reads
              /\ \A i \in 1 .. reads : (HDR_LEN + 1) + i - 1 = HDR_LEN + i
          BY <3>2, Limits
        <5> QED
          BY <3>2, <5>2, <5>3, Limits
      <4>4. PICK body : body = [i \in 1 .. reads |-> View(out_data)[HDR_LEN + i - 1]]
        OBVIOUS
      <4>5. ASSUME NEW i \in 1 .. reads PROVE body[i] = all[HDR_LEN + i]
        <5>1. /\ HDR_LEN + i - 1 \in BufIdx /\ HDR_LEN + i - 1 < n + 1
              /\ (HDR_LEN + i - 1) + 1 = HDR_LEN + i
          BY <1>2, <3>2, <3>5, Limits DEF BufIdx
        <5>2. View(out_data)[HDR_LEN + i - 1] = all[(HDR_LEN + i - 1) + 1]
          BY <1>2, <5>1 DEF Kept
        <5> QED
          BY <4>4, <5>1, <5>2
      <4>6. body = part
        <5>1. DOMAIN body = 1 .. reads /\ DOMAIN part = 1 .. reads
          BY <3>2, <4>3, <4>4
        <5> QED
          BY <4>3, <4>4, <4>5, <5>1
      <4>7. Decode(out_data) =
              Decoded(kind, IF kind = "ADD" THEN [part EXCEPT ![SIDE_AT] = SideBit(@)] ELSE part)
        <5>1. kind = Layout[View(out_data)[0]].kind /\ reads = Fields[kind]
          BY <2>2, <3>1
        <5>2. Decode(out_data) =
                Decoded(kind, IF kind = "ADD" THEN [body EXCEPT ![SIDE_AT] = SideBit(@)] ELSE body)
          BY <4>4, <5>1, Zenon DEF Decode
        <5> QED
          BY <4>6, <5>2
      <4>8. Decoded(kind, part) # NotDecoded /\ Decoded(kind, part) # Raised /\ Raised # NotDecoded
        BY <3>2 DEF Decoded, NotDecoded, Raised
      <4>9. CASE Unreadable(kind, part)
        <5>1. kind = "ADD" /\ ParseMessage(Recorded) = Raised
          BY <4>2, <4>9 DEF Unreadable
        <5>2. Decode(out_data).kind = "ADD"
          BY <4>7, <5>1 DEF Decoded
        <5> QED
          BY <3>3, <3>5, <4>8, <5>1, <5>2 DEF Agrees
      <4>10. CASE ~Unreadable(kind, part)
        <5>1. ParseMessage(Recorded) = Decoded(kind, part)
          BY <4>2, <4>10
        <5>2. BookReads(Decoded(kind, part)) = Decode(out_data)
          <6>1. CASE kind = "ADD"
            <7>1. PICK read : read = [part EXCEPT ![SIDE_AT] = SideBit(part[SIDE_AT])]
              OBVIOUS
            <7>2. Decode(out_data) = Decoded(kind, read)
              BY <4>7, <6>1, <7>1
            <7>3. PICK m : m = Decoded(kind, part)
              OBVIOUS
            <7>4. m.kind = "ADD" /\ m.body = part
              BY <6>1, <7>3 DEF Decoded
            <7>5. read = [m.body EXCEPT ![SIDE_AT] = IF m.body[SIDE_AT] = SIDE_BUY THEN 1 ELSE 0]
              BY <7>1, <7>4 DEF SideBit
            <7>6. BookReads(m) = Decoded("ADD", read)
              BY <7>4, <7>5 DEF BookReads
            <7> QED
              BY <6>1, <7>2, <7>3, <7>6
          <6>2. CASE kind # "ADD"
            BY <4>7, <6>2 DEF BookReads, Decoded
          <6> QED
            BY <6>1, <6>2
        <5> QED
          BY <3>3, <3>5, <4>8, <5>1, <5>2 DEF Agrees
      <4> QED
        BY <4>9, <4>10
    <3> QED
      BY <3>4, <3>5
  <2> QED
    BY <2>3, <2>4
<1> QED
  BY <1>3, <1>4

\* Nothing has arrived of the next message.
LEMMA NothingKept ==
  /\ << >> \in Seq(ItchByte) /\ 0 = Saturated(Len(<< >>)) /\ EmptyBuf = Kept(<< >>)
<1>1. Len(<< >>) = 0 /\ << >> \in Seq(ItchByte)
  OBVIOUS
<1>2. \A i \in BufIdx : ~(i < 0)
  BY Limits DEF BufIdx
<1> QED
  BY <1>1, <1>2, Limits DEF Saturated, EmptyBuf, Kept

\* The framer hands on bytes.
LEMMA BytesOut ==
  ASSUME Framer
  PROVE  /\ out_valid' \in BOOLEAN /\ out_last' \in BOOLEAN
         /\ out_valid' => out_data' \in Byte
<1>1. CASE FramerIdle
  BY <1>1 DEF FramerIdle, NoOutput
<1>2. ASSUME NEW b \in Byte, FramerByte(b)
      PROVE  /\ out_valid' \in BOOLEAN /\ out_last' \in BOOLEAN
             /\ out_valid' => out_data' \in Byte
  <2>1. \/ NoOutput
        \/ BodyByte(b) \/ BodyDone(b)
    BY <1>2 DEF FramerByte, SessionByte, SeqByte, CountByte, HeaderDone, LengthByte,
                ZeroLength, LengthDone
  <2>2. CASE NoOutput
    BY <2>2 DEF NoOutput
  <2>3. CASE BodyByte(b)
    BY <1>2, <2>3 DEF BodyByte
  <2>4. CASE BodyDone(b)
    BY <1>2, <2>4 DEF BodyDone
  <2> QED
    BY <2>1, <2>2, <2>3, <2>4
<1> QED
  BY <1>1, <1>2 DEF Framer

\* One edge of the decoder is one message, one byte or nothing for the parser.
LEMMA FeedEdge ==
  ASSUME FeedInv, Edge, ParserEdge
  PROVE  FeedInv'
<1>1. out_valid \in BOOLEAN /\ out_last \in BOOLEAN /\ HeldInv /\ DecodesLikeModel /\ Decoder
  BY DEF FeedInv, HeldInv, Edge
<1>2. out_valid' \in BOOLEAN /\ out_last' \in BOOLEAN /\ (out_valid' => out_data' \in ItchByte)
  BY BytesOut, Limits DEF Edge
<1>3. CASE ~out_valid
  <2>1. /\ payload' = payload /\ byte_cnt' = byte_cnt /\ msg_buf' = msg_buf
        /\ parsed' = NotDecoded /\ dec_valid' = FALSE
        /\ unknown_count' = unknown_count /\ rejected' = rejected
    BY <1>1, <1>3 DEF Decoder, DecoderIdle, ParserEdge
  <2>2. HeldInv'
    BY <1>1, <1>2, <2>1 DEF HeldInv, Kept, Saturated
  <2>3. DecodesLikeModel'
    BY <1>1, <2>1 DEF DecodesLikeModel
  <2> QED
    BY <2>2, <2>3 DEF FeedInv
<1>4. CASE out_valid /\ ~out_last
  <2>1. /\ payload' = Recorded /\ byte_cnt' = Counted(byte_cnt) /\ msg_buf' = View(out_data)
        /\ parsed' = NotDecoded /\ dec_valid' = FALSE
        /\ unknown_count' = unknown_count /\ rejected' = rejected
    BY <1>1, <1>4 DEF Decoder, DecoderByte, Store, ParserEdge
  <2>2. /\ payload' \in Seq(ItchByte) /\ byte_cnt' = Saturated(Len(payload'))
        /\ msg_buf' = Kept(payload')
    BY <1>1, <1>4, <2>1, TakesByte
  <2>3. HeldInv'
    BY <1>2, <2>2 DEF HeldInv, Kept, Saturated
  <2>4. DecodesLikeModel'
    BY <1>1, <2>1 DEF DecodesLikeModel
  <2> QED
    BY <2>3, <2>4 DEF FeedInv
<1>5. CASE out_valid /\ out_last
  <2>1. /\ payload' = << >> /\ parsed' = ParseMessage(Recorded)
        /\ rejected' = IF parsed' = NotDecoded THEN (rejected + 1) % UnknownMod ELSE rejected
    BY <1>5 DEF ParserEdge
  <2>2. Emits(out_data) \/ Rejects(out_data)
    BY <1>1, <1>5 DEF Decoder, DecoderByte
  <2>3. msg_buf' = EmptyBuf /\ byte_cnt' = 0
    BY <2>2 DEF Emits, Rejects, CleanBuf
  <2>4. HeldInv'
    BY <1>2, <2>1, <2>3, NothingKept DEF HeldInv, Kept, Saturated
  <2>5. /\ DecOk(out_data) <=> ParseMessage(Recorded) # NotDecoded
        /\ DecOk(out_data) => Agrees(Decode(out_data), ParseMessage(Recorded))
    BY <1>1, <1>5, DecodesAsParsed
  <2>6. CASE Emits(out_data)
    BY <1>1, <2>1, <2>5, <2>6, <2>4 DEF Emits, DecodesLikeModel, FeedInv, Agrees
  <2>7. CASE Rejects(out_data)
    BY <1>1, <2>1, <2>5, <2>7, <2>4 DEF Rejects, DecodesLikeModel, FeedInv
  <2> QED
    BY <2>2, <2>6, <2>7
<1> QED
  BY <1>1, <1>3, <1>4, <1>5

\* For every layout of messages, width of fields and size of buffer, and for
\* messages of any length: the decoder hands on the messages that parse_message
\* does not refuse, and counts those it refuses; and what it hands on is what
\* the golden book reads in the message that parse_message returns, if it
\* returns one and does not raise (itch_decoder.sv; model/itch.py, lines 24-33
\* and 79-89; model/book.py, lines 32 and 36).
THEOREM DecoderIsParser == SpecFeed => []DecodesLikeModel
<1>1. InitFeed => FeedInv
  <2> SUFFICES ASSUME InitFeed PROVE FeedInv
    OBVIOUS
  <2>1. /\ payload = << >> /\ byte_cnt = 0 /\ msg_buf = EmptyBuf
        /\ out_valid = FALSE /\ out_last = FALSE
    BY DEF InitFeed, Init, ParserInit, FramerInit, DecoderInit
  <2>2. HeldInv
    BY <2>1, NothingKept DEF HeldInv
  <2>3. DecodesLikeModel
    BY DEF InitFeed, Init, ParserInit, DecoderInit, DecodesLikeModel
  <2> QED
    BY <2>2, <2>3 DEF FeedInv
<1>2. FeedInv /\ [NextFeed]_feedVars => FeedInv'
  <2> SUFFICES ASSUME FeedInv, [NextFeed]_feedVars PROVE FeedInv'
    OBVIOUS
  <2>1. CASE Edge /\ ParserEdge
    BY <2>1, FeedEdge
  <2>2. CASE ResetPath /\ ParserReset
    <3>1. /\ payload' = << >> /\ byte_cnt' = 0 /\ msg_buf' = EmptyBuf
          /\ out_valid' = FALSE /\ out_last' = FALSE
      BY <2>2 DEF ResetPath, ParserReset, FramerReset, DecoderReset, NoOutput
    <3>2. HeldInv'
      <4>1. /\ payload' \in Seq(ItchByte) /\ byte_cnt' = Saturated(Len(payload'))
            /\ msg_buf' = Kept(payload')
        BY <3>1, NothingKept
      <4>2. out_valid' \in BOOLEAN /\ out_last' \in BOOLEAN /\ ~out_valid'
        BY <3>1
      <4> QED
        BY <4>1, <4>2 DEF HeldInv, Kept, Saturated
    <3>3. DecodesLikeModel'
      BY <2>2 DEF ResetPath, ParserReset, DecoderReset, DecodesLikeModel
    <3> QED
      BY <3>2, <3>3 DEF FeedInv
  <2>3. CASE UNCHANGED feedVars
    <3>1. UNCHANGED <<payload, byte_cnt, msg_buf, out_valid, out_last, out_data, dec_valid,
                      dec_msg, parsed, rejected, unknown_count>>
      BY <2>3 DEF feedVars, pathVars, parserVars, framerVars, decoderVars
    <3> QED
      BY <3>1 DEF FeedInv, HeldInv, Kept, Saturated, DecodesLikeModel
  <2> QED
    BY <2>1, <2>2, <2>3 DEF NextFeed
<1>3. FeedInv => DecodesLikeModel
  BY DEF FeedInv
<1> QED
  BY <1>1, <1>2, <1>3, PTL DEF SpecFeed
=============================================================================
