----------------------------- MODULE MoldFramer -----------------------------
(***************************************************************************)
(* rtl/mold_framer.sv: the byte-serial MoldUDP64 framer.  One step of its  *)
(* clock takes at most one byte.  A byte is a digit in base ByteMod and a  *)
(* multi-byte field is shifted in digit by digit, as in the code.          *)
(*                                                                         *)
(* Registers are left at zero where the code never reads them before it    *)
(* writes them again: seq_reg outside the header, count_reg after the end  *)
(* of the session, msg_len_reg and body_cnt outside a message, out_data    *)
(* when out_valid is low.                                                  *)
(***************************************************************************)
EXTENDS Integers

CONSTANTS
  ByteMod,       \* 256
  SESSION_LEN,   \* 10 bytes
  SEQ_LEN,       \* 8 bytes
  CountMod       \* 2^32: the counters wrap

ASSUME FramerAssumption ==
  /\ ByteMod \in Nat \ {0, 1}
  /\ SESSION_LEN \in Nat \ {0} /\ SEQ_LEN \in Nat \ {0}
  /\ CountMod \in Nat \ {0}

COUNT_LEN == 2
LEN_LEN   == 2

Byte == 0 .. ByteMod - 1

\* The number of values of n bytes.
Power[n \in Nat] == IF n = 0 THEN 1 ELSE ByteMod * Power[n - 1]

Word    == 0 .. Power[2] - 1
SeqWrap == Power[SEQ_LEN]

\* The count that ends a session: 0xFFFF.
EndCount == Power[2] - 1

VARIABLES
  state,            \* the field the next byte belongs to
  hdr_cnt,          \* bytes of that field already taken
  seq_reg, count_reg, msg_len_reg,
  body_cnt,         \* bytes of the message already passed through
  expected_seq, first_pkt,
  gap_count, malformed_count, end_of_session,
  out_valid, out_data, out_last

header     == <<seq_reg, expected_seq, first_pkt, gap_count, end_of_session>>
framerVars == <<state, hdr_cnt, header, count_reg, msg_len_reg, body_cnt,
                malformed_count, out_valid, out_data, out_last>>

-----------------------------------------------------------------------------
Shift(reg, b, len) == (reg * ByteMod + b) % Power[len]

\* A field ends with this byte.
EndsEarly(len) == hdr_cnt + 2 >= len                 \* mutant: fields one byte too short
Ends(len) == hdr_cnt = len - 1

Inc(c) == (c + 1) % CountMod

NoOutput == out_valid' = FALSE /\ out_data' = 0 /\ out_last' = FALSE

\* The byte counter within a field, and the field that follows.
NextByte(len, next) ==
  IF Ends(len) THEN state' = next /\ hdr_cnt' = 0
  ELSE state' = state /\ hdr_cnt' = hdr_cnt + 1

\* Messages a packet adds to the running sequence: heartbeats and the end of
\* the session add none.
ContribAll(count) == count                           \* mutant: the end counts as 0xFFFF
Contrib(count) == IF count \in {0, EndCount} THEN 0 ELSE count

GapBehind(seq) == ~first_pkt /\ seq < expected_seq   \* mutant: only repeats are gaps
GapFromStart(seq) == seq # expected_seq              \* mutant: the first packet is checked
Gap(seq) == ~first_pkt /\ seq # expected_seq

AfterMessageEarly == IF count_reg <= 2 THEN "ST_SESSION" ELSE "ST_MSG_LEN"
                                                     \* mutant: forgets the last message
AfterMessage == IF count_reg = 1 THEN "ST_SESSION" ELSE "ST_MSG_LEN"

-----------------------------------------------------------------------------
(* One action per state, each for the byte b.                               *)

SessionByte(b) ==
  /\ state = "ST_SESSION"
  /\ NextByte(SESSION_LEN, "ST_SEQ")
  /\ NoOutput
  /\ UNCHANGED <<header, count_reg, msg_len_reg, body_cnt, malformed_count>>

SeqByte(b) ==
  /\ state = "ST_SEQ"
  /\ seq_reg' = Shift(seq_reg, b, SEQ_LEN)
  /\ NextByte(SEQ_LEN, "ST_COUNT")
  /\ NoOutput
  /\ UNCHANGED <<expected_seq, first_pkt, gap_count, end_of_session, count_reg,
                 msg_len_reg, body_cnt, malformed_count>>

CountByte(b) ==
  /\ state = "ST_COUNT" /\ ~Ends(COUNT_LEN)
  /\ count_reg' = Shift(count_reg, b, COUNT_LEN)
  /\ NextByte(COUNT_LEN, "ST_COUNT")
  /\ NoOutput
  /\ UNCHANGED <<header, msg_len_reg, body_cnt, malformed_count>>

\* The last byte of the header: judge the sequence and start the packet.
HeaderDone(b) ==
  LET full_count == Shift(count_reg, b, COUNT_LEN) IN
  /\ state = "ST_COUNT" /\ Ends(COUNT_LEN)
  /\ gap_count' = IF Gap(seq_reg) THEN Inc(gap_count) ELSE gap_count
  /\ first_pkt' = FALSE
  /\ expected_seq' = (seq_reg + Contrib(full_count)) % SeqWrap
  /\ end_of_session' = (end_of_session \/ full_count = EndCount)
  /\ state' = IF full_count \in {0, EndCount} THEN "ST_SESSION" ELSE "ST_MSG_LEN"
  /\ count_reg' = IF full_count = EndCount THEN 0 ELSE full_count
  /\ seq_reg' = 0 /\ hdr_cnt' = 0
  /\ NoOutput
  /\ UNCHANGED <<msg_len_reg, body_cnt, malformed_count>>

LengthByte(b) ==
  /\ state = "ST_MSG_LEN" /\ ~Ends(LEN_LEN)
  /\ msg_len_reg' = Shift(msg_len_reg, b, LEN_LEN)
  /\ NextByte(LEN_LEN, "ST_MSG_LEN")
  /\ NoOutput
  /\ UNCHANGED <<header, count_reg, body_cnt, malformed_count>>

\* A zero-length message has no body.
ZeroLength(b) ==
  /\ state = "ST_MSG_LEN" /\ Ends(LEN_LEN)
  /\ Shift(msg_len_reg, b, LEN_LEN) = 0
  /\ malformed_count' = Inc(malformed_count)
  /\ count_reg' = count_reg - 1
  /\ state' = AfterMessage /\ hdr_cnt' = 0
  /\ msg_len_reg' = 0
  /\ NoOutput
  /\ UNCHANGED <<header, body_cnt>>

LengthDone(b) ==
  /\ state = "ST_MSG_LEN" /\ Ends(LEN_LEN)
  /\ Shift(msg_len_reg, b, LEN_LEN) # 0
  /\ msg_len_reg' = Shift(msg_len_reg, b, LEN_LEN)
  /\ state' = "ST_MSG_BODY" /\ hdr_cnt' = 0
  /\ body_cnt' = 0
  /\ NoOutput
  /\ UNCHANGED <<header, count_reg, malformed_count>>

BodyByte(b) ==
  /\ state = "ST_MSG_BODY" /\ body_cnt # msg_len_reg - 1
  /\ out_valid' = TRUE /\ out_data' = b /\ out_last' = FALSE
  /\ body_cnt' = body_cnt + 1
  /\ UNCHANGED <<state, hdr_cnt, header, count_reg, msg_len_reg, malformed_count>>

BodyDone(b) ==
  /\ state = "ST_MSG_BODY" /\ body_cnt = msg_len_reg - 1
  /\ out_valid' = TRUE /\ out_data' = b /\ out_last' = TRUE
  /\ count_reg' = count_reg - 1
  /\ state' = AfterMessage
  /\ msg_len_reg' = 0 /\ body_cnt' = 0
  /\ UNCHANGED <<hdr_cnt, header, malformed_count>>

FramerByte(b) ==
  \/ SessionByte(b) \/ SeqByte(b) \/ CountByte(b) \/ HeaderDone(b)
  \/ LengthByte(b) \/ ZeroLength(b) \/ LengthDone(b)
  \/ BodyByte(b) \/ BodyDone(b)

\* An edge without in_valid.
FramerIdle ==
  /\ NoOutput
  /\ UNCHANGED <<state, hdr_cnt, header, count_reg, msg_len_reg, body_cnt, malformed_count>>

FramerInit ==
  /\ state = "ST_SESSION" /\ hdr_cnt = 0
  /\ seq_reg = 0 /\ count_reg = 0 /\ msg_len_reg = 0 /\ body_cnt = 0
  /\ expected_seq = 0 /\ first_pkt = TRUE
  /\ gap_count = 0 /\ malformed_count = 0 /\ end_of_session = FALSE
  /\ out_valid = FALSE /\ out_data = 0 /\ out_last = FALSE

FramerReset ==
  /\ state' = "ST_SESSION" /\ hdr_cnt' = 0
  /\ seq_reg' = 0 /\ count_reg' = 0 /\ msg_len_reg' = 0 /\ body_cnt' = 0
  /\ expected_seq' = 0 /\ first_pkt' = TRUE
  /\ gap_count' = 0 /\ malformed_count' = 0 /\ end_of_session' = FALSE
  /\ NoOutput

FieldLen == CASE state = "ST_SESSION" -> SESSION_LEN
              [] state = "ST_SEQ"     -> SEQ_LEN
              [] state = "ST_COUNT"   -> COUNT_LEN
              [] OTHER                -> LEN_LEN

FramerTypeOK ==
  /\ state \in {"ST_SESSION", "ST_SEQ", "ST_COUNT", "ST_MSG_LEN", "ST_MSG_BODY"}
  /\ hdr_cnt \in 0 .. FieldLen - 1
  /\ seq_reg \in 0 .. SeqWrap - 1 /\ expected_seq \in 0 .. SeqWrap - 1
  /\ count_reg \in Word /\ msg_len_reg \in Word
  /\ body_cnt \in Word
  /\ first_pkt \in BOOLEAN /\ end_of_session \in BOOLEAN
  /\ gap_count \in 0 .. CountMod - 1 /\ malformed_count \in 0 .. CountMod - 1
  /\ out_valid \in BOOLEAN /\ out_last \in BOOLEAN /\ out_data \in Byte
=============================================================================
