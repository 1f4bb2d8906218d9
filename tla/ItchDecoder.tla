---------------------------- MODULE ItchDecoder ----------------------------
(***************************************************************************)
(* rtl/itch_decoder.sv: bytes of a message go into a buffer, and the last  *)
(* one has the whole message decoded.                                      *)
(*                                                                         *)
(* A type is known by its number in Layout, which holds its length and the *)
(* kind it decodes to.  The body of a decoded message is what is made of   *)
(* the bytes after the common header that its kind reads, Fields[kind] of  *)
(* them.  Both sides join bytes to big-endian numbers in the same way, so  *)
(* that is left out; what each makes of the side and the symbol of an ADD  *)
(* is not the same, and is here.  view is msg_buf with the byte that       *)
(* arrives.                                                                *)
(***************************************************************************)
EXTENDS Integers, Sequences

CONSTANTS
  ItchByte,    \* bytes of a message
  Layout,      \* type byte -> [len, kind], for the known types
  Fields,      \* kind -> bytes of the body that it reads
  SIDE_AT,     \* place of the side byte in the body of an ADD
  SymbolAt,    \* places of the symbol's bytes
  SIDE_BUY,    \* "B"
  ASCII,       \* the bytes below 128
  HDR_LEN,     \* type, stock locate, tracking number, timestamp: 11 bytes
  MAX_LEN,     \* 40: the longest known message
  CNT_SAT,     \* 63: where the byte counter stops
  UnknownMod   \* 2^32

ASSUME DecoderAssumption ==
  /\ {0, 1} \subseteq ItchByte /\ ItchByte \subseteq Nat
  /\ ASCII \subseteq ItchByte /\ SIDE_BUY \in ASCII
  /\ DOMAIN Layout \subseteq ItchByte
  /\ \A t \in DOMAIN Layout :
       /\ Layout[t].len \in HDR_LEN .. MAX_LEN
       /\ Fields[Layout[t].kind] \in Nat
       /\ HDR_LEN + Fields[Layout[t].kind] <= Layout[t].len
       /\ Layout[t].kind \notin {"none", "raised"}
       /\ Layout[t].kind = "ADD" => SymbolAt \cup {SIDE_AT} \subseteq 1 .. Fields["ADD"]
  /\ HDR_LEN \in Nat \ {0}
  /\ MAX_LEN \in Nat /\ CNT_SAT \in Nat /\ MAX_LEN < CNT_SAT
  /\ UnknownMod \in Nat \ {0}

VARIABLES
  msg_buf, byte_cnt,   \* the bytes so far, and how many
  dec_msg, dec_valid,  \* the output register
  unknown_count

decoderVars == <<msg_buf, byte_cnt, dec_msg, dec_valid, unknown_count>>

BufIdx == 0 .. MAX_LEN - 1

EmptyBuf == [i \in BufIdx |-> 0]

Decoded(kind, body) == [kind |-> kind, body |-> body]
NoDecoded == Decoded("SYSTEM", << >>)

-----------------------------------------------------------------------------
\* The buffer with the byte that arrives: bytes beyond it are not kept.
View(b) == IF byte_cnt < MAX_LEN THEN [msg_buf EXCEPT ![byte_cnt] = b] ELSE msg_buf

CountedWraps(n) == (n + 1) % (CNT_SAT + 1)           \* mutant: the counter wraps
Counted(n) == IF n # CNT_SAT THEN n + 1 ELSE n

Known(b) == View(b)[0] \in DOMAIN Layout

DecOk(b) == Known(b) /\ Counted(byte_cnt) = Layout[View(b)[0]].len

SideLowBit(byte) == byte % 2                         \* mutant: "B" is an even code
SideBit(byte) == IF byte = SIDE_BUY THEN 1 ELSE 0

\* The side byte leaves as one bit, buy or not; all other bytes as they are.
Decode(b) ==
  LET kind == Layout[View(b)[0]].kind
      body == [i \in 1 .. Fields[kind] |-> View(b)[HDR_LEN + i - 1]]
  IN  Decoded(kind, IF kind = "ADD" THEN [body EXCEPT ![SIDE_AT] = SideBit(@)] ELSE body)

CleanBuf == EmptyBuf

-----------------------------------------------------------------------------
\* A byte that is not the last of its message.
Store(b) ==
  /\ msg_buf' = View(b)
  /\ byte_cnt' = Counted(byte_cnt)
  /\ dec_valid' = FALSE /\ dec_msg' = NoDecoded
  /\ UNCHANGED unknown_count

\* The last byte of a message that decodes.
Emits(b) ==
  /\ DecOk(b)
  /\ dec_msg' = Decode(b) /\ dec_valid' = TRUE
  /\ msg_buf' = CleanBuf /\ byte_cnt' = 0
  /\ UNCHANGED unknown_count

\* The last byte of any other message.
Rejects(b) ==
  /\ ~DecOk(b)
  /\ dec_valid' = FALSE /\ dec_msg' = NoDecoded
  /\ msg_buf' = CleanBuf /\ byte_cnt' = 0
  /\ unknown_count' = (unknown_count + 1) % UnknownMod

DecoderByte(b, in_last) ==
  IF in_last THEN Emits(b) \/ Rejects(b) ELSE Store(b)

\* An edge without in_valid.
DecoderIdle ==
  /\ dec_valid' = FALSE /\ dec_msg' = NoDecoded
  /\ UNCHANGED <<msg_buf, byte_cnt, unknown_count>>

DecoderInit ==
  /\ msg_buf = EmptyBuf /\ byte_cnt = 0
  /\ dec_msg = NoDecoded /\ dec_valid = FALSE
  /\ unknown_count = 0

DecoderReset ==
  /\ msg_buf' = EmptyBuf /\ byte_cnt' = 0
  /\ dec_msg' = NoDecoded /\ dec_valid' = FALSE
  /\ unknown_count' = 0

DecoderTypeOK ==
  /\ msg_buf \in [BufIdx -> ItchByte]
  /\ byte_cnt \in 0 .. CNT_SAT
  /\ dec_valid \in BOOLEAN
  /\ dec_msg \in [kind : DOMAIN Fields, body : Seq(ItchByte)]
  /\ unknown_count \in 0 .. UnknownMod - 1

-----------------------------------------------------------------------------
(* parse_message of model/itch.py.  It keeps the characters of an ADD.      *)

NotDecoded == Decoded("none", << >>)       \* None
Raised     == Decoded("raised", << >>)     \* UnicodeDecodeError

\* side.decode('ascii') and symbol.decode('ascii') of _decode_add.
Unreadable(kind, body) ==
  kind = "ADD" /\ \E i \in SymbolAt \cup {SIDE_AT} : body[i] \notin ASCII

ParseMessage(payload) ==
  IF \/ payload = << >> \/ payload[1] \notin DOMAIN Layout
     \/ Len(payload) # Layout[payload[1]].len
  THEN NotDecoded
  ELSE LET kind == Layout[payload[1]].kind
           body == SubSeq(payload, HDR_LEN + 1, HDR_LEN + Fields[kind])
       IN  IF Unreadable(kind, body) THEN Raised ELSE Decoded(kind, body)
=============================================================================
