---------------------------- MODULE DecoderFeed ----------------------------
(***************************************************************************)
(* The byte path of FeedPath next to the parser of model/itch.py.          *)
(* payload, parsed and rejected are history variables: the bytes of the    *)
(* message that passes through the decoder, what the parser makes of the   *)
(* one that ended with the last edge, and how many it has refused.  It is  *)
(* asked about each message for itself, also after one on which it raises, *)
(* where dump_trace.py would end.  Bytes after MAX_LEN are recorded as 0:  *)
(* no field of any message lies there.                                     *)
(***************************************************************************)
EXTENDS FeedPath

VARIABLES payload, parsed, rejected

parserVars == <<payload, parsed, rejected>>
feedVars   == <<pathVars, parserVars>>

Recorded == Append(payload, IF Len(payload) < MAX_LEN THEN out_data ELSE 0)

ParserEdge ==
  IF ~out_valid
  THEN parsed' = NotDecoded /\ UNCHANGED <<payload, rejected>>
  ELSE IF ~out_last
  THEN payload' = Recorded /\ parsed' = NotDecoded /\ UNCHANGED rejected
  ELSE /\ payload' = << >>
       /\ parsed' = ParseMessage(Recorded)
       /\ rejected' = IF parsed' = NotDecoded THEN (rejected + 1) % UnknownMod
                      ELSE rejected

ParserInit == payload = << >> /\ parsed = NotDecoded /\ rejected = 0

ParserReset == payload' = << >> /\ parsed' = NotDecoded /\ rejected' = 0

InitFeed == Init /\ ParserInit

NextFeed == (Edge /\ ParserEdge) \/ (ResetPath /\ ParserReset)

SpecFeed == InitFeed /\ [][NextFeed]_feedVars

-----------------------------------------------------------------------------
\* What the golden book reads in a parsed message: of the side only whether it
\* is "B" (model/book.py, lines 32 and 36).
BookReads(m) ==
  IF m.kind # "ADD" THEN m
  ELSE Decoded("ADD", [m.body EXCEPT ![SIDE_AT] = IF @ = SIDE_BUY THEN 1 ELSE 0])

\* Of the messages that the framer cuts out of the stream, of any length, the
\* decoder hands on just those for which the parser does not return None, and
\* counts the others.  Where the parser returns a message, the one handed on is
\* of its kind, with its bytes and nothing left over from the message before,
\* and with the side that the golden book reads.  Where the parser raises there
\* is nothing to compare with: the decoder hands on an ADD.
DecodesLikeModel ==
  /\ dec_valid <=> parsed # NotDecoded
  /\ dec_valid => IF parsed = Raised THEN dec_msg.kind = "ADD"
                  ELSE dec_msg = BookReads(parsed)
  /\ unknown_count = rejected
=============================================================================
