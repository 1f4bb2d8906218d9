--------------------------- MODULE MCDecoderFeed ---------------------------
(***************************************************************************)
(* Bytes 0, 1 and 2, so messages of up to 8 bytes; two known types: a      *)
(* DELETE, and an ADD with a byte of side, one of symbol and one that      *)
(* nobody reads, as long as the buffer.  Byte 0 is "B", and byte 2 is no   *)
(* ASCII.                                                                  *)
(***************************************************************************)
EXTENDS DecoderFeed, TLC

MCLayout == 1 :> [len |-> 2, kind |-> "DELETE"] @@ 2 :> [len |-> 4, kind |-> "ADD"]

MCFields == [DELETE |-> 1, ADD |-> 2, SYSTEM |-> 0]
=============================================================================
