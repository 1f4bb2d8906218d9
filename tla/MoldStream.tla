----------------------------- MODULE MoldStream -----------------------------
(***************************************************************************)
(* What the framer promises, packet by packet: every packet's messages in  *)
(* order, zero-length ones counted and skipped, and one gap counted for    *)
(* each packet whose sequence number is not the one that was due.          *)
(***************************************************************************)
EXTENDS Integers, Sequences

CONSTANTS
  Packet,     \* [seq, count, lens]: lens holds the lengths of the messages
  EndCount,   \* the count that ends the session
  NoSeq,      \* nothing received yet
  SeqWrap, CountMod

VARIABLES
  due,        \* sequence number that comes next, NoSeq at first
  pending,    \* lengths of the messages of the packet that are still to come
  message,    \* length of the message handed on by the last step, 0 if none
  gaps, malformed, ended

vars == <<due, pending, message, gaps, malformed, ended>>

Init ==
  /\ due = NoSeq /\ pending = << >> /\ message = 0
  /\ gaps = 0 /\ malformed = 0 /\ ended = FALSE

Restart ==
  /\ due' = NoSeq /\ pending' = << >> /\ message' = 0
  /\ gaps' = 0 /\ malformed' = 0 /\ ended' = FALSE

Header(p) ==
  /\ pending = << >>
  /\ gaps' = IF due \notin {NoSeq, p.seq} THEN (gaps + 1) % CountMod ELSE gaps
  /\ due' = (p.seq + Len(p.lens)) % SeqWrap
  /\ pending' = p.lens
  /\ ended' = (ended \/ p.count = EndCount)
  /\ message' = 0
  /\ UNCHANGED malformed

Deliver ==
  /\ pending # << >> /\ Head(pending) > 0
  /\ message' = Head(pending)
  /\ pending' = Tail(pending)
  /\ UNCHANGED <<due, gaps, malformed, ended>>

Skip ==
  /\ pending # << >> /\ Head(pending) = 0
  /\ malformed' = (malformed + 1) % CountMod
  /\ pending' = Tail(pending)
  /\ message' = 0
  /\ UNCHANGED <<due, gaps, ended>>

Wait ==
  /\ message' = 0
  /\ UNCHANGED <<due, pending, gaps, malformed, ended>>

Next == Restart \/ (\E p \in Packet : Header(p)) \/ Deliver \/ Skip \/ Wait

Spec == Init /\ [][Next]_vars
=============================================================================
