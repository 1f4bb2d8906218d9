------------------------------ MODULE MoldLink ------------------------------
(***************************************************************************)
(* A feed over an unreliable network: the packet writer of                 *)
(* model/moldwrap.py, packets that are lost, repeated or swapped, and      *)
(* rtl/mold_framer.sv, which gets the bytes of what arrives.               *)
(*                                                                         *)
(* The network is external: MoldUDP64 runs over UDP, and the framer's      *)
(* gap_count is there for what UDP does.  A message is its length, in the  *)
(* order written; its bytes carry no meaning here.                         *)
(*                                                                         *)
(* written .. run are history variables.                                   *)
(***************************************************************************)
EXTENDS MoldPacket, FiniteSets

CONSTANTS
  Length,            \* lengths of the messages of the feed
  msgs_per_packet, start_seq,
  MaxMessages,       \* bound: messages written
  MaxInFlight,       \* bound: packets on the wire
  MaxFaults          \* bound: packets lost, repeated or swapped

ASSUME LinkAssumption ==
  /\ Length \subseteq Word
  /\ msgs_per_packet \in 1 .. EndCount - 1
  /\ start_seq \in Nat /\ MaxMessages \in Nat
  /\ start_seq + MaxMessages < SeqWrap
  /\ MaxInFlight \in Nat \ {0} /\ MaxFaults \in Nat
  /\ 3 * MaxFaults < CountMod      \* a fault causes three gaps at most

VARIABLES
  batch, seq, closed,   \* MoldWriter: _batch, seq, and whether close() has run
  net,                  \* packets on the wire; the first one is being received
  sent,                 \* bytes of it the framer has taken
  faults,               \* network faults so far
  due_number,           \* number the next framed message should have, 0 at first
  in_order,             \* no message was skipped, repeated or overtaken so far
  run                   \* bytes passed through since the last end of a message

linkVars == <<framerVars, batch, seq, closed, net, sent, faults, due_number, in_order, run>>

Packet == [seq : 0 .. SeqWrap - 1, count : Word, lens : Seq(Length)]

-----------------------------------------------------------------------------
(* The writer.                                                              *)

\* add(): a full batch is flushed.
AddMessage(len) ==
  LET filled == Append(batch, len) IN
  /\ ~closed /\ seq + Len(batch) < start_seq + MaxMessages
  /\ Len(net) < MaxInFlight
  /\ IF Len(filled) = msgs_per_packet
     THEN /\ net' = Append(net, PackPacket(seq, filled))
          /\ seq' = seq + Len(filled)
          /\ batch' = << >>
     ELSE batch' = filled /\ UNCHANGED <<net, seq>>
  /\ UNCHANGED <<framerVars, closed, sent, faults, due_number, in_order, run>>

\* close(): the partial batch, then the end of the session.
Close ==
  LET rest == IF batch = << >> THEN << >> ELSE <<PackPacket(seq, batch)>> IN
  /\ ~closed /\ Len(net) < MaxInFlight
  /\ net' = net \o rest \o <<EndOfSessionPacket(seq + Len(batch))>>
  /\ seq' = seq + Len(batch)
  /\ batch' = << >> /\ closed' = TRUE
  /\ UNCHANGED <<framerVars, sent, faults, due_number, in_order, run>>

\* An idle exchange repeats the next sequence number in an empty packet.
Heartbeat ==
  /\ ~closed /\ Len(net) < MaxInFlight
  /\ net' = Append(net, PackPacket(seq, << >>))
  /\ UNCHANGED <<framerVars, batch, seq, closed, sent, faults, due_number, in_order, run>>

-----------------------------------------------------------------------------
(* The network, on packets of which no byte has arrived.                    *)

Untouched == {i \in 1 .. Len(net) : i > 1 \/ sent = 0}

Fault(packets) ==
  /\ faults < MaxFaults
  /\ faults' = faults + 1
  /\ net' = packets
  /\ UNCHANGED <<framerVars, batch, seq, closed, sent, due_number, in_order, run>>

Lose == \E i \in Untouched : Fault(RemoveAt(net, i))

Repeat ==
  /\ Len(net) < MaxInFlight
  /\ \E i \in Untouched : Fault(InsertAt(net, i, net[i]))

Swap == \E i \in Untouched :
          /\ i < Len(net)
          /\ Fault([net EXCEPT ![i] = net[i + 1], ![i + 1] = net[i]])

-----------------------------------------------------------------------------
(* The framer takes the next byte.                                          *)

ReceiveByte ==
  /\ net # << >>
  /\ LET p    == Head(net)
         next == sent + 1
         done == next = Len(PacketBytes(p))
         ends == EndedBy(p, next) > EndedBy(p, sent)
         number == p.seq + EndedBy(p, sent)
     IN  /\ FramerByte(PacketBytes(p)[next])
         /\ net' = IF done THEN Tail(net) ELSE net
         /\ sent' = IF done THEN 0 ELSE next
         /\ due_number' = IF ends THEN number + 1 ELSE due_number
         /\ in_order' = (in_order /\ (ends => due_number \in {0, number}))
         /\ run' = (IF out_last THEN 0 ELSE run) + (IF out_valid' THEN 1 ELSE 0)
  /\ UNCHANGED <<batch, seq, closed, faults>>

NoByte ==
  /\ FramerIdle
  /\ run' = IF out_last THEN 0 ELSE run
  /\ UNCHANGED <<batch, seq, closed, net, sent, faults, due_number, in_order>>

\* Reset of the receiver before the feed starts over.
ResetLink ==
  /\ FramerReset
  /\ batch' = << >> /\ seq' = start_seq /\ closed' = FALSE
  /\ net' = << >> /\ sent' = 0 /\ faults' = 0
  /\ due_number' = 0 /\ in_order' = TRUE /\ run' = 0

Init ==
  /\ FramerInit
  /\ batch = << >> /\ seq = start_seq /\ closed = FALSE
  /\ net = << >> /\ sent = 0 /\ faults = 0
  /\ due_number = 0 /\ in_order = TRUE /\ run = 0

Next ==
  \/ (\E len \in Length : AddMessage(len)) \/ Close \/ Heartbeat
  \/ Lose \/ Repeat \/ Swap
  \/ ReceiveByte \/ NoByte
  \/ ResetLink

Spec == Init /\ [][Next]_linkVars

-----------------------------------------------------------------------------
\* The framer is where the bytes are: between packets it waits for a session
\* field, whatever the packet before was, and inside a message it has passed
\* through exactly the bytes of that message that have arrived.
InStep ==
  /\ sent = 0 <=> state = "ST_SESSION" /\ hdr_cnt = 0
  /\ state = "ST_MSG_BODY" =>
       /\ body_cnt = (IF out_last THEN 0 ELSE run)
       /\ msg_len_reg = Head(net).lens[EndedBy(Head(net), sent) + 1]

\* Losses, repeats and swaps never pass in silence: as long as no gap was
\* counted, the messages framed carry consecutive numbers.
NoSilentLoss == gap_count = 0 => in_order

\* And a feed that arrives as written never counts a gap, heartbeats and the
\* end of the session included.
NoFalseAlarm == faults = 0 => gap_count = 0
=============================================================================
