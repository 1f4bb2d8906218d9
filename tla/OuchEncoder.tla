----------------------------- MODULE OuchEncoder -----------------------------
(***************************************************************************)
(* rtl/ouch_encoder.sv: the ring of accepted orders and the serializer     *)
(* that shifts one frame out at a byte per clock.  One step is one clock   *)
(* edge; all decisions read the values before it.  What a byte of a frame  *)
(* holds is left out: a frame is its order, its token and its byte index.  *)
(***************************************************************************)
EXTENDS Integers

CONSTANTS
  Order,        \* accepted orders
  NoOrder,      \* contents of a slot that was never written
  FIFO_DEPTH,
  FRAME_LEN,    \* bytes of a frame: 51
  TokenMod,     \* 2^32: order_count wraps
  CountMod      \* 2^32: fifo_drop_count wraps

ASSUME EncoderAssumption ==
  /\ FIFO_DEPTH \in Nat \ {0}
  /\ FRAME_LEN \in Nat \ {0, 1}
  /\ TokenMod \in Nat \ {0} /\ CountMod \in Nat \ {0}
  /\ NoOrder \notin Order

Slot == 0 .. FIFO_DEPTH - 1

VARIABLES
  queue_mem, wr_ptr_q, rd_ptr_q, count_q,                \* the ring
  state_q, byte_idx_q, cur_intent_q, cur_token_q,        \* the serializer
  order_count, fifo_drop_count

ring       == <<queue_mem, wr_ptr_q, rd_ptr_q, count_q>>
serializer == <<state_q, byte_idx_q, cur_intent_q, cur_token_q, order_count>>
vars       == <<ring, serializer, fifo_drop_count>>

Sending == state_q = "ST_SEND"
LastByte == Sending /\ byte_idx_q = FRAME_LEN - 1

frame_start == Sending /\ byte_idx_q = 0

pop_ok_two == count_q > 1 /\ (~Sending \/ LastByte)     \* mutant: the last order waits
pop_ok == count_q > 0 /\ (~Sending \/ LastByte)

\* A full ring takes an order on the edge that also frees its oldest slot.
HasRoomNoPop == count_q < FIFO_DEPTH                 \* mutant: ignores the pop
HasRoomLate  == count_q <= FIFO_DEPTH                \* mutant: one order too many
HasRoom == count_q < FIFO_DEPTH \/ pop_ok

Next_ptr(p) == (p + 1) % FIFO_DEPTH

-----------------------------------------------------------------------------
\* The serializer: start the oldest order, go on with the frame, or stop.
Serialize ==
  /\ rd_ptr_q' = IF pop_ok THEN Next_ptr(rd_ptr_q) ELSE rd_ptr_q
  /\ cur_intent_q' = IF pop_ok THEN queue_mem[rd_ptr_q] ELSE cur_intent_q
  /\ cur_token_q' = IF pop_ok THEN order_count ELSE cur_token_q
  /\ order_count' = IF pop_ok THEN (order_count + 1) % TokenMod ELSE order_count
  /\ state_q' = IF pop_ok THEN "ST_SEND" ELSE IF LastByte THEN "ST_IDLE" ELSE state_q
  /\ byte_idx_q' = IF pop_ok THEN 0
                   ELSE IF Sending /\ ~LastByte THEN byte_idx_q + 1 ELSE byte_idx_q

PoppedNever == 0                                     \* mutant: a pop is not counted
Popped == IF pop_ok THEN 1 ELSE 0

\* in_valid with room: the write and a pop of the same slot land together.
Push(order) ==
  /\ HasRoom
  /\ queue_mem' = [queue_mem EXCEPT ![wr_ptr_q] = order]
  /\ wr_ptr_q' = Next_ptr(wr_ptr_q)
  /\ count_q' = count_q + 1 - Popped
  /\ Serialize
  /\ UNCHANGED fifo_drop_count

\* in_valid without room.
Drop ==
  /\ ~HasRoom
  /\ fifo_drop_count' = (fifo_drop_count + 1) % CountMod
  /\ count_q' = count_q - Popped
  /\ Serialize
  /\ UNCHANGED <<queue_mem, wr_ptr_q>>

NoInput ==
  /\ count_q' = count_q - Popped
  /\ Serialize
  /\ UNCHANGED <<queue_mem, wr_ptr_q, fifo_drop_count>>

Init ==
  /\ queue_mem = [s \in Slot |-> NoOrder]
  /\ wr_ptr_q = 0 /\ rd_ptr_q = 0 /\ count_q = 0
  /\ state_q = "ST_IDLE" /\ byte_idx_q = 0
  /\ cur_intent_q = NoOrder /\ cur_token_q = 0
  /\ order_count = 0 /\ fifo_drop_count = 0

\* The ring's memory is not reset.
Reset ==
  /\ UNCHANGED queue_mem
  /\ wr_ptr_q' = 0 /\ rd_ptr_q' = 0 /\ count_q' = 0
  /\ state_q' = "ST_IDLE" /\ byte_idx_q' = 0
  /\ cur_intent_q' = NoOrder /\ cur_token_q' = 0
  /\ order_count' = 0 /\ fifo_drop_count' = 0

Next == Reset \/ NoInput \/ Drop \/ \E order \in Order : Push(order)

Spec == Init /\ [][Next]_vars

\* An edge without reset.  The clock never stops, but reset may come at any
\* edge and input need never come: fairness is of edges that move the serializer.
Clock == NoInput \/ Drop \/ \E order \in Order : Push(order)

FairSpec == Spec /\ WF_serializer(Clock)

-----------------------------------------------------------------------------
TypeOK ==
  /\ queue_mem \in [Slot -> Order \cup {NoOrder}]
  /\ wr_ptr_q \in Slot /\ rd_ptr_q \in Slot
  /\ count_q \in 0 .. FIFO_DEPTH
  /\ state_q \in {"ST_IDLE", "ST_SEND"}
  /\ byte_idx_q \in 0 .. FRAME_LEN - 1
  /\ cur_intent_q \in Order \cup {NoOrder}
  /\ cur_token_q \in 0 .. TokenMod - 1 /\ order_count \in 0 .. TokenMod - 1
  /\ fifo_drop_count \in 0 .. CountMod - 1

\* The write pointer is count slots ahead of the read pointer, so a push never
\* lands on an order that still waits.
RingConsistent == wr_ptr_q = (rd_ptr_q + count_q) % FIFO_DEPTH

\* The registers after a reset.
Emptied == count_q = 0 /\ order_count = 0 /\ ~Sending

\* The order that waits at the head of the queue is sent, with the next token,
\* however many come after it, unless a reset empties the queue first.
EveryOrderSent ==
  \A n \in 0 .. TokenMod - 1 :
    (count_q > 0 /\ order_count = n) ~> ((frame_start /\ cur_token_q = n) \/ Emptied)
=============================================================================
