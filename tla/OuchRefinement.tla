---------------------------- MODULE OuchRefinement ----------------------------
(***************************************************************************)
(* The encoder as the abstract queue of OrderQueue.                        *)
(***************************************************************************)
EXTENDS OuchEncoder, Sequences

CONSTANTS Nothing

ASSUME NothingAssumption ==
  Nothing \notin [order : Order \cup {NoOrder}, token : Nat, byte : Nat]

\* The ring read from the oldest order on.
Queued == [i \in 1 .. count_q |-> queue_mem[(rd_ptr_q + (i - 1)) % FIFO_DEPTH]]

OnWire == IF Sending
          THEN [order |-> cur_intent_q, token |-> cur_token_q, byte |-> byte_idx_q]
          ELSE Nothing

Wire == INSTANCE OrderQueue
  WITH Depth <- FIFO_DEPTH, FrameLen <- FRAME_LEN,
       queue <- Queued, frame <- OnWire, token <- order_count, dropped <- fifo_drop_count

\* Ring, pointers and serializer together are a bounded queue: frames carry the
\* accepted orders in order with consecutive tokens, none sent twice, and an
\* order is lost only if it is counted, also when a full ring is pushed and
\* popped on one edge (lines 83-88).
ImplementsQueue == Wire!Spec
=============================================================================
