----------------------------- MODULE OrderQueue -----------------------------
(***************************************************************************)
(* What the order encoder promises: accepted orders wait in a bounded      *)
(* queue and leave in the order they came, one frame at a time, each with  *)
(* the next token (model/ouch.py, encode).  An order is dropped, and       *)
(* counted, only when the queue is full and no frame starts.               *)
(***************************************************************************)
EXTENDS Integers, Sequences

CONSTANTS Order, Depth, FrameLen, TokenMod, CountMod, Nothing

VARIABLES
  queue,     \* orders that wait
  frame,     \* what is on the wire: order, token and byte; Nothing when idle
  token,     \* the token of the next frame
  dropped

vars == <<queue, frame, token, dropped>>

Init == queue = << >> /\ frame = Nothing /\ token = 0 /\ dropped = 0

Restart == queue' = << >> /\ frame' = Nothing /\ token' = 0 /\ dropped' = 0

FrameDone == frame = Nothing \/ frame.byte = FrameLen - 1

Starts == FrameDone /\ queue # << >>

\* The wire moves on by one byte; a waiting order starts without a gap.
Wire ==
  /\ frame' = IF Starts THEN [order |-> Head(queue), token |-> token, byte |-> 0]
              ELSE IF FrameDone THEN Nothing ELSE [frame EXCEPT !.byte = @ + 1]
  /\ token' = IF Starts THEN (token + 1) % TokenMod ELSE token

Waiting == IF Starts THEN Tail(queue) ELSE queue

NoArrival == Wire /\ queue' = Waiting /\ dropped' = dropped

Take(order) ==
  /\ Len(Waiting) < Depth
  /\ Wire
  /\ queue' = Append(Waiting, order)
  /\ dropped' = dropped

Refuse ==
  /\ Len(Waiting) >= Depth
  /\ Wire
  /\ queue' = Waiting
  /\ dropped' = (dropped + 1) % CountMod

Next == Restart \/ NoArrival \/ Refuse \/ \E order \in Order : Take(order)

Spec == Init /\ [][Next]_vars
=============================================================================
