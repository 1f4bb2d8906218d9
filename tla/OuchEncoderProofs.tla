-------------------------- MODULE OuchEncoderProofs --------------------------
(***************************************************************************)
(* Proofs about OuchEncoder: its types, the ring of waiting orders, and    *)
(* that it implements OrderQueue.                                          *)
(***************************************************************************)
EXTENDS OuchRefinement, SequenceTheorems, TLAPS

EncoderInv == TypeOK /\ RingConsistent

\* A pointer that is no more than one turn ahead.
LEMMA Turn ==
  ASSUME NEW n \in Nat, n < 2 * FIFO_DEPTH
  PROVE  n % FIFO_DEPTH = IF n < FIFO_DEPTH THEN n ELSE n - FIFO_DEPTH
<1>1. FIFO_DEPTH \in Nat \ {0}
  BY EncoderAssumption
<1> QED BY <1>1

\* The ring pointer steps on and wraps.
LEMMA NextPtr ==
  ASSUME NEW p \in Slot
  PROVE  Next_ptr(p) = IF p = FIFO_DEPTH - 1 THEN 0 ELSE p + 1
  BY EncoderAssumption, Turn DEF Next_ptr, Slot

\* One slot on, from a place that is no more than a turn ahead of a pointer.
LEMMA Ahead ==
  ASSUME NEW p \in Slot, NEW n \in 0 .. FIFO_DEPTH
  PROVE  /\ (p + n) % FIFO_DEPTH \in Slot
         /\ n < FIFO_DEPTH =>
              Next_ptr((p + n) % FIFO_DEPTH) = (p + (n + 1)) % FIFO_DEPTH
         /\ n > 0 => (Next_ptr(p) + (n - 1)) % FIFO_DEPTH = (p + n) % FIFO_DEPTH
<1> FIFO_DEPTH \in Nat \ {0} /\ p \in 0 .. FIFO_DEPTH - 1
  BY EncoderAssumption DEF Slot
<1>1. CASE p + n < FIFO_DEPTH
  <2>1. (p + n) % FIFO_DEPTH = p + n
    BY <1>1, Turn
  <2>2. p + n \in Slot
    BY <1>1 DEF Slot
  <2>3. (p + (n + 1)) % FIFO_DEPTH = IF p + n = FIFO_DEPTH - 1 THEN 0 ELSE p + n + 1
    BY <1>1, Turn
  <2>4. n > 0 => Next_ptr(p) = p + 1
    BY <1>1, NextPtr
  <2> QED BY <2>1, <2>2, <2>3, <2>4, NextPtr
<1>2. CASE p + n >= FIFO_DEPTH
  <2>1. (p + n) % FIFO_DEPTH = p + n - FIFO_DEPTH
    BY <1>2, Turn
  <2>2. p + n - FIFO_DEPTH \in Slot
    BY <1>2 DEF Slot
  <2>3. n < FIFO_DEPTH => (p + (n + 1)) % FIFO_DEPTH = p + n + 1 - FIFO_DEPTH
    BY <1>2, Turn
  <2>4. n < FIFO_DEPTH => p + n - FIFO_DEPTH # FIFO_DEPTH - 1
    BY <1>2
  <2>5. CASE p = FIFO_DEPTH - 1
    <3>1. Next_ptr(p) = 0
      BY <2>5, NextPtr
    <3>2. n > 0 => (n - 1) % FIFO_DEPTH = n - 1
      BY Turn
    <3> QED BY <2>1, <2>2, <2>3, <2>4, <2>5, <3>1, <3>2, NextPtr
  <2>6. CASE p # FIFO_DEPTH - 1
    <3>1. Next_ptr(p) = p + 1
      BY <2>6, NextPtr
    <3>2. n > 0 => (p + 1) + (n - 1) = p + n
      OBVIOUS
    <3> QED BY <2>1, <2>2, <2>3, <2>4, <3>1, <3>2, NextPtr
  <2> QED BY <2>5, <2>6
<1> QED BY <1>1, <1>2

\* The invariant of the encoder holds after reset.
LEMMA EncoderStarts == Init => EncoderInv
<1> SUFFICES ASSUME Init PROVE EncoderInv
  OBVIOUS
<1>1. TypeOK
  BY EncoderAssumption DEF Init, TypeOK, Slot
<1>2. RingConsistent
  BY EncoderAssumption, Turn DEF Init, RingConsistent
<1> QED BY <1>1, <1>2 DEF EncoderInv

\* The serializer keeps its types and moves the read pointer with a pop.
LEMMA SerializerStep ==
  ASSUME TypeOK, Serialize
  PROVE  /\ rd_ptr_q' = IF pop_ok THEN Next_ptr(rd_ptr_q) ELSE rd_ptr_q
         /\ rd_ptr_q' \in Slot
         /\ state_q' \in {"ST_IDLE", "ST_SEND"}
         /\ byte_idx_q' \in 0 .. FRAME_LEN - 1
         /\ cur_intent_q' \in Order \cup {NoOrder}
         /\ cur_token_q' \in 0 .. TokenMod - 1 /\ order_count' \in 0 .. TokenMod - 1
<1>1. rd_ptr_q' \in Slot
  BY EncoderAssumption, NextPtr DEF TypeOK, Serialize, Slot
<1>2. byte_idx_q' \in 0 .. FRAME_LEN - 1
  BY EncoderAssumption DEF TypeOK, Serialize, LastByte, Sending
<1>3. order_count' \in 0 .. TokenMod - 1
  BY EncoderAssumption DEF TypeOK, Serialize
<1>4. state_q' \in {"ST_IDLE", "ST_SEND"}
  BY DEF TypeOK, Serialize
<1>5. cur_intent_q' \in Order \cup {NoOrder} /\ cur_token_q' \in 0 .. TokenMod - 1
  BY DEF TypeOK, Serialize
<1> QED BY <1>1, <1>2, <1>3, <1>4, <1>5 DEF Serialize

\* A pop needs an order, and frees one slot.
LEMMA PopStep ==
  ASSUME TypeOK
  PROVE  /\ Popped \in {0, 1}
         /\ Popped = 1 <=> pop_ok
         /\ Popped <= count_q
  BY EncoderAssumption DEF TypeOK, Popped, pop_ok

\* The ring on an edge that writes n orders, n being 0 or 1.
LEMMA RingStep ==
  ASSUME EncoderInv, Serialize, NEW n \in {0, 1},
         count_q' = count_q + n - Popped, count_q' \in 0 .. FIFO_DEPTH,
         n = 1 => count_q < FIFO_DEPTH \/ pop_ok,
         wr_ptr_q' = IF n = 1 THEN Next_ptr(wr_ptr_q) ELSE wr_ptr_q
  PROVE  wr_ptr_q' \in Slot /\ RingConsistent'
<1> DEFINE rd == rd_ptr_q  k == count_q
<1>1. rd \in Slot /\ k \in 0 .. FIFO_DEPTH /\ wr_ptr_q = (rd + k) % FIFO_DEPTH
  BY DEF EncoderInv, TypeOK, RingConsistent
<1>2. FIFO_DEPTH \in Nat \ {0}
  BY EncoderAssumption
<1>3. rd_ptr_q' = IF pop_ok THEN Next_ptr(rd) ELSE rd
  BY SerializerStep DEF EncoderInv
<1>4. Popped = (IF pop_ok THEN 1 ELSE 0) /\ (pop_ok => k > 0)
  BY <1>1 DEF Popped, pop_ok
<1>5. wr_ptr_q' \in Slot
  BY <1>1, <1>2, NextPtr DEF EncoderInv, TypeOK, Slot
<1>6. CASE n = 0
  BY <1>1, <1>2, <1>3, <1>4, <1>5, <1>6, Ahead DEF RingConsistent
<1>7. CASE n = 1 /\ ~pop_ok
  BY <1>1, <1>2, <1>3, <1>4, <1>5, <1>7, Ahead DEF RingConsistent
<1>8. CASE n = 1 /\ pop_ok
  <2>1. Next_ptr(wr_ptr_q) = (Next_ptr(rd) + k) % FIFO_DEPTH
    <3>1. (Next_ptr(rd) + (k - 1)) % FIFO_DEPTH = wr_ptr_q
      BY <1>1, <1>4, <1>8, Ahead
    <3>2. Next_ptr(rd) \in Slot /\ k - 1 \in 0 .. FIFO_DEPTH /\ k - 1 < FIFO_DEPTH
      BY <1>1, <1>2, <1>4, <1>8, NextPtr DEF Slot
    <3>3. Next_ptr((Next_ptr(rd) + (k - 1)) % FIFO_DEPTH)
            = (Next_ptr(rd) + ((k - 1) + 1)) % FIFO_DEPTH
      BY <3>2, Ahead
    <3> QED BY <3>1, <3>3, <1>1
  <2> QED BY <2>1, <1>1, <1>3, <1>4, <1>5, <1>8 DEF RingConsistent
<1> QED BY <1>6, <1>7, <1>8, <1>5

\* Every edge of the encoder keeps its invariant.
LEMMA EncoderStep ==
  ASSUME EncoderInv, [Next]_vars
  PROVE  EncoderInv'
<1> USE EncoderAssumption
<1>1. ASSUME NEW order \in Order, Push(order) PROVE EncoderInv'
  <2>1. count_q' = count_q + 1 - Popped /\ count_q' \in 0 .. FIFO_DEPTH
    BY <1>1, PopStep DEF Push, HasRoom, EncoderInv, TypeOK
  <2>2. wr_ptr_q' \in Slot /\ RingConsistent'
    BY <1>1, <2>1, RingStep DEF Push, HasRoom
  <2>3. queue_mem' \in [Slot -> Order \cup {NoOrder}] /\ fifo_drop_count' = fifo_drop_count
    BY <1>1 DEF Push, EncoderInv, TypeOK
  <2> QED BY <1>1, <2>1, <2>2, <2>3, SerializerStep DEF Push, EncoderInv, TypeOK
<1>2. ASSUME Drop PROVE EncoderInv'
  <2>1. count_q' = count_q + 0 - Popped /\ count_q' \in 0 .. FIFO_DEPTH
    BY <1>2, PopStep DEF Drop, EncoderInv, TypeOK
  <2>2. wr_ptr_q' \in Slot /\ RingConsistent'
    BY <1>2, <2>1, RingStep DEF Drop
  <2>3. fifo_drop_count' \in 0 .. CountMod - 1
    BY <1>2 DEF Drop, EncoderInv, TypeOK
  <2> QED BY <1>2, <2>1, <2>2, <2>3, SerializerStep DEF Drop, EncoderInv, TypeOK
<1>3. ASSUME NoInput PROVE EncoderInv'
  <2>1. count_q' = count_q + 0 - Popped /\ count_q' \in 0 .. FIFO_DEPTH
    BY <1>3, PopStep DEF NoInput, EncoderInv, TypeOK
  <2>2. wr_ptr_q' \in Slot /\ RingConsistent'
    BY <1>3, <2>1, RingStep DEF NoInput
  <2> QED BY <1>3, <2>1, <2>2, SerializerStep DEF NoInput, EncoderInv, TypeOK
<1>4. ASSUME Reset PROVE EncoderInv'
  <2>1. TypeOK'
    BY <1>4 DEF Reset, EncoderInv, TypeOK, Slot
  <2>2. RingConsistent'
    BY <1>4, Turn DEF Reset, RingConsistent
  <2> QED BY <2>1, <2>2 DEF EncoderInv
<1>5. ASSUME UNCHANGED vars PROVE EncoderInv'
  BY <1>5 DEF vars, ring, serializer, EncoderInv, TypeOK, RingConsistent
<1> QED BY <1>1, <1>2, <1>3, <1>4, <1>5 DEF Next

\* In every behaviour the registers keep their types and the write pointer is
\* count slots ahead of the read pointer.
THEOREM Invariant == Spec => []EncoderInv
  BY EncoderStarts, EncoderStep, PTL DEF Spec

\* For every depth of the ring, a push never lands on an order that waits,
\* pushes and pops on one edge of a full ring included (lines 83-88).
THEOREM RingIsConsistent == Spec => []RingConsistent
<1>1. EncoderInv => RingConsistent
  BY DEF EncoderInv
<1> QED BY Invariant, <1>1, PTL
-----------------------------------------------------------------------------
(* The refinement.                                                          *)

Stored == Order \cup {NoOrder}

\* k slots of a ring, from slot rd on.
View(mem, rd, k) == [i \in 1 .. k |-> mem[(rd + (i - 1)) % FIFO_DEPTH]]

\* What the ring holds from rd on is a sequence, slot by slot.
LEMMA ViewIsSeq ==
  ASSUME NEW mem \in [Slot -> Stored], NEW rd \in Slot, NEW k \in 0 .. FIFO_DEPTH
  PROVE  /\ View(mem, rd, k) \in Seq(Stored)
         /\ Len(View(mem, rd, k)) = k
         /\ DOMAIN View(mem, rd, k) = 1 .. k
         /\ \A i \in 1 .. k : View(mem, rd, k)[i] = mem[(rd + (i - 1)) % FIFO_DEPTH]
<1>1. k \in Nat
  BY EncoderAssumption
<1>2. \A i \in 1 .. k : (rd + (i - 1)) % FIFO_DEPTH \in Slot
  BY EncoderAssumption, Ahead
<1>3. View(mem, rd, k) \in [1 .. k -> Stored]
  BY <1>2 DEF View
<1>4. View(mem, rd, k) \in Seq(Stored) /\ Len(View(mem, rd, k)) = k
  BY <1>1, <1>3
<1> QED BY <1>3, <1>4 DEF View

\* A pop takes the slot the read pointer names.
LEMMA ViewTail ==
  ASSUME NEW mem \in [Slot -> Stored], NEW rd \in Slot, NEW k \in 1 .. FIFO_DEPTH
  PROVE  /\ View(mem, rd, k) # << >>
         /\ Head(View(mem, rd, k)) = mem[rd]
         /\ Tail(View(mem, rd, k)) = View(mem, Next_ptr(rd), k - 1)
<1> DEFINE q == View(mem, rd, k)
           t == View(mem, Next_ptr(rd), k - 1)
<1>1. Next_ptr(rd) \in Slot /\ k - 1 \in 0 .. FIFO_DEPTH /\ k \in 0 .. FIFO_DEPTH
  BY EncoderAssumption, NextPtr DEF Slot
<1>2. /\ q \in Seq(Stored) /\ Len(q) = k
      /\ \A i \in 1 .. k : q[i] = mem[(rd + (i - 1)) % FIFO_DEPTH]
  BY <1>1, ViewIsSeq
<1>3. /\ t \in Seq(Stored) /\ Len(t) = k - 1
      /\ \A i \in 1 .. k - 1 : t[i] = mem[(Next_ptr(rd) + (i - 1)) % FIFO_DEPTH]
  BY <1>1, ViewIsSeq
<1>4. q # << >> /\ Head(q) = q[1]
  BY <1>2
<1>5. q[1] = mem[rd]
  <2>1. (rd + 0) % FIFO_DEPTH = rd
    BY EncoderAssumption, Turn DEF Slot
  <2> QED BY <1>2, <2>1
<1>6. Tail(q) \in Seq(Stored) /\ Len(Tail(q)) = k - 1
  BY <1>2, <1>4
<1>7. ASSUME NEW i \in 1 .. k - 1 PROVE Tail(q)[i] = t[i]
  <2>1. Tail(q)[i] = q[i + 1]
    BY <1>2, <1>4
  <2>2. q[i + 1] = mem[(rd + i) % FIFO_DEPTH]
    BY <1>2
  <2>3. (Next_ptr(rd) + (i - 1)) % FIFO_DEPTH = (rd + i) % FIFO_DEPTH
    <3>1. i \in 0 .. FIFO_DEPTH /\ i > 0
      BY EncoderAssumption
    <3> QED BY <3>1, Ahead
  <2> QED BY <2>1, <2>2, <2>3, <1>3
<1>8. Tail(q) = t
  BY <1>3, <1>6, <1>7, SeqEqual
<1> QED BY <1>4, <1>5, <1>8

\* Fewer than a turn of slots, all different.
LEMMA Apart ==
  ASSUME NEW rd \in Slot, NEW k \in 0 .. FIFO_DEPTH - 1, NEW i \in 0 .. k - 1
  PROVE  (rd + i) % FIFO_DEPTH # (rd + k) % FIFO_DEPTH
<1>1. rd \in 0 .. FIFO_DEPTH - 1 /\ FIFO_DEPTH \in Nat \ {0}
  BY EncoderAssumption DEF Slot
<1>2. (rd + i) % FIFO_DEPTH = IF rd + i < FIFO_DEPTH THEN rd + i ELSE rd + i - FIFO_DEPTH
  BY <1>1, Turn
<1>3. (rd + k) % FIFO_DEPTH = IF rd + k < FIFO_DEPTH THEN rd + k ELSE rd + k - FIFO_DEPTH
  BY <1>1, Turn
<1> QED BY <1>1, <1>2, <1>3

\* A push writes the slot behind those that wait.
LEMMA ViewAppend ==
  ASSUME NEW mem \in [Slot -> Stored], NEW rd \in Slot,
         NEW k \in 0 .. FIFO_DEPTH - 1, NEW order \in Order
  PROVE  View([mem EXCEPT ![(rd + k) % FIFO_DEPTH] = order], rd, k + 1)
           = Append(View(mem, rd, k), order)
<1> DEFINE new == [mem EXCEPT ![(rd + k) % FIFO_DEPTH] = order]
           q == View(mem, rd, k)
           v == View(new, rd, k + 1)
<1>1. k \in 0 .. FIFO_DEPTH /\ k + 1 \in 0 .. FIFO_DEPTH /\ k \in Nat
  BY EncoderAssumption
<1>2. (rd + k) % FIFO_DEPTH \in Slot
  BY <1>1, Ahead
<1>3. new \in [Slot -> Stored]
  BY DEF Stored
<1>4. /\ q \in Seq(Stored) /\ Len(q) = k
      /\ \A i \in 1 .. k : q[i] = mem[(rd + (i - 1)) % FIFO_DEPTH]
  BY <1>1, ViewIsSeq
<1> HIDE DEF q
<1>5. /\ v \in Seq(Stored) /\ Len(v) = k + 1
      /\ \A i \in 1 .. k + 1 : v[i] = new[(rd + (i - 1)) % FIFO_DEPTH]
  BY <1>1, <1>3, ViewIsSeq
<1>6. order \in Stored
  BY DEF Stored
<1>7. /\ Append(q, order) \in Seq(Stored) /\ Len(Append(q, order)) = k + 1
      /\ \A i \in 1 .. k : Append(q, order)[i] = q[i]
      /\ Append(q, order)[k + 1] = order
  BY <1>4, <1>6
<1> HIDE DEF new, v
<1>8. ASSUME NEW i \in 1 .. k + 1 PROVE v[i] = Append(q, order)[i]
  <2>1. CASE i = k + 1
    <3>1. v[i] = new[(rd + k) % FIFO_DEPTH]
      <4>1. (k + 1) - 1 = k
        BY <1>1
      <4> QED BY <1>5, <2>1, <4>1
    <3>2. new[(rd + k) % FIFO_DEPTH] = order
      BY <1>2 DEF new
    <3> QED BY <1>7, <2>1, <3>1, <3>2
  <2>2. CASE i \in 1 .. k
    <3>1. i - 1 \in 0 .. k - 1 /\ i - 1 \in 0 .. FIFO_DEPTH
      BY <1>1, <2>2, EncoderAssumption
    <3>2. (rd + (i - 1)) % FIFO_DEPTH # (rd + k) % FIFO_DEPTH
      BY <3>1, Apart
    <3>3. (rd + (i - 1)) % FIFO_DEPTH \in Slot
      BY <3>1, Ahead
    <3>4. new[(rd + (i - 1)) % FIFO_DEPTH] = mem[(rd + (i - 1)) % FIFO_DEPTH]
      BY <3>2, <3>3 DEF new
    <3>5. v[i] = new[(rd + (i - 1)) % FIFO_DEPTH] /\ Append(q, order)[i] = q[i]
          /\ q[i] = mem[(rd + (i - 1)) % FIFO_DEPTH]
      BY <1>4, <1>5, <1>7, <2>2
    <3> QED BY <3>4, <3>5
  <2>3. i = k + 1 \/ i \in 1 .. k
    BY <1>1
  <2> QED BY <2>1, <2>2, <2>3
<1>9. v = Append(q, order)
  BY <1>5, <1>7, <1>8, SeqEqual
<1> QED BY <1>9 DEF v, q, new

\* What waits once the oldest order, if it starts, is gone.
LEMMA WaitingStep ==
  ASSUME EncoderInv, Serialize
  PROVE  /\ Wire!FrameDone <=> ~Sending \/ LastByte
         /\ Wire!Starts <=> pop_ok
         /\ Wire!Waiting = View(queue_mem, rd_ptr_q', count_q - Popped)
         /\ Len(Wire!Waiting) = count_q - Popped
         /\ rd_ptr_q' \in Slot /\ count_q - Popped \in 0 .. FIFO_DEPTH
<1>1. /\ queue_mem \in [Slot -> Stored] /\ rd_ptr_q \in Slot
      /\ count_q \in 0 .. FIFO_DEPTH
  BY DEF EncoderInv, TypeOK, Stored
<1>2. Queued = View(queue_mem, rd_ptr_q, count_q) /\ Len(Queued) = count_q
  BY <1>1, ViewIsSeq DEF Queued, View
<1>3. Wire!FrameDone <=> ~Sending \/ LastByte
  <2>1. Sending => OnWire # Nothing /\ OnWire.byte = byte_idx_q
    BY NothingAssumption, EncoderAssumption DEF OnWire, EncoderInv, TypeOK
  <2> QED BY <2>1 DEF Wire!FrameDone, OnWire, LastByte
<1>4. Queued # << >> <=> count_q > 0
  <2>1. CASE count_q = 0
    BY <1>1, <1>2, <2>1, ViewIsSeq, EmptySeq
  <2>2. CASE count_q > 0
    BY <1>1, <1>2, <2>2, ViewTail
  <2> QED BY <1>1, <2>1, <2>2
<1>5. Wire!Starts <=> pop_ok
  BY <1>3, <1>4 DEF Wire!Starts, pop_ok
<1>6. rd_ptr_q' = (IF pop_ok THEN Next_ptr(rd_ptr_q) ELSE rd_ptr_q) /\ rd_ptr_q' \in Slot
  BY SerializerStep DEF EncoderInv
<1>7. count_q - Popped \in 0 .. FIFO_DEPTH /\ (pop_ok => count_q \in 1 .. FIFO_DEPTH)
  BY <1>1, EncoderAssumption DEF Popped, pop_ok
<1>8. Wire!Waiting = View(queue_mem, rd_ptr_q', count_q - Popped)
  <2>1. CASE pop_ok
    BY <1>1, <1>2, <1>5, <1>6, <1>7, <2>1, ViewTail DEF Wire!Waiting, Popped
  <2>2. CASE ~pop_ok
    BY <1>1, <1>2, <1>5, <1>6, <2>2 DEF Wire!Waiting, Popped
  <2> QED BY <2>1, <2>2
<1>9. Len(Wire!Waiting) = count_q - Popped
  BY <1>1, <1>6, <1>7, <1>8, ViewIsSeq
<1> QED BY <1>3, <1>5, <1>6, <1>7, <1>8, <1>9

\* Every edge moves the wire as the queue's does.
LEMMA WireStep ==
  ASSUME EncoderInv, Serialize
  PROVE  Wire!Wire
<1>1. (Wire!FrameDone <=> ~Sending \/ LastByte) /\ (Wire!Starts <=> pop_ok)
  BY WaitingStep
<1>2. order_count' = IF Wire!Starts THEN (order_count + 1) % TokenMod ELSE order_count
  BY <1>1 DEF Serialize
<1>3. OnWire' = IF Wire!Starts THEN [order |-> Head(Queued), token |-> order_count, byte |-> 0]
                ELSE IF Wire!FrameDone THEN Nothing ELSE [OnWire EXCEPT !.byte = @ + 1]
  <2>1. CASE pop_ok
    <3>1. /\ queue_mem \in [Slot -> Stored] /\ rd_ptr_q \in Slot
          /\ count_q \in 1 .. FIFO_DEPTH
      BY <2>1, EncoderAssumption DEF EncoderInv, TypeOK, Stored, pop_ok
    <3>2. Head(Queued) = queue_mem[rd_ptr_q]
      BY <3>1, ViewTail DEF Queued, View
    <3> QED BY <1>1, <2>1, <3>2 DEF Serialize, OnWire, Sending
  <2>2. CASE ~pop_ok /\ (~Sending \/ LastByte)
    BY <1>1, <2>2 DEF Serialize, OnWire, Sending, LastByte, EncoderInv, TypeOK
  <2>3. CASE ~pop_ok /\ Sending /\ ~LastByte
    BY <1>1, <2>3 DEF Serialize, OnWire, Sending
  <2> QED BY <2>1, <2>2, <2>3
<1> QED BY <1>2, <1>3 DEF Wire!Wire

\* After reset the encoder is an empty queue.
LEMMA QueueStarts == Init => Wire!Init
<1> SUFFICES ASSUME Init PROVE Wire!Init
  OBVIOUS
<1>1. Queued = << >>
  BY DEF Init, Queued
<1> QED BY <1>1 DEF Init, Wire!Init, OnWire, Sending

\* Every edge of the encoder is a step of the queue.
LEMMA QueueStep ==
  ASSUME EncoderInv, EncoderInv', [Next]_vars
  PROVE  [Wire!Next]_(Wire!vars)
<1> USE EncoderAssumption
<1>0. Queued' = View(queue_mem', rd_ptr_q', count_q')
  BY DEF Queued, View
<1>1. ASSUME NEW order \in Order, Push(order) PROVE Wire!Take(order)
  <2>1. Serialize
    BY <1>1 DEF Push
  <2>2. /\ Wire!Waiting = View(queue_mem, rd_ptr_q', count_q - Popped)
        /\ Len(Wire!Waiting) = count_q - Popped
        /\ rd_ptr_q' \in Slot /\ count_q - Popped \in 0 .. FIFO_DEPTH
    BY <2>1, WaitingStep
  <2>3. count_q - Popped \in 0 .. FIFO_DEPTH - 1
    BY <1>1, <2>2 DEF Push, HasRoom, Popped, EncoderInv, TypeOK
  <2>4. wr_ptr_q = (rd_ptr_q' + (count_q - Popped)) % FIFO_DEPTH
    <3>1. wr_ptr_q = (rd_ptr_q + count_q) % FIFO_DEPTH /\ rd_ptr_q \in Slot
          /\ count_q \in 0 .. FIFO_DEPTH
      BY DEF EncoderInv, RingConsistent, TypeOK
    <3>2. CASE pop_ok
      BY <2>1, <3>1, <3>2, Ahead DEF Serialize, Popped, pop_ok
    <3>3. CASE ~pop_ok
      BY <2>1, <3>1, <3>3 DEF Serialize, Popped
    <3> QED BY <3>2, <3>3
  <2>5. Queued' = Append(Wire!Waiting, order)
    <3>1. queue_mem \in [Slot -> Stored]
      BY DEF EncoderInv, TypeOK, Stored
    <3>2. /\ queue_mem' = [queue_mem EXCEPT ![wr_ptr_q] = order]
          /\ count_q' = (count_q - Popped) + 1
      BY <1>1, <2>2 DEF Push, Popped, EncoderInv, TypeOK
    <3> QED BY <1>0, <2>2, <2>3, <2>4, <3>1, <3>2, ViewAppend
  <2> QED BY <1>1, <2>1, <2>2, <2>3, <2>5, WireStep DEF Wire!Take, Push
<1>2. ASSUME Drop PROVE Wire!Refuse
  <2>1. Serialize
    BY <1>2 DEF Drop
  <2>2. /\ Wire!Waiting = View(queue_mem, rd_ptr_q', count_q - Popped)
        /\ Len(Wire!Waiting) = count_q - Popped
    BY <2>1, WaitingStep
  <2>3. count_q - Popped >= FIFO_DEPTH
    BY <1>2 DEF Drop, HasRoom, Popped, EncoderInv, TypeOK
  <2> QED BY <1>0, <1>2, <2>1, <2>2, <2>3, WireStep DEF Wire!Refuse, Drop
<1>3. ASSUME NoInput PROVE Wire!NoArrival
  <2>1. Serialize
    BY <1>3 DEF NoInput
  <2>2. Wire!Waiting = View(queue_mem, rd_ptr_q', count_q - Popped)
    BY <2>1, WaitingStep
  <2> QED BY <1>0, <1>3, <2>1, <2>2, WireStep DEF Wire!NoArrival, NoInput
<1>4. ASSUME Reset PROVE Wire!Restart
  <2>1. Queued' = << >>
    BY <1>4 DEF Reset, Queued
  <2> QED BY <1>4, <2>1 DEF Reset, Wire!Restart, OnWire, Sending
<1>5. ASSUME UNCHANGED vars PROVE UNCHANGED Wire!vars
  BY <1>5 DEF vars, ring, serializer, Wire!vars, Queued, OnWire, Sending
<1> QED BY <1>1, <1>2, <1>3, <1>4, <1>5 DEF Next, Wire!Next

\* For every depth of the ring and length of a frame the encoder is a bounded
\* queue whose orders leave in turn with consecutive tokens, and which loses an
\* order only when it is full and counts it (model/ouch.py, encode).
THEOREM EncoderImplementsQueue == Spec => ImplementsQueue
  BY Invariant, QueueStarts, QueueStep, PTL DEF Spec, ImplementsQueue, Wire!Spec
=============================================================================
