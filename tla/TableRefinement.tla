--------------------------- MODULE TableRefinement ---------------------------
(***************************************************************************)
(* The hashed table of BookRouter implements the dictionary of             *)
(* RestingOrders.                                                          *)
(***************************************************************************)
EXTENDS BookRouter

CONSTANTS Nothing, MayOverflow

Order == [book_idx : BookIdx, side : Side, price : Price \cup {0}, shares : Shares]

\* What the dictionary may still have to do, and that "nothing" is none of it.
Todo ==
  [do : {"put"}, id : OrderId, order : Order]
  \cup [do : {"take"}, id : OrderId, shares : Shares]
  \cup [do : {"pop"}, id : OrderId]
  \cup [do : {"popput"}, id : OrderId, new : OrderId, price : Price \cup {0},
         shares : Shares]

ASSUME NothingAssumption == Nothing \notin Todo /\ MayOverflow \in BOOLEAN

OrderOf(e) == [book_idx |-> e.book_idx, side |-> e.side, price |-> e.price,
               shares |-> e.shares]

SlotOf(id) == CHOOSE a \in Addr : LiveAt(id, a)

\* The table is the dictionary of its live slots; during the sweep it is empty.
MappedOrders ==
  IF Swept THEN [id \in LiveIds |-> OrderOf(mem[SlotOf(id)])] ELSE << >>

MappedTodo ==
  CASE state_q \in {"S_CLEAR", "S_IDLE"} -> Nothing
    [] state_q = "S_INS" ->
         [do |-> "put", id |-> req_q.ins_id,
          order |-> [book_idx |-> req_q.idx, side |-> req_q.side, price |-> req_q.price,
                     shares |-> req_q.shares]]
    [] state_q = "S_LOOK" /\ Reduces ->
         [do |-> "take", id |-> req_q.oid, shares |-> req_q.shares]
    [] state_q = "S_LOOK" /\ req_q.kind = "DELETE" ->
         [do |-> "pop", id |-> req_q.oid]
    [] state_q = "S_LOOK" /\ req_q.kind = "REPLACE" ->
         [do |-> "popput", id |-> req_q.oid, new |-> req_q.ins_id,
          price |-> req_q.price, shares |-> req_q.shares]

Dict == INSTANCE RestingOrders
          WITH orders <- MappedOrders, todo <- MappedTodo,
               op <- IF out_valid THEN out_op ELSE Nothing,
               drops <- drop_count, fulls <- table_full_count

\* Every edge of the table is one dictionary operation of
\* MarketModel.on_message or none: the same hits, the same misses, the same
\* book operations with the same values (model/book.py, lines 111-173).
ImplementsDictionary == Dict!Spec
=============================================================================
