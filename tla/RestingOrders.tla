---------------------------- MODULE RestingOrders ----------------------------
(***************************************************************************)
(* What the resting-order table promises: the dictionary                   *)
(* MarketModel.orders of model/book.py, one dictionary operation at a      *)
(* time.  A message is taken into todo, and each later step performs one   *)
(* operation of MarketModel.on_message on the dictionary and hands the     *)
(* book operation it calls for to the books through op.                    *)
(***************************************************************************)
EXTENDS Integers, Functions

CONSTANTS
  OrderId,
  Order,        \* what is known of an order: [book_idx, side, price, shares]
  Nothing,      \* no message being handled, or no operation
  CountMod,     \* the counters wrap
  MayOverflow   \* may a bounded table drop an insert?

VARIABLES
  orders,   \* partial function from ids to orders
  todo,     \* the operation on orders that comes next
  op,       \* the book operation of the last step, Nothing if none
  drops,    \* lookups of unknown ids and adds of untracked symbols
  fulls     \* inserts dropped by a bounded table

vars == <<orders, todo, op, drops, fulls>>

Put(id, order) == [do |-> "put", id |-> id, order |-> order]

\* todo after a message on an order id: how much it takes ("take" a number of
\* shares, or "pop" all of them) and, for REPLACE, the put that follows.
Take(id, n)         == [do |-> "take", id |-> id, shares |-> n]
Pop(id)             == [do |-> "pop", id |-> id]
PopPut(id, new, p, n) == [do |-> "popput", id |-> id, new |-> new, price |-> p, shares |-> n]

Without(f, id) == Restrict(f, DOMAIN f \ {id})
With(f, id, order) == [x \in DOMAIN f \cup {id} |-> IF x = id THEN order ELSE f[x]]

BookOp(o, order, n) ==
  [op |-> o, book_idx |-> order.book_idx, side |-> order.side,
   price |-> order.price, shares |-> n]

Init == orders = << >> /\ todo = Nothing /\ op = Nothing /\ drops = 0 /\ fulls = 0

\* The dictionary starts empty again.
Restart == orders' = << >> /\ todo' = Nothing /\ op' = Nothing /\ drops' = 0 /\ fulls' = 0

Receive ==
  /\ todo = Nothing
  /\ todo' # Nothing
  /\ op' = Nothing
  /\ UNCHANGED <<orders, drops, fulls>>

\* An add for a symbol without a book.
Untracked ==
  /\ todo = Nothing
  /\ todo' = Nothing
  /\ drops' = (drops + 1) % CountMod
  /\ op' = Nothing
  /\ UNCHANGED <<orders, fulls>>

Pause == op' = Nothing /\ UNCHANGED <<orders, todo, drops, fulls>>

DoPut ==
  /\ todo # Nothing /\ todo.do = "put"
  /\ orders' = With(orders, todo.id, todo.order)
  /\ op' = BookOp("OP_ADD", todo.order, todo.order.shares)
  /\ todo' = Nothing
  /\ UNCHANGED <<drops, fulls>>

\* The divergence the table admits to: the insert is lost, and counted.
DropPut ==
  /\ MayOverflow
  /\ todo # Nothing /\ todo.do = "put" /\ todo.id \notin DOMAIN orders
  /\ fulls' = (fulls + 1) % CountMod
  /\ op' = Nothing
  /\ todo' = Nothing
  /\ UNCHANGED <<orders, drops>>

DoTake ==
  /\ todo # Nothing /\ todo.do = "take" /\ todo.id \in DOMAIN orders
  /\ LET order == orders[todo.id] IN
       /\ op' = BookOp("OP_REDUCE", order, todo.shares)
       /\ orders' = IF order.shares <= todo.shares
                    THEN Without(orders, todo.id)
                    ELSE [orders EXCEPT ![todo.id].shares = @ - todo.shares]
  /\ todo' = Nothing
  /\ UNCHANGED <<drops, fulls>>

DoPop ==
  /\ todo # Nothing /\ todo.do \in {"pop", "popput"} /\ todo.id \in DOMAIN orders
  /\ LET order == orders[todo.id] IN
       /\ op' = BookOp("OP_REDUCE", order, order.shares)
       /\ todo' = IF todo.do = "pop" THEN Nothing
                  ELSE Put(todo.new, [book_idx |-> order.book_idx, side |-> order.side,
                                      price |-> todo.price, shares |-> todo.shares])
  /\ orders' = Without(orders, todo.id)
  /\ UNCHANGED <<drops, fulls>>

Miss ==
  /\ todo # Nothing /\ todo.do # "put" /\ todo.id \notin DOMAIN orders
  /\ drops' = (drops + 1) % CountMod
  /\ op' = Nothing
  /\ todo' = Nothing
  /\ UNCHANGED <<orders, fulls>>

Next == Restart \/ Receive \/ Untracked \/ Pause \/ DoPut \/ DropPut \/ DoTake
        \/ DoPop \/ Miss

Spec == Init /\ [][Next]_vars
=============================================================================
