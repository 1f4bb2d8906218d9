----------------------------- MODULE BookRouter -----------------------------
(***************************************************************************)
(* rtl/book_router.sv: the symbol filter and the hashed resting-order      *)
(* table.  One step of Next is one rising clock edge.                      *)
(*                                                                         *)
(* A free slot is either never used or a tombstone; a lookup probes        *)
(* through tombstones and stops at a never-used slot or after MAX_PROBES   *)
(* slots.  REPLACE frees its old slot on the edge that launches the first  *)
(* probe for the new id, so the read port needs the write-first bypass.    *)
(*                                                                         *)
(* Abstractions.  kind_q .. side_q are one record req_q.  Registers that   *)
(* the FSM never reads before writing them again (the request, address,    *)
(* probe count and read data in S_IDLE; the operation when out_valid is    *)
(* low) are set to a fixed value instead of holding their last one.        *)
(* rd_data stands for the bypass mux over its three registers.             *)
(***************************************************************************)
EXTENDS Integers, FiniteSets

CONSTANTS
  OrderId,      \* order reference numbers
  Symbol,       \* stock symbols that occur in the feed
  NoSymbol,     \* the all-zero symbol: an unused SYMBOLS slot
  NUM_SYMBOLS,  \* number of books
  SYMBOLS,      \* configured symbols, a function on 0 .. NUM_SYMBOLS - 1
  DEPTH,        \* slots of the table, 2^TABLE_ADDR_W
  MAX_PROBES,   \* length of a probe window
  Hash,         \* hash_fold as a function on OrderId
  Price,        \* prices that occur in the feed
  MaxShares,    \* largest share count of a message
  CountMod,     \* 2^32: the counters wrap
  PowerUp,      \* what an uninitialised memory word may hold
  ReuseIds      \* may the feed name a live id in an ADD or as a REPLACE's new id?

BookIdx == 0 .. NUM_SYMBOLS - 1
Addr    == 0 .. DEPTH - 1
Shares  == 0 .. MaxShares
Side    == {0, 1}            \* 1 = bid, 0 = ask

Entry == [vld : BOOLEAN, tomb : BOOLEAN, order_id : OrderId \cup {0},
          book_idx : BookIdx, side : Side, price : Price \cup {0},
          shares : Shares]

ASSUME TableAssumption ==
  /\ DEPTH \in Nat \ {0}
  /\ MAX_PROBES \in 1 .. DEPTH
  /\ OrderId \subseteq Nat
  /\ Hash \in [OrderId -> Addr]

ASSUME FilterAssumption ==
  /\ NUM_SYMBOLS \in Nat \ {0}
  /\ SYMBOLS \in [BookIdx -> Symbol \cup {NoSymbol}]
  /\ NoSymbol \notin Symbol

ASSUME DataAssumption ==
  /\ Price \subseteq Nat
  /\ MaxShares \in Nat
  /\ CountMod \in Nat \ {0}
  /\ PowerUp \subseteq Entry
  /\ ReuseIds \in BOOLEAN

-----------------------------------------------------------------------------
(* Messages (decoded_msg_t: a field the kind does not carry is zero) and    *)
(* operations (book_op_t).                                                  *)

Kind == {"ADD", "EXEC", "CANCEL", "DELETE", "REPLACE", "SYSTEM"}

Msg ==
  [kind : {"ADD"}, order_id : OrderId, new_order_id : {0}, side : Side,
   shares : Shares, price : Price, symbol : Symbol]
  \cup
  [kind : {"EXEC", "CANCEL"}, order_id : OrderId, new_order_id : {0}, side : {0},
   shares : Shares, price : {0}, symbol : {NoSymbol}]
  \cup
  [kind : {"DELETE"}, order_id : OrderId, new_order_id : {0}, side : {0},
   shares : {0}, price : {0}, symbol : {NoSymbol}]
  \cup
  [kind : {"REPLACE"}, order_id : OrderId, new_order_id : OrderId, side : {0},
   shares : Shares, price : Price, symbol : {NoSymbol}]
  \cup
  [kind : {"SYSTEM"}, order_id : {0}, new_order_id : {0}, side : {0},
   shares : {0}, price : {0}, symbol : {NoSymbol}]

Op == [op : {"OP_ADD", "OP_REDUCE"}, book_idx : BookIdx, side : Side,
       price : Price \cup {0}, shares : Shares]

BookOp(o, i, s, p, n) ==
  [op |-> o, book_idx |-> i, side |-> s, price |-> p, shares |-> n]

ZeroOp == BookOp("OP_ADD", 0, 0, 0, 0)

SlotEntry(id, i, s, p, n) ==
  [vld |-> TRUE, tomb |-> FALSE, order_id |-> id, book_idx |-> i, side |-> s,
   price |-> p, shares |-> n]

ZeroEntry == [SlotEntry(0, 0, 0, 0, 0) EXCEPT !.vld = FALSE]
TombstoneCleared == ZeroEntry                        \* mutant: frees to never-used
Tombstone == [ZeroEntry EXCEPT !.tomb = TRUE]

Request == [kind : Kind, oid : OrderId \cup {0}, ins_id : OrderId \cup {0},
            shares : Shares, price : Price \cup {0}, idx : BookIdx, side : Side]

NoRequest == [kind |-> "SYSTEM", oid |-> 0, ins_id |-> 0, shares |-> 0,
              price |-> 0, idx |-> 0, side |-> 0]

-----------------------------------------------------------------------------
VARIABLES
  state_q,           \* S_CLEAR, S_IDLE, S_LOOK or S_INS
  addr_q,            \* the address whose contents are in rd_data
  probe_q,           \* probe index of that address
  req_q,             \* the latched message
  mem,               \* the table
  rd_data,           \* the word read on the last edge
  out_valid, out_op, \* the registered operation for the books
  drop_count, table_full_count, occupancy

vars == <<state_q, addr_q, probe_q, req_q, mem, rd_data, out_valid, out_op,
          drop_count, table_full_count, occupancy>>

counters == <<drop_count, table_full_count, occupancy>>

busy == state_q # "S_IDLE"

-----------------------------------------------------------------------------
(* Combinational signals.                                                   *)

\* Two configured slots may hold the same symbol: the lowest index wins.
SymHit(s) == s # NoSymbol /\ \E i \in BookIdx : SYMBOLS[i] = s
SymIdx(s) == CHOOSE i \in BookIdx :
                 SYMBOLS[i] = s /\ \A j \in BookIdx : SYMBOLS[j] = s => i <= j

IdMatch == rd_data.vld /\ rd_data.order_id = req_q.oid

SlotFree == ~rd_data.vld

SlotNeverUsedOrTomb == ~rd_data.vld                  \* mutant: a tombstone ends a chain
SlotNeverUsed == ~rd_data.vld /\ ~rd_data.tomb

LastProbeLate == probe_q = MAX_PROBES                \* mutant: one probe too many
LastProbe == probe_q = MAX_PROBES - 1

InsHitNeverUsed ==                                   \* mutant: a tombstone is not used again
  SlotNeverUsed \/ rd_data.order_id = req_q.ins_id
InsHit == SlotFree \/ rd_data.order_id = req_q.ins_id

\* The address register has TABLE_ADDR_W bits and wraps.
NextAddr == IF addr_q = DEPTH - 1 THEN 0 ELSE addr_q + 1

\* EXEC and CANCEL free the slot when they take all that rests in it.
Reduces == req_q.kind \in {"EXEC", "CANCEL"}

FreesStrict == Reduces => rd_data.shares < req_q.shares   \* mutant: keeps an empty order
FreesAlways == TRUE                                       \* mutant: any execution frees
Frees == Reduces => rd_data.shares <= req_q.shares

\* Whether an insert or a hit moves the occupancy counter.
OccInc == SlotFree

OccDecNotReplace == Frees /\ req_q.kind # "REPLACE"        \* mutant: REPLACE not counted
OccDec == Frees

WrEn == \/ state_q = "S_CLEAR"
        \/ state_q = "S_LOOK" /\ IdMatch
        \/ state_q = "S_INS" /\ InsHit

WrData ==
  CASE state_q = "S_CLEAR" -> ZeroEntry
    [] state_q = "S_LOOK"  -> IF Frees THEN Tombstone
                              ELSE [rd_data EXCEPT !.shares = @ - req_q.shares]
    [] state_q = "S_INS"   -> SlotEntry(req_q.ins_id, req_q.idx, req_q.side,
                                        req_q.price, req_q.shares)

MemWrite == IF WrEn THEN [mem EXCEPT ![addr_q] = WrData] ELSE mem

\* The synchronous read port with its write-first bypass.
ReadPort(a) == IF WrEn /\ addr_q = a THEN WrData ELSE mem[a]

Count(c, inc) == IF inc THEN (c + 1) % CountMod ELSE c

-----------------------------------------------------------------------------
(* Register updates shared by the actions.                                  *)

Emit(op) == out_valid' = TRUE /\ out_op' = op
Quiet    == out_valid' = FALSE /\ out_op' = ZeroOp

GoIdle ==
  /\ state_q' = "S_IDLE"
  /\ addr_q' = 0 /\ probe_q' = 0
  /\ req_q' = NoRequest
  /\ rd_data' = ZeroEntry

\* Launch the first probe of id's window in FSM state s.
StartProbe(s, id) ==
  /\ state_q' = s
  /\ addr_q' = Hash[id] /\ probe_q' = 0
  /\ rd_data' = ReadPort(Hash[id])

NextProbeFreeTomb ==                                 \* mutant: tombstones cost no probe
  /\ addr_q' = NextAddr /\ probe_q' = IF SlotFree THEN probe_q ELSE probe_q + 1
  /\ rd_data' = ReadPort(NextAddr)
  /\ UNCHANGED <<state_q, req_q>>

NextProbe ==
  /\ addr_q' = NextAddr /\ probe_q' = probe_q + 1
  /\ rd_data' = ReadPort(NextAddr)
  /\ UNCHANGED <<state_q, req_q>>

-----------------------------------------------------------------------------
(* One action per branch of the FSM.                                        *)

\* The post-reset sweep writes every slot once.
Clear ==
  /\ state_q = "S_CLEAR"
  /\ mem' = MemWrite
  /\ IF addr_q = DEPTH - 1
     THEN GoIdle
     ELSE /\ addr_q' = addr_q + 1
          /\ UNCHANGED <<state_q, probe_q, req_q, rd_data>>
  /\ Quiet
  /\ UNCHANGED counters

\* No message, or a SYSTEM message, which is not even latched.
Idle ==
  /\ state_q = "S_IDLE"
  /\ mem' = MemWrite
  /\ Quiet
  /\ UNCHANGED <<state_q, addr_q, probe_q, req_q, rd_data, counters>>

\* An ADD for a symbol that is not configured.
AcceptUntracked(m) ==
  /\ state_q = "S_IDLE"
  /\ m.kind = "ADD" /\ ~SymHit(m.symbol)
  /\ mem' = MemWrite
  /\ drop_count' = Count(drop_count, TRUE)
  /\ Quiet
  /\ UNCHANGED <<state_q, addr_q, probe_q, req_q, rd_data, table_full_count,
                 occupancy>>

AcceptAdd(m) ==
  /\ state_q = "S_IDLE"
  /\ m.kind = "ADD" /\ SymHit(m.symbol)
  /\ mem' = MemWrite
  /\ req_q' = [kind |-> "ADD", oid |-> m.order_id, ins_id |-> m.order_id,
               shares |-> m.shares, price |-> m.price,
               idx |-> SymIdx(m.symbol), side |-> m.side]
  /\ StartProbe("S_INS", m.order_id)
  /\ Quiet
  /\ UNCHANGED counters

AcceptLookup(m) ==
  /\ state_q = "S_IDLE"
  /\ m.kind \in {"EXEC", "CANCEL", "DELETE", "REPLACE"}
  /\ mem' = MemWrite
  /\ req_q' = [kind |-> m.kind, oid |-> m.order_id, ins_id |-> m.new_order_id,
               shares |-> m.shares, price |-> m.price, idx |-> 0, side |-> 0]
  /\ StartProbe("S_LOOK", m.order_id)
  /\ Quiet
  /\ UNCHANGED counters

\* The id was found: reduce at the stored price, side and book.
LookHit ==
  /\ state_q = "S_LOOK" /\ IdMatch
  /\ mem' = MemWrite
  /\ Emit(BookOp("OP_REDUCE", rd_data.book_idx, rd_data.side, rd_data.price,
                 IF Reduces THEN req_q.shares ELSE rd_data.shares))
  /\ occupancy' = IF OccDec THEN occupancy - 1 ELSE occupancy
  /\ IF req_q.kind = "REPLACE"
     THEN /\ req_q' = [req_q EXCEPT !.idx = rd_data.book_idx, !.side = rd_data.side]
          /\ StartProbe("S_INS", req_q.ins_id)
     ELSE GoIdle
  /\ UNCHANGED <<drop_count, table_full_count>>

\* The probe chain ended without the id.
LookMiss ==
  /\ state_q = "S_LOOK" /\ ~IdMatch
  /\ SlotNeverUsed \/ LastProbe
  /\ mem' = MemWrite
  /\ drop_count' = Count(drop_count, TRUE)
  /\ GoIdle
  /\ Quiet
  /\ UNCHANGED <<table_full_count, occupancy>>

LookNext ==
  /\ state_q = "S_LOOK" /\ ~IdMatch
  /\ ~SlotNeverUsed /\ ~LastProbe
  /\ mem' = MemWrite
  /\ NextProbe
  /\ Quiet
  /\ UNCHANGED counters

\* A free slot, or one that already holds the id, takes the order.
InsWrite ==
  /\ state_q = "S_INS" /\ InsHit
  /\ mem' = MemWrite
  /\ Emit(BookOp("OP_ADD", req_q.idx, req_q.side, req_q.price, req_q.shares))
  /\ occupancy' = IF OccInc THEN occupancy + 1 ELSE occupancy
  /\ GoIdle
  /\ UNCHANGED <<drop_count, table_full_count>>

\* The whole probe window is taken: the order is dropped.
InsFull ==
  /\ state_q = "S_INS" /\ ~InsHit /\ LastProbe
  /\ mem' = MemWrite
  /\ table_full_count' = Count(table_full_count, TRUE)
  /\ GoIdle
  /\ Quiet
  /\ UNCHANGED <<drop_count, occupancy>>

InsNext ==
  /\ state_q = "S_INS" /\ ~InsHit /\ ~LastProbe
  /\ mem' = MemWrite
  /\ NextProbe
  /\ Quiet
  /\ UNCHANGED counters

\* An edge with rst_n low.  The write port is not gated by reset, so the
\* write the FSM had set up still lands in the memory.
Reset ==
  /\ mem' = MemWrite
  /\ state_q' = "S_CLEAR"
  /\ addr_q' = 0 /\ probe_q' = 0
  /\ req_q' = NoRequest
  /\ rd_data' = ZeroEntry
  /\ Quiet
  /\ drop_count' = 0 /\ table_full_count' = 0 /\ occupancy' = 0

-----------------------------------------------------------------------------
\* A step while busy: whatever the input port carries is not looked at.
BusyStep == Clear \/ LookHit \/ LookMiss \/ LookNext \/ InsWrite \/ InsFull \/ InsNext

Accept(m) == AcceptUntracked(m) \/ AcceptAdd(m) \/ AcceptLookup(m)

\* A clock edge with decoded message m on the input port when in_valid.
Clock(in_valid, m) ==
  \/ BusyStep
  \/ in_valid /\ m.kind # "SYSTEM" /\ Accept(m)
  \/ ~(in_valid /\ m.kind # "SYSTEM") /\ Idle

LiveIds == {mem[a].order_id : a \in {b \in Addr : mem[b].vld}}

\* The feed: an exchange never reuses the id of an order that still rests.
FeedAllows(m) ==
  ReuseIds \/ /\ m.kind = "ADD" => m.order_id \notin LiveIds
              /\ m.kind = "REPLACE" => m.new_order_id \notin LiveIds \ {m.order_id}

Init ==
  /\ state_q = "S_CLEAR"
  /\ addr_q = 0 /\ probe_q = 0
  /\ req_q = NoRequest
  /\ mem \in [Addr -> PowerUp]
  /\ rd_data = ZeroEntry
  /\ out_valid = FALSE /\ out_op = ZeroOp
  /\ drop_count = 0 /\ table_full_count = 0 /\ occupancy = 0

Next ==
  \/ Reset
  \/ BusyStep
  \/ Idle
  \/ \E m \in Msg : FeedAllows(m) /\ Accept(m)

Spec == Init /\ [][Next]_vars

-----------------------------------------------------------------------------
TypeOK ==
  /\ state_q \in {"S_CLEAR", "S_IDLE", "S_LOOK", "S_INS"}
  /\ addr_q \in Addr
  /\ probe_q \in 0 .. MAX_PROBES - 1
  /\ req_q \in Request
  /\ mem \in [Addr -> Entry]
  /\ rd_data \in Entry
  /\ out_valid \in BOOLEAN /\ out_op \in Op
  /\ drop_count \in 0 .. CountMod - 1
  /\ table_full_count \in 0 .. CountMod - 1
  /\ occupancy \in Int

Swept == state_q # "S_CLEAR"

\* The k-th slot of the probe window of an id.
Window(id, k) == IF Hash[id] + k < DEPTH THEN Hash[id] + k ELSE Hash[id] + k - DEPTH

WasUsed(a)    == mem[a].vld \/ mem[a].tomb
LiveAt(id, a) == mem[a].vld /\ mem[a].order_id = id

\* Every resting order can be found again: its slot is in its id's probe
\* window and no slot before it in the window is never-used, whatever was
\* deleted, replaced or overwritten since (tombstones, lines 84-91).
Findable ==
  Swept =>
    \A a \in Addr : mem[a].vld =>
      \E k \in 0 .. MAX_PROBES - 1 :
        /\ a = Window(mem[a].order_id, k)
        /\ \A j \in 0 .. k - 1 : WasUsed(Window(mem[a].order_id, j))

\* The word the FSM decides on is the word the table holds, also on the edge
\* after a write to the same slot (write-first bypass, lines 136-157).
ReadCoherent == state_q \in {"S_LOOK", "S_INS"} => rd_data = mem[addr_q]

\* The occupancy counter counts the live slots, so it cannot underflow
\* (assertion, lines 405-406).
OccupancyExact ==
  Swept => occupancy = Cardinality({a \in Addr : mem[a].vld})

\* No order id rests in two slots when the feed does not reuse live ids.
NoDuplicateOrder ==
  ~ReuseIds /\ Swept =>
    \A a, b \in Addr : mem[a].vld /\ LiveAt(mem[a].order_id, b) => a = b

\* A lookup is never told "unknown id" for an order that rests: drop_count
\* moves only for ids without a live slot and for untracked symbols.
NoFalseMiss ==
  [][LookMiss => req_q.oid \notin LiveIds]_vars

\* An order is only lost to an insert whose whole probe window is occupied
\* (header, lines 20-23): no slot in it was free, tombstones included.
LostOnlyWhenFull ==
  [][InsFull => \A k \in 0 .. MAX_PROBES - 1 : mem[Window(req_q.ins_id, k)].vld]_vars

\* A feed that does name a live id again overwrites the order in place while the
\* table has no holes (lines 34-38): a second copy of a live id is only ever put
\* into a hole that a freed order has left.
CopiesOnlyInHoles ==
  [][InsWrite /\ SlotFree /\ req_q.ins_id \in LiveIds => rd_data.tomb]_vars

\* Clock edges the FSM needs at most from here until it is back in S_IDLE.
CyclesLeft ==
  CASE state_q = "S_CLEAR" -> DEPTH - addr_q
    [] state_q = "S_IDLE"  -> 0
    [] state_q = "S_LOOK"  -> MAX_PROBES - probe_q
                              + (IF req_q.kind = "REPLACE" THEN MAX_PROBES ELSE 0)
    [] state_q = "S_INS"   -> MAX_PROBES - probe_q

\* A message keeps the router busy for at most 2 * MAX_PROBES cycles, only a
\* REPLACE for more than MAX_PROBES (header, lines 40-43), and the sweep for
\* exactly DEPTH: every edge out of reset uses up at least one of them.
BusyBounded ==
  [][/\ busy /\ ~Reset => CyclesLeft' < CyclesLeft
     /\ ~busy /\ busy' => \/ state_q' = "S_CLEAR"
                          \/ CyclesLeft' <= (IF req_q'.kind = "REPLACE" THEN 2 ELSE 1)
                                            * MAX_PROBES]_vars
=============================================================================
