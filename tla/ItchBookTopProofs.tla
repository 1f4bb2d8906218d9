--------------------------- MODULE ItchBookTopProofs ---------------------------
(***************************************************************************)
(* Proofs about the book stage, from the order table to the harness.       *)
(*                                                                         *)
(* The router, for every table size, probe window, hash function, set of   *)
(* ids and configuration of symbols.  Findable is not inductive: while a   *)
(* probe walk runs, it has to be known what the walk has passed.  ProbeInv *)
(* says so, and the request a walk works on names an id.  Everything else  *)
(* about it, the counter, the number of cycles and the one slot per order, *)
(* rests on that invariant; so does the refinement: the hashed table is    *)
(* the dictionary of RestingOrders, every edge one dictionary step or none.*)
(*                                                                         *)
(* The pipeline.  The spacing of the messages protects the router, which   *)
(* has no backpressure: the router's invariant holds for whatever message  *)
(* is on the port.  And the pipeline is the golden model: what the golden  *)
(* model has done with a message is what the pipeline still has to do with *)
(* it, the operation at the books first, the request in the router next.   *)
(* The table is a dictionary, a book a list of levels by PriceBookProofs.  *)
(* Both together say when an event has been shown, and so which ordinal    *)
(* the harness gives to it.  Last, the shares of a level are those of      *)
(* orders in the table: the sum over the slots of the table moves with     *)
(* every write as the level does with the operation.                       *)
(***************************************************************************)
EXTENDS ReplayHarness, TableRefinement, WellFoundedInduction, FiniteSetTheorems,
        SequenceTheorems, TLAPS

Probing == state_q \in {"S_LOOK", "S_INS"}

\* The id whose window the FSM walks.
Sought == IF state_q = "S_LOOK" THEN req_q.oid ELSE req_q.ins_id

RequestOK ==
  /\ state_q = "S_LOOK" =>
       /\ req_q.kind \in {"EXEC", "CANCEL", "DELETE", "REPLACE"}
       /\ req_q.oid \in OrderId
       /\ req_q.kind = "REPLACE" => req_q.ins_id \in OrderId
  /\ state_q = "S_INS" => req_q.ins_id \in OrderId

\* A live slot names an id of the feed, also in memory nobody has written.
LiveNamed == \A a \in Addr : mem[a].vld => mem[a].order_id \in OrderId

TypeInv == TypeOK /\ RequestOK

\* The walk stands at slot probe_q of the window, has passed only slots that
\* were used, and none of them holds the id it looks for.
ProbeInv ==
  Probing =>
    /\ addr_q = Window(Sought, probe_q)
    /\ \A j \in 0 .. probe_q - 1 :
         WasUsed(Window(Sought, j)) /\ ~LiveAt(Sought, Window(Sought, j))

\* The sweep has zeroed what lies behind it.
SweepInv == state_q = "S_CLEAR" => \A a \in 0 .. addr_q - 1 : mem[a] = ZeroEntry

\* Once swept, what is live was written by an insert.
SweptNamed == Swept => LiveNamed

\* An edge with any message on the port, also one the feed would not send.
AnyEdge == Reset \/ BusyStep \/ Idle \/ \E m \in Msg : Accept(m)

IndInv == TypeInv /\ ReadCoherent /\ ProbeInv /\ SweepInv /\ SweptNamed /\ Findable

-----------------------------------------------------------------------------
(* The write port, the bypass and the probe addresses.                      *)

\* The reset values are words of their types.
LEMMA ZeroTyped ==
  ZeroEntry \in Entry /\ Tombstone \in Entry /\ NoRequest \in Request /\ ZeroOp \in Op
<1>1. 0 \in BookIdx /\ 0 \in Shares /\ 0 \in Side
  BY FilterAssumption, DataAssumption DEF BookIdx, Shares, Side
<1>2. SlotEntry(0, 0, 0, 0, 0) \in Entry
  BY <1>1 DEF SlotEntry, Entry
<1>3. ZeroEntry \in Entry /\ Tombstone \in Entry
  BY <1>2 DEF ZeroEntry, Tombstone, Entry
<1>4. NoRequest \in Request
  BY <1>1 DEF NoRequest, Request, Kind
<1>5. ZeroOp \in Op
  BY <1>1 DEF ZeroOp, BookOp, Op
<1>. QED
  BY <1>3, <1>4, <1>5

\* Whatever the FSM writes is a table word.
LEMMA WriteTyped ==
  ASSUME TypeInv, WrEn
  PROVE  WrData \in Entry
<1>1. CASE state_q = "S_CLEAR"
  BY <1>1, ZeroTyped DEF WrData
<1>2. CASE state_q = "S_LOOK"
  <2>1. CASE Frees
    BY <1>2, <2>1, ZeroTyped DEF WrData
  <2>2. CASE ~Frees
    <3>1. rd_data.shares - req_q.shares \in Shares
      BY <2>2, DataAssumption DEF Frees, TypeInv, TypeOK, Entry, Request, Shares
    <3>2. WrData = [rd_data EXCEPT !.shares = @ - req_q.shares]
      BY <1>2, <2>2 DEF WrData
    <3>. QED
      BY <3>1, <3>2 DEF TypeInv, TypeOK, Entry
  <2>. QED
    BY <2>1, <2>2
<1>3. CASE state_q = "S_INS"
  BY <1>3 DEF WrData, SlotEntry, Entry, TypeInv, TypeOK, RequestOK, Request
<1>. QED
  BY <1>1, <1>2, <1>3 DEF WrEn

\* The memory and the read register hold table words after an edge.
LEMMA MemTyped ==
  ASSUME TypeInv
  PROVE  /\ MemWrite \in [Addr -> Entry]
         /\ \A a \in Addr : ReadPort(a) = MemWrite[a] /\ ReadPort(a) \in Entry
<1>1. CASE WrEn
  BY <1>1, WriteTyped DEF MemWrite, ReadPort, TypeInv, TypeOK
<1>2. CASE ~WrEn
  BY <1>2 DEF MemWrite, ReadPort, TypeInv, TypeOK
<1>. QED
  BY <1>1, <1>2

\* A probe window stays inside the table, wrapping at its end.
LEMMA WindowInTable ==
  ASSUME NEW id \in OrderId, NEW k \in 0 .. MAX_PROBES
  PROVE  Window(id, k) \in Addr
  BY TableAssumption DEF Window, Addr

\* So does the address register that walks it.
LEMMA NextAddrInTable ==
  ASSUME addr_q \in Addr
  PROVE  NextAddr \in Addr
  BY TableAssumption DEF NextAddr, Addr

\* The register that wraps walks the window.
LEMMA NextAddrIsNextSlot ==
  ASSUME NEW id \in OrderId, NEW k \in 0 .. MAX_PROBES - 1, addr_q = Window(id, k),
         k + 1 < MAX_PROBES
  PROVE  NextAddr = Window(id, k + 1)
  BY TableAssumption DEF Window, Addr, NextAddr

\* A wrapping counter stays in its range.
LEMMA CountTyped ==
  ASSUME NEW c \in 0 .. CountMod - 1, NEW inc \in BOOLEAN
  PROVE  Count(c, inc) \in 0 .. CountMod - 1
  BY DataAssumption DEF Count

\* The filter returns a configured index.
LEMMA SymIdxTyped ==
  ASSUME NEW s, SymHit(s)
  PROVE  SymIdx(s) \in BookIdx
<1>. DEFINE S == {i \in BookIdx : SYMBOLS[i] = s}
<1>1. S \subseteq Nat /\ S # {}
  BY FilterAssumption DEF SymHit, BookIdx
<1>2. \E i \in S : \A j \in S : <<j, i>> \notin OpToRel(<, Nat)
  <2>. HIDE DEF S
  <2>. QED
    BY <1>1, NatLessThanWellFounded, WFMin, Zenon
<1>3. \E i \in S : \A j \in S : ~(j < i)
  BY <1>1, <1>2 DEF OpToRel
<1>4. \E i \in BookIdx : SYMBOLS[i] = s /\ \A j \in BookIdx : SYMBOLS[j] = s => i <= j
  BY <1>3, FilterAssumption DEF BookIdx
<1>. QED
  BY <1>4 DEF SymIdx

-----------------------------------------------------------------------------
(* Types.                                                                   *)

\* The power-up state has the right types.
LEMMA InitTyped == Init => TypeInv
<1>. SUFFICES ASSUME Init PROVE TypeInv
  OBVIOUS
<1>1. mem \in [Addr -> Entry]
  BY DataAssumption DEF Init
<1>2. 0 \in Addr /\ 0 \in 0 .. MAX_PROBES - 1 /\ 0 \in 0 .. CountMod - 1
  BY TableAssumption, DataAssumption DEF Addr
<1>3. /\ state_q \in {"S_CLEAR", "S_IDLE", "S_LOOK", "S_INS"}
      /\ req_q \in Request /\ rd_data \in Entry
      /\ out_valid \in BOOLEAN /\ out_op \in Op
  BY ZeroTyped DEF Init
<1>4. /\ addr_q \in Addr /\ probe_q \in 0 .. MAX_PROBES - 1
      /\ drop_count \in 0 .. CountMod - 1 /\ table_full_count \in 0 .. CountMod - 1
      /\ occupancy \in Int
  BY <1>2 DEF Init
<1>5. RequestOK
  BY DEF Init, RequestOK
<1>. QED
  BY <1>1, <1>3, <1>4, <1>5 DEF TypeInv, TypeOK

\* Going idle, and every edge that leaves the counters alone, keeps the types.
LEMMA IdleTyped ==
  ASSUME GoIdle
  PROVE  /\ state_q' = "S_IDLE" /\ addr_q' \in Addr /\ probe_q' \in 0 .. MAX_PROBES - 1
         /\ req_q' \in Request /\ rd_data' \in Entry
  BY ZeroTyped, TableAssumption DEF GoIdle, Addr

\* So does a walk that starts.
LEMMA StartTyped ==
  ASSUME TypeInv, NEW s \in {"S_LOOK", "S_INS"}, NEW id \in OrderId, StartProbe(s, id)
  PROVE  /\ state_q' = s /\ addr_q' \in Addr /\ probe_q' \in 0 .. MAX_PROBES - 1
         /\ rd_data' \in Entry
  BY MemTyped, TableAssumption DEF StartProbe

\* A further probe stays within the window.
LEMMA NextProbeTyped ==
  ASSUME TypeInv, NextProbe, ~LastProbe
  PROVE  /\ state_q' = state_q /\ addr_q' \in Addr /\ probe_q' \in 0 .. MAX_PROBES - 1
         /\ req_q' = req_q /\ rd_data' \in Entry
<1>1. addr_q' \in Addr /\ rd_data' = ReadPort(NextAddr)
  BY NextAddrInTable DEF NextProbe, TypeInv, TypeOK
<1>2. rd_data' \in Entry
  BY <1>1, MemTyped DEF NextProbe
<1>. QED
  BY <1>1, <1>2, TableAssumption DEF NextProbe, LastProbe, TypeInv, TypeOK

\* No operation on the output is the zero operation.
LEMMA QuietTyped ==
  ASSUME Quiet
  PROVE  out_valid' \in BOOLEAN /\ out_op' \in Op
  BY ZeroTyped DEF Quiet

\* No edge breaks the types.
LEMMA EdgeTyped == TypeInv /\ [AnyEdge]_vars => TypeInv'
<1>. SUFFICES ASSUME TypeInv, [AnyEdge]_vars PROVE TypeInv'
  OBVIOUS
<1>m. MemWrite \in [Addr -> Entry]
  BY MemTyped
<1>1. CASE Reset
  BY <1>1, <1>m, ZeroTyped, QuietTyped, TableAssumption, DataAssumption
     DEF Reset, TypeInv, TypeOK, RequestOK, Addr
<1>2. CASE Clear
  <2>1. CASE addr_q = DEPTH - 1
    BY <1>2, <2>1, <1>m, IdleTyped, QuietTyped
       DEF Clear, TypeInv, TypeOK, RequestOK, counters
  <2>2. CASE addr_q # DEPTH - 1
    <3>1. addr_q' \in Addr
      BY <1>2, <2>2, TableAssumption DEF Clear, TypeInv, TypeOK, Addr
    <3>. QED
      BY <1>2, <2>2, <3>1, <1>m, QuietTyped
         DEF Clear, TypeInv, TypeOK, RequestOK, counters
  <2>. QED
    BY <2>1, <2>2
<1>3. CASE LookHit
  <2>1. out_valid' \in BOOLEAN /\ out_op' \in Op
    <3>1. (IF Reduces THEN req_q.shares ELSE rd_data.shares) \in Shares
      BY DEF TypeInv, TypeOK, Request, Entry
    <3>. QED
      BY <1>3, <3>1 DEF LookHit, Emit, BookOp, Op, TypeInv, TypeOK, Entry
  <2>2. occupancy' \in Int
    BY <1>3 DEF LookHit, TypeInv, TypeOK
  <2>3. CASE req_q.kind = "REPLACE"
    <3>1. req_q.ins_id \in OrderId /\ StartProbe("S_INS", req_q.ins_id)
      BY <1>3, <2>3 DEF LookHit, TypeInv, RequestOK
    <3>2. req_q' \in Request /\ req_q'.ins_id = req_q.ins_id
      BY <1>3, <2>3 DEF LookHit, TypeInv, TypeOK, Request, Entry
    <3>3. /\ state_q' = "S_INS" /\ addr_q' \in Addr /\ probe_q' \in 0 .. MAX_PROBES - 1
          /\ rd_data' \in Entry
      BY <3>1, StartTyped
    <3>. QED
      BY <1>3, <1>m, <2>1, <2>2, <3>1, <3>2, <3>3
         DEF LookHit, TypeInv, TypeOK, RequestOK
  <2>4. CASE req_q.kind # "REPLACE"
    BY <1>3, <1>m, <2>1, <2>2, <2>4, IdleTyped DEF LookHit, TypeInv, TypeOK, RequestOK
  <2>. QED
    BY <2>3, <2>4
<1>4. CASE LookMiss
  <2>1. drop_count' \in 0 .. CountMod - 1
    BY <1>4, CountTyped DEF LookMiss, TypeInv, TypeOK
  <2>. QED
    BY <1>4, <1>m, <2>1, IdleTyped, QuietTyped DEF LookMiss, TypeInv, TypeOK, RequestOK
<1>5. CASE LookNext
  BY <1>5, <1>m, NextProbeTyped, QuietTyped
     DEF LookNext, TypeInv, TypeOK, RequestOK, counters
<1>6. CASE InsWrite
  <2>1. out_valid' \in BOOLEAN /\ out_op' \in Op
    BY <1>6 DEF InsWrite, Emit, BookOp, Op, TypeInv, TypeOK, Request
  <2>2. occupancy' \in Int
    BY <1>6 DEF InsWrite, TypeInv, TypeOK
  <2>. QED
    BY <1>6, <1>m, <2>1, <2>2, IdleTyped DEF InsWrite, TypeInv, TypeOK, RequestOK
<1>7. CASE InsFull
  <2>1. table_full_count' \in 0 .. CountMod - 1
    BY <1>7, CountTyped DEF InsFull, TypeInv, TypeOK
  <2>. QED
    BY <1>7, <1>m, <2>1, IdleTyped, QuietTyped DEF InsFull, TypeInv, TypeOK, RequestOK
<1>8. CASE InsNext
  BY <1>8, <1>m, NextProbeTyped, QuietTyped
     DEF InsNext, TypeInv, TypeOK, RequestOK, counters
<1>9. CASE Idle
  BY <1>9, <1>m, QuietTyped DEF Idle, TypeInv, TypeOK, RequestOK, counters
<1>10. ASSUME NEW m \in Msg, AcceptUntracked(m) PROVE TypeInv'
  <2>1. drop_count' \in 0 .. CountMod - 1
    BY <1>10, CountTyped DEF AcceptUntracked, TypeInv, TypeOK
  <2>. QED
    BY <1>10, <1>m, <2>1, QuietTyped DEF AcceptUntracked, TypeInv, TypeOK, RequestOK
<1>11. ASSUME NEW m \in Msg, AcceptAdd(m) PROVE TypeInv'
  <2>1. m.kind = "ADD" /\ SymHit(m.symbol)
    BY <1>11 DEF AcceptAdd
  <2>2. /\ m.order_id \in OrderId /\ m.shares \in Shares /\ m.price \in Price
        /\ m.side \in Side
    BY <2>1 DEF Msg
  <2>3. SymIdx(m.symbol) \in BookIdx
    BY <2>1, SymIdxTyped
  <2>4. req_q' \in Request /\ req_q'.ins_id \in OrderId
    BY <1>11, <2>2, <2>3 DEF AcceptAdd, Request, Kind
  <2>5. StartProbe("S_INS", m.order_id)
    BY <1>11 DEF AcceptAdd
  <2>6. /\ state_q' = "S_INS" /\ addr_q' \in Addr /\ probe_q' \in 0 .. MAX_PROBES - 1
        /\ rd_data' \in Entry
    BY <2>2, <2>5, StartTyped
  <2>. QED
    BY <1>11, <1>m, <2>4, <2>6, QuietTyped
       DEF AcceptAdd, TypeInv, TypeOK, RequestOK, counters
<1>12. ASSUME NEW m \in Msg, AcceptLookup(m) PROVE TypeInv'
  <2>1. m.kind \in {"EXEC", "CANCEL", "DELETE", "REPLACE"}
    BY <1>12 DEF AcceptLookup
  <2>2. /\ m.order_id \in OrderId /\ m.shares \in Shares /\ m.price \in Price \cup {0}
        /\ m.new_order_id \in OrderId \cup {0}
        /\ m.kind = "REPLACE" => m.new_order_id \in OrderId
    BY <2>1, DataAssumption DEF Msg, Shares
  <2>3. req_q' \in Request /\ req_q'.oid \in OrderId /\ req_q'.kind = m.kind
        /\ req_q'.ins_id = m.new_order_id
    <3>1. 0 \in BookIdx /\ 0 \in Side
      BY FilterAssumption DEF BookIdx, Side
    <3>. QED
      BY <1>12, <2>1, <2>2, <3>1 DEF AcceptLookup, Request, Kind
  <2>4. StartProbe("S_LOOK", m.order_id)
    BY <1>12 DEF AcceptLookup
  <2>5. /\ state_q' = "S_LOOK" /\ addr_q' \in Addr /\ probe_q' \in 0 .. MAX_PROBES - 1
        /\ rd_data' \in Entry
    BY <2>2, <2>4, StartTyped
  <2>. QED
    BY <1>12, <1>m, <2>1, <2>2, <2>3, <2>5, QuietTyped
       DEF AcceptLookup, TypeInv, TypeOK, RequestOK, counters
<1>13. CASE UNCHANGED vars
  BY <1>13 DEF vars, TypeInv, TypeOK, RequestOK
<1>. QED
  BY <1>1, <1>2, <1>3, <1>4, <1>5, <1>6, <1>7, <1>8, <1>9, <1>10, <1>11, <1>12, <1>13
     DEF AnyEdge, BusyStep, Accept

\* The steps of the specification are such edges.
LEMMA NextIsEdge == Next => AnyEdge
  BY DEF Next, AnyEdge

\* Every register and table word stays in its range; in particular the probe
\* index never leaves the window and no stored share count wraps below zero.
THEOREM TypeCorrect == Spec => []TypeOK
<1>1. Spec => []TypeInv
  BY InitTyped, EdgeTyped, NextIsEdge, PTL DEF Spec
<1>. QED
  BY <1>1, PTL DEF TypeInv

-----------------------------------------------------------------------------
(* The probe chains.                                                        *)

\* After the sweep no write makes a used slot never-used again: a hit leaves a
\* tombstone or a live entry, an insert a live entry.
LEMMA UsedForEver ==
  ASSUME IndInv, Swept, NEW a \in Addr, WasUsed(a)
  PROVE  MemWrite[a].vld \/ MemWrite[a].tomb
<1>1. CASE WrEn /\ a = addr_q
  <2>1. WrData.vld \/ WrData.tomb
    <3>1. CASE state_q = "S_LOOK"
      BY <1>1, <3>1
         DEF WrEn, IdMatch, WrData, Tombstone, ZeroEntry, SlotEntry, IndInv, TypeInv, TypeOK,
             Entry
    <3>2. CASE state_q = "S_INS"
      BY <3>2 DEF WrData, SlotEntry
    <3>. QED
      BY <1>1, <3>1, <3>2 DEF WrEn, Swept
  <2>2. MemWrite[a] = WrData
    BY <1>1 DEF MemWrite, IndInv, TypeInv, TypeOK
  <2>. QED
    BY <2>1, <2>2
<1>2. CASE ~(WrEn /\ a = addr_q)
  BY <1>2 DEF MemWrite, WasUsed, IndInv, TypeInv, TypeOK
<1>. QED
  BY <1>1, <1>2

\* What is live after a write was live under the same id before, or is the
\* order an insert has just put at the end of its walk.
LEMMA LiveAfterWrite ==
  ASSUME IndInv, Swept, NEW a \in Addr, MemWrite[a].vld
  PROVE  \/ LiveAt(MemWrite[a].order_id, a)
         \/ a = addr_q /\ state_q = "S_INS" /\ MemWrite[a].order_id = req_q.ins_id
<1>1. CASE WrEn /\ a = addr_q
  <2>1. MemWrite[a] = WrData
    BY <1>1 DEF MemWrite, IndInv, TypeInv, TypeOK
  <2>2. CASE state_q = "S_LOOK"
    <3>1. ~Frees
      BY <2>1, <2>2 DEF WrData, Tombstone, ZeroEntry, SlotEntry
    <3>2. WrData.vld = rd_data.vld /\ WrData.order_id = rd_data.order_id
      BY <2>2, <3>1 DEF WrData, IndInv, TypeInv, TypeOK, Entry
    <3>3. rd_data = mem[a]
      BY <1>1, <2>2 DEF IndInv, ReadCoherent
    <3>. QED
      BY <2>1, <3>2, <3>3 DEF LiveAt
  <2>3. CASE state_q = "S_INS"
    BY <1>1, <2>1, <2>3 DEF WrData, SlotEntry
  <2>. QED
    BY <1>1, <2>2, <2>3 DEF WrEn, Swept
<1>2. CASE ~(WrEn /\ a = addr_q)
  BY <1>2 DEF MemWrite, LiveAt, IndInv, TypeInv, TypeOK
<1>. QED
  BY <1>1, <1>2

\* Every edge after the sweep keeps the resting orders findable.
LEMMA FindableStep ==
  ASSUME IndInv, Swept, mem' = MemWrite
  PROVE  (SweptNamed /\ Findable)'
<1>1. ASSUME NEW a \in Addr, mem'[a].vld
      PROVE  mem'[a].order_id \in OrderId
  BY <1>1, LiveAfterWrite DEF LiveAt, IndInv, TypeInv, RequestOK, SweptNamed, LiveNamed
<1>2. ASSUME NEW a \in Addr, mem'[a].vld
      PROVE  \E k \in 0 .. MAX_PROBES - 1 :
               /\ a = Window(mem'[a].order_id, k)
               /\ \A j \in 0 .. k - 1 :
                    LET b == Window(mem'[a].order_id, j) IN mem'[b].vld \/ mem'[b].tomb
  <2>. DEFINE id == mem'[a].order_id
  <2>1. id \in OrderId
    BY <1>1, <1>2
  <2>2. \E k \in 0 .. MAX_PROBES - 1 :
          a = Window(id, k) /\ \A j \in 0 .. k - 1 : WasUsed(Window(id, j))
    <3>1. CASE LiveAt(id, a)
      BY <3>1 DEF LiveAt, IndInv, Findable
    <3>2. CASE a = addr_q /\ state_q = "S_INS" /\ id = req_q.ins_id
      BY <3>2 DEF IndInv, ProbeInv, Probing, Sought, TypeInv, TypeOK
    <3>. QED
      BY <1>2, <3>1, <3>2, LiveAfterWrite
  <2>3. PICK k \in 0 .. MAX_PROBES - 1 :
          a = Window(id, k) /\ \A j \in 0 .. k - 1 : WasUsed(Window(id, j))
    BY <2>2
  <2>4. \A j \in 0 .. k - 1 : mem'[Window(id, j)].vld \/ mem'[Window(id, j)].tomb
    <3>. SUFFICES ASSUME NEW j \in 0 .. k - 1
                  PROVE  mem'[Window(id, j)].vld \/ mem'[Window(id, j)].tomb
      OBVIOUS
    <3>1. Window(id, j) \in Addr
      <4>1. j \in 0 .. MAX_PROBES
        BY TableAssumption
      <4>. QED
        BY <2>1, <4>1, WindowInTable
    <3>2. MemWrite[Window(id, j)].vld \/ MemWrite[Window(id, j)].tomb
      BY <2>3, <3>1, UsedForEver
    <3>. QED
      BY <3>2
  <2>. QED
    BY <2>3, <2>4
<1>3. LiveNamed'
  BY <1>1 DEF LiveNamed
<1>4. Findable'
  BY <1>2 DEF Findable, Window, WasUsed
<1>. QED
  BY <1>3, <1>4 DEF SweptNamed

\* The first probe of a walk reads the home slot of the id.
LEMMA StartWalk ==
  ASSUME IndInv, mem' = MemWrite, NEW s \in {"S_LOOK", "S_INS"}, NEW id \in OrderId,
         StartProbe(s, id), Sought' = id
  PROVE  (ReadCoherent /\ ProbeInv)'
<1>1. Hash[id] \in Addr /\ addr_q' = Hash[id] /\ probe_q' = 0
  BY TableAssumption DEF StartProbe
<1>2. rd_data' = MemWrite[Hash[id]]
  BY <1>1, MemTyped DEF StartProbe, IndInv
<1>3. addr_q' = Window(id, 0)
  BY <1>1, TableAssumption DEF Window, Addr
<1>4. ProbeInv'
  BY <1>1, <1>3 DEF ProbeInv, Window
<1>. QED
  BY <1>1, <1>2, <1>4 DEF ReadCoherent

\* A further probe: the slot just read was used and holds another id.
LEMMA ContinueWalk ==
  ASSUME IndInv, Probing, mem' = MemWrite, ~WrEn, NextProbe, ~LastProbe,
         rd_data.vld \/ rd_data.tomb,
         ~(rd_data.vld /\ rd_data.order_id = Sought)
  PROVE  (ReadCoherent /\ ProbeInv)'
<1>1. mem' = mem /\ Sought' = Sought
  BY DEF MemWrite, NextProbe, Sought
<1>2. Sought \in OrderId
  BY DEF IndInv, TypeInv, RequestOK, Sought, Probing
<1>3. probe_q \in 0 .. MAX_PROBES - 1 /\ probe_q + 1 < MAX_PROBES
  BY TableAssumption DEF LastProbe, IndInv, TypeInv, TypeOK
<1>4. addr_q = Window(Sought, probe_q) /\ rd_data = mem[addr_q]
  BY DEF IndInv, ProbeInv, ReadCoherent, Probing
<1>5. addr_q' = NextAddr /\ probe_q' = probe_q + 1 /\ rd_data' = ReadPort(NextAddr)
  BY DEF NextProbe
<1>6. addr_q' = Window(Sought, probe_q + 1)
  BY <1>2, <1>3, <1>4, <1>5, NextAddrIsNextSlot
<1>7. rd_data' = mem'[addr_q']
  BY <1>1, <1>5 DEF ReadPort
<1>8. ASSUME NEW j \in 0 .. probe_q
      PROVE  WasUsed(Window(Sought, j)) /\ ~LiveAt(Sought, Window(Sought, j))
  <2>1. CASE j = probe_q
    BY <1>4, <2>1 DEF WasUsed, LiveAt
  <2>2. CASE j # probe_q
    <3>1. j \in 0 .. probe_q - 1
      BY <1>3, <2>2
    <3>. QED
      BY <3>1 DEF IndInv, ProbeInv
  <2>. QED
    BY <2>1, <2>2
<1>9. ProbeInv'
  <2>1. probe_q' - 1 = probe_q
    BY <1>3, <1>5
  <2>. QED
    BY <1>1, <1>5, <1>6, <1>8, <2>1 DEF ProbeInv, Window, WasUsed, LiveAt
<1>. QED
  BY <1>7, <1>9 DEF ReadCoherent

-----------------------------------------------------------------------------
\* The invariant holds when the sweep begins.
LEMMA InitInvariant == Init => IndInv
<1>. SUFFICES ASSUME Init PROVE IndInv
  OBVIOUS
<1>1. TypeInv
  BY InitTyped
<1>2. state_q = "S_CLEAR" /\ addr_q = 0
  BY DEF Init
<1>. QED
  BY <1>1, <1>2
     DEF IndInv, ReadCoherent, ProbeInv, Probing, SweepInv, SweptNamed, Findable, Swept

\* A step after the sweep that ends outside a probe walk.
LEMMA RestStep ==
  ASSUME IndInv, TypeInv', Swept, mem' = MemWrite, state_q' = "S_IDLE"
  PROVE  IndInv'
<1>1. (SweptNamed /\ Findable)'
  BY FindableStep
<1>. QED
  BY <1>1 DEF IndInv, ReadCoherent, ProbeInv, Probing, SweepInv

\* A step after the sweep that ends inside one.
LEMMA WalkStep ==
  ASSUME IndInv, TypeInv', Swept, mem' = MemWrite, state_q' \in {"S_LOOK", "S_INS"},
         (ReadCoherent /\ ProbeInv)'
  PROVE  IndInv'
<1>1. (SweptNamed /\ Findable)'
  BY FindableStep
<1>. QED
  BY <1>1 DEF IndInv, SweepInv

\* The sweep: one zeroed slot more, and at the end an empty table.
LEMMA SweepStep ==
  ASSUME IndInv, TypeInv', Clear
  PROVE  IndInv'
<1>1. /\ state_q = "S_CLEAR" /\ mem' = [mem EXCEPT ![addr_q] = ZeroEntry]
  BY DEF Clear, MemWrite, WrEn, WrData
<1>2. addr_q \in Addr /\ mem \in [Addr -> Entry]
  BY DEF IndInv, TypeInv, TypeOK
<1>3. \A a \in 0 .. addr_q : mem'[a] = ZeroEntry
  <2>1. \A a \in 0 .. addr_q : a \in Addr /\ (a = addr_q \/ a \in 0 .. addr_q - 1)
    BY <1>2, TableAssumption DEF Addr
  <2>. QED
    BY <1>1, <1>2, <2>1 DEF IndInv, SweepInv
<1>4. CASE addr_q = DEPTH - 1
  <2>1. state_q' = "S_IDLE"
    BY <1>4 DEF Clear, GoIdle
  <2>2. \A a \in Addr : ~mem'[a].vld
    BY <1>3, <1>4 DEF Addr, ZeroEntry, SlotEntry
  <2>. QED
    BY <2>1, <2>2
       DEF IndInv, ReadCoherent, ProbeInv, Probing, SweepInv, SweptNamed, LiveNamed, Findable
<1>5. CASE addr_q # DEPTH - 1
  <2>1. state_q' = "S_CLEAR" /\ addr_q' = addr_q + 1
    BY <1>1, <1>5 DEF Clear
  <2>2. SweepInv'
    BY <1>2, <1>3, <2>1 DEF SweepInv, Addr
  <2>. QED
    BY <2>1, <2>2 DEF IndInv, ReadCoherent, ProbeInv, Probing, SweptNamed, Findable, Swept
<1>. QED
  BY <1>4, <1>5

\* No edge breaks the invariant.
LEMMA EdgeInvariant == IndInv /\ [AnyEdge]_vars => IndInv'
<1>. SUFFICES ASSUME IndInv, [AnyEdge]_vars PROVE IndInv'
  OBVIOUS
<1>t. TypeInv'
  BY EdgeTyped DEF IndInv
<1>1. CASE Reset
  <2>1. state_q' = "S_CLEAR" /\ addr_q' = 0
    BY <1>1 DEF Reset
  <2>. QED
    BY <1>t, <2>1
       DEF IndInv, ReadCoherent, ProbeInv, Probing, SweepInv, SweptNamed, Findable, Swept
<1>2. CASE Clear
  BY <1>t, <1>2, SweepStep
<1>3. CASE LookHit
  <2>1. Swept /\ mem' = MemWrite
    BY <1>3 DEF LookHit, Swept
  <2>2. CASE req_q.kind = "REPLACE"
    <3>1. req_q.ins_id \in OrderId /\ StartProbe("S_INS", req_q.ins_id)
      BY <1>3, <2>2 DEF LookHit, IndInv, TypeInv, RequestOK
    <3>2. state_q' = "S_INS" /\ Sought' = req_q.ins_id
      BY <1>3, <2>2, <3>1 DEF LookHit, StartProbe, Sought, IndInv, TypeInv, TypeOK, Request
    <3>3. (ReadCoherent /\ ProbeInv)'
      BY <2>1, <3>1, <3>2, StartWalk
    <3>. QED
      BY <1>t, <2>1, <3>2, <3>3, WalkStep
  <2>3. CASE req_q.kind # "REPLACE"
    BY <1>t, <1>3, <2>1, <2>3, RestStep DEF LookHit, GoIdle
  <2>. QED
    BY <2>2, <2>3
<1>4. CASE LookMiss
  BY <1>t, <1>4, RestStep DEF LookMiss, GoIdle, Swept
<1>5. CASE LookNext
  <2>1. Swept /\ Probing /\ mem' = MemWrite /\ ~WrEn /\ NextProbe /\ ~LastProbe
    BY <1>5 DEF LookNext, Swept, Probing, WrEn
  <2>2. /\ rd_data.vld \/ rd_data.tomb
        /\ ~(rd_data.vld /\ rd_data.order_id = Sought)
    BY <1>5 DEF LookNext, SlotNeverUsed, IdMatch, Sought
  <2>3. state_q' \in {"S_LOOK", "S_INS"}
    BY <1>5 DEF LookNext, NextProbe
  <2>. QED
    BY <1>t, <2>1, <2>2, <2>3, ContinueWalk, WalkStep
<1>6. CASE InsWrite
  BY <1>t, <1>6, RestStep DEF InsWrite, GoIdle, Swept
<1>7. CASE InsFull
  BY <1>t, <1>7, RestStep DEF InsFull, GoIdle, Swept
<1>8. CASE InsNext
  <2>1. Swept /\ Probing /\ mem' = MemWrite /\ ~WrEn /\ NextProbe /\ ~LastProbe
    BY <1>8 DEF InsNext, Swept, Probing, WrEn
  <2>2. rd_data.vld /\ rd_data.order_id # Sought
    BY <1>8 DEF InsNext, InsHit, SlotFree, Sought
  <2>3. state_q' \in {"S_LOOK", "S_INS"}
    BY <1>8 DEF InsNext, NextProbe
  <2>. QED
    BY <1>t, <2>1, <2>2, <2>3, ContinueWalk, WalkStep
<1>9. CASE Idle
  BY <1>t, <1>9, RestStep DEF Idle, Swept
<1>10. ASSUME NEW m \in Msg, AcceptUntracked(m) PROVE IndInv'
  BY <1>t, <1>10, RestStep DEF AcceptUntracked, Swept
<1>11. ASSUME NEW m \in Msg, AcceptAdd(m) PROVE IndInv'
  <2>1. Swept /\ mem' = MemWrite /\ StartProbe("S_INS", m.order_id)
    BY <1>11 DEF AcceptAdd, Swept
  <2>2. m.order_id \in OrderId
    BY <1>11 DEF AcceptAdd, Msg
  <2>3. state_q' = "S_INS" /\ Sought' = m.order_id
    BY <1>11 DEF AcceptAdd, StartProbe, Sought
  <2>4. (ReadCoherent /\ ProbeInv)'
    BY <2>1, <2>2, <2>3, StartWalk
  <2>. QED
    BY <1>t, <2>1, <2>3, <2>4, WalkStep
<1>12. ASSUME NEW m \in Msg, AcceptLookup(m) PROVE IndInv'
  <2>1. Swept /\ mem' = MemWrite /\ StartProbe("S_LOOK", m.order_id)
    BY <1>12 DEF AcceptLookup, Swept
  <2>2. m.order_id \in OrderId
    BY <1>12 DEF AcceptLookup, Msg
  <2>3. state_q' = "S_LOOK" /\ Sought' = m.order_id
    BY <1>12 DEF AcceptLookup, StartProbe, Sought
  <2>4. (ReadCoherent /\ ProbeInv)'
    BY <2>1, <2>2, <2>3, StartWalk
  <2>. QED
    BY <1>t, <2>1, <2>3, <2>4, WalkStep
<1>13. CASE UNCHANGED vars
  BY <1>13
     DEF vars, IndInv, TypeInv, TypeOK, RequestOK, ReadCoherent, ProbeInv, Probing, Sought,
         SweepInv, SweptNamed, LiveNamed, Findable, Swept, WasUsed, LiveAt, Window
<1>. QED
  BY <1>1, <1>2, <1>3, <1>4, <1>5, <1>6, <1>7, <1>8, <1>9, <1>10, <1>11, <1>12, <1>13
     DEF AnyEdge, BusyStep, Accept

-----------------------------------------------------------------------------
\* The inductive invariant of the table: types, the coherent read port, the walk
\* that has missed nothing, the sweep, and every resting order within reach.
THEOREM Invariant == Spec => []IndInv
  BY InitInvariant, EdgeInvariant, NextIsEdge, PTL DEF Spec

\* No resting order is ever lost to the probing: deletes leave tombstones, and
\* REPLACE's in-place reuse of slots never cuts another order's probe chain.
THEOREM OrdersStayFindable == Spec => []Findable
  BY Invariant, PTL DEF IndInv

\* The bypass makes the registered read port as good as an asynchronous one:
\* the FSM never decides on a word the last write has changed.
THEOREM ReadsAreCoherent == Spec => []ReadCoherent
  BY Invariant, PTL DEF IndInv

\* A miss proves that no slot of the table holds the id.
LEMMA MissMeansAbsent ==
  ASSUME IndInv, LookMiss
  PROVE  req_q.oid \notin LiveIds
<1>. SUFFICES ASSUME NEW a \in Addr, LiveAt(req_q.oid, a)
              PROVE  FALSE
  BY DEF LiveIds, LiveAt
<1>1. PICK k \in 0 .. MAX_PROBES - 1 :
        a = Window(req_q.oid, k) /\ \A j \in 0 .. k - 1 : WasUsed(Window(req_q.oid, j))
  BY DEF IndInv, Findable, Swept, LiveAt, LookMiss
<1>2. /\ addr_q = Window(req_q.oid, probe_q) /\ rd_data = mem[addr_q]
      /\ \A j \in 0 .. probe_q - 1 : ~LiveAt(req_q.oid, Window(req_q.oid, j))
  BY DEF LookMiss, IndInv, ProbeInv, ReadCoherent, Probing, Sought
<1>3. probe_q \in 0 .. MAX_PROBES - 1
  BY DEF IndInv, TypeInv, TypeOK
<1>4. CASE k < probe_q
  BY <1>1, <1>2, <1>3, <1>4
<1>5. CASE k = probe_q
  BY <1>1, <1>2, <1>5 DEF LookMiss, IdMatch, LiveAt
<1>6. CASE k > probe_q
  <2>1. WasUsed(addr_q)
    BY <1>1, <1>2, <1>3, <1>6
  <2>2. LastProbe
    BY <1>2, <2>1 DEF LookMiss, SlotNeverUsed, WasUsed
  <2>. QED
    BY <1>3, <1>6, <2>2 DEF LastProbe
<1>. QED
  BY <1>1, <1>3, <1>4, <1>5, <1>6

\* The router drops a message as "unknown id" only when the id rests nowhere
\* in the table: a lookup is never misled by tombstones or by a full window.
THEOREM NoFalseMisses == Spec => NoFalseMiss
<1>1. IndInv => [LookMiss => req_q.oid \notin LiveIds]_vars
  BY MissMeansAbsent
<1>. QED
  BY <1>1, Invariant, PTL DEF NoFalseMiss

\* A feed may reuse ids at will: an insert that meets a slot nobody ever used
\* has passed every slot where the id could rest, so a copy of a live id only
\* goes into a tombstone (header, lines 34-38).
THEOREM CopiesNeedHoles == Spec => CopiesOnlyInHoles
<1>1. ASSUME IndInv, InsWrite, SlotFree, req_q.ins_id \in LiveIds
      PROVE  rd_data.tomb
  <2>1. PICK id : id = req_q.ins_id
    OBVIOUS
  <2>2. PICK a \in Addr : LiveAt(id, a)
    BY <1>1, <2>1 DEF LiveIds, LiveAt
  <2>3. PICK k \in 0 .. MAX_PROBES - 1 :
          a = Window(id, k) /\ \A j \in 0 .. k - 1 : WasUsed(Window(id, j))
    BY <1>1, <2>2 DEF IndInv, Findable, Swept, LiveAt, InsWrite
  <2>4. /\ addr_q = Window(id, probe_q) /\ rd_data = mem[addr_q]
        /\ \A j \in 0 .. probe_q - 1 : ~LiveAt(id, Window(id, j))
    BY <1>1, <2>1 DEF InsWrite, IndInv, ProbeInv, ReadCoherent, Probing, Sought
  <2>5. probe_q \in 0 .. MAX_PROBES - 1
    BY <1>1 DEF IndInv, TypeInv, TypeOK
  <2>6. ~(k < probe_q)
    BY <2>2, <2>3, <2>4, <2>5
  <2>7. k # probe_q
    BY <1>1, <2>2, <2>3, <2>4 DEF SlotFree, LiveAt
  <2>8. WasUsed(addr_q)
    BY <2>3, <2>4, <2>5, <2>6, <2>7
  <2>. QED
    BY <1>1, <2>4, <2>8 DEF SlotFree, WasUsed
<1>2. IndInv => [InsWrite /\ SlotFree /\ req_q.ins_id \in LiveIds => rd_data.tomb]_vars
  BY <1>1
<1>. QED
  BY <1>2, Invariant, PTL DEF CopiesOnlyInHoles

\* An insert has only passed slots that are occupied.
PassedLive ==
  state_q = "S_INS" => \A j \in 0 .. probe_q - 1 : mem[Window(req_q.ins_id, j)].vld

\* It passes one more only if that one is, and while it walks nothing is freed.
LEMMA PassedLiveStep == IndInv /\ PassedLive /\ [AnyEdge]_vars => PassedLive'
<1>. SUFFICES ASSUME IndInv, PassedLive, [AnyEdge]_vars PROVE PassedLive'
  OBVIOUS
<1>1. CASE InsNext
  <2>1. PICK id, p : id = req_q.ins_id /\ p = probe_q
    OBVIOUS
  <2>2. /\ state_q = "S_INS" /\ mem' = mem /\ req_q' = req_q
        /\ probe_q' = p + 1 /\ mem[addr_q].vld
    BY <1>1, <2>1 DEF InsNext, NextProbe, MemWrite, WrEn, InsHit, SlotFree, IndInv, ReadCoherent
  <2>3. addr_q = Window(id, p) /\ p \in Nat
    BY <2>1, <2>2 DEF IndInv, TypeInv, TypeOK, ProbeInv, Probing, Sought
  <2>4. ASSUME NEW j \in 0 .. p PROVE mem[Window(id, j)].vld
    <3>1. j = p \/ j \in 0 .. p - 1
      BY <2>3
    <3>. QED
      BY <2>1, <2>2, <2>3, <3>1 DEF PassedLive
  <2>5. probe_q' - 1 = p
    BY <2>2, <2>3
  <2>6. ASSUME NEW j \in 0 .. probe_q' - 1 PROVE mem'[Window(req_q'.ins_id, j)].vld
    <3>1. mem[Window(id, j)].vld
      BY <2>4, <2>5
    <3>. QED
      BY <2>1, <2>2, <3>1 DEF Window
  <2>. QED
    BY <2>6 DEF PassedLive, Window
<1>2. CASE UNCHANGED vars
  BY <1>2 DEF vars, PassedLive, Window
<1>3. CASE state_q' # "S_INS"
  BY <1>3 DEF PassedLive
<1>4. CASE probe_q' = 0
  BY <1>4 DEF PassedLive
<1>5. InsNext \/ UNCHANGED vars \/ state_q' # "S_INS" \/ probe_q' = 0
  BY DEF AnyEdge, BusyStep, Accept, Reset, Clear, LookHit, LookMiss, LookNext, InsWrite, InsFull,
         Idle, AcceptUntracked, AcceptAdd, AcceptLookup, GoIdle, StartProbe, NextProbe
<1>. QED
  BY <1>1, <1>2, <1>3, <1>4, <1>5

\* An order is dropped for want of room only when every slot of its probe
\* window holds another order (header, lines 20-23).
THEOREM LossesAreFull == Spec => LostOnlyWhenFull
<1>1. Init => PassedLive
  BY DEF Init, PassedLive
<1>2. Spec => []PassedLive
  BY <1>1, PassedLiveStep, NextIsEdge, Invariant, PTL DEF Spec
<1>3. ASSUME IndInv, PassedLive, InsFull
      PROVE  \A k \in 0 .. MAX_PROBES - 1 : mem[Window(req_q.ins_id, k)].vld
  <2>1. PICK id, p : id = req_q.ins_id /\ p = probe_q
    OBVIOUS
  <2>2. state_q = "S_INS" /\ p = MAX_PROBES - 1 /\ mem[addr_q].vld /\ addr_q = Window(id, p)
    BY <1>3, <2>1
       DEF InsFull, LastProbe, InsHit, SlotFree, IndInv, ReadCoherent, ProbeInv, Probing, Sought
  <2>3. ASSUME NEW k \in 0 .. MAX_PROBES - 1 PROVE mem[Window(id, k)].vld
    <3>1. k = p \/ k \in 0 .. p - 1
      BY <2>2, TableAssumption
    <3>. QED
      BY <1>3, <2>1, <2>2, <3>1 DEF PassedLive
  <2>. QED
    BY <2>1, <2>3
<1>4. IndInv /\ PassedLive =>
        [InsFull => \A k \in 0 .. MAX_PROBES - 1 : mem[Window(req_q.ins_id, k)].vld]_vars
  BY <1>3
<1>. QED
  BY <1>2, <1>4, Invariant, PTL DEF LostOnlyWhenFull

-----------------------------------------------------------------------------
(* What the router counts and promises: the occupancy counter, one slot per *)
(* order, and the number of clock edges a message can take.                 *)

Occupied == {a \in Addr : mem[a].vld}

\* During the sweep the counter already stands at zero.
OccInv ==
  /\ OccupancyExact
  /\ state_q = "S_CLEAR" => occupancy = 0

\* What a walk is about to insert does not rest already; while a REPLACE still
\* looks for its old order, it may at most be that order's id.
FreshInv ==
  ~ReuseIds =>
    /\ NoDuplicateOrder
    /\ state_q = "S_INS" => req_q.ins_id \notin LiveIds
    /\ state_q = "S_LOOK" /\ req_q.kind = "REPLACE" =>
         req_q.ins_id \notin LiveIds \ {req_q.oid}

-----------------------------------------------------------------------------
(* Occupancy.                                                               *)

\* The live slots, now and after an edge, are a finite set.
LEMMA OccupiedFinite == IsFiniteSet(Occupied) /\ IsFiniteSet(Occupied')
<1>1. IsFiniteSet(Addr)
  BY FS_Interval, TableAssumption DEF Addr
<1>2. Occupied \subseteq Addr /\ Occupied' \subseteq Addr
  BY DEF Occupied, Addr
<1>. QED
  BY <1>1, <1>2, FS_Subset

\* A write changes at most the liveness of the slot it goes to.
LEMMA OccupiedAfterWrite ==
  ASSUME IndInv, Swept, mem' = MemWrite
  PROVE  Occupied' = IF ~WrEn THEN Occupied
                     ELSE IF WrData.vld THEN Occupied \cup {addr_q}
                     ELSE Occupied \ {addr_q}
  BY DEF Occupied, Addr, MemWrite, IndInv, TypeInv, TypeOK

\* A hit in the read register is a live slot of the table.
LEMMA ReadIsLive ==
  ASSUME IndInv, Probing
  PROVE  addr_q \in Occupied <=> rd_data.vld
  BY DEF Occupied, IndInv, ReadCoherent, Probing, TypeInv, TypeOK

\* A hit frees its slot exactly when it takes one off the counter.
LEMMA OccupancyHit ==
  ASSUME IndInv, OccInv, LookHit
  PROVE  occupancy' = Cardinality(Occupied')
<1>1. Swept /\ mem' = MemWrite /\ WrEn /\ addr_q \in Occupied
  BY ReadIsLive DEF LookHit, Swept, WrEn, Probing, IdMatch
<1>2. occupancy = Cardinality(Occupied)
  BY <1>1 DEF OccInv, OccupancyExact, Occupied
<1>3. CASE Frees
  <2>1. Occupied' = Occupied \ {addr_q}
    <3>1. ~WrData.vld
      BY <1>3 DEF LookHit, WrData, Tombstone, ZeroEntry, SlotEntry
    <3>. QED
      BY <1>1, <3>1, OccupiedAfterWrite
  <2>2. occupancy' = occupancy - 1
    BY <1>3 DEF LookHit, OccDec
  <2>. QED
    BY <1>1, <1>2, <2>1, <2>2, OccupiedFinite, FS_RemoveElement
<1>4. CASE ~Frees
  <2>1. Occupied' = Occupied
    <3>1. WrData.vld
      BY <1>4 DEF LookHit, WrData, IdMatch, IndInv, TypeInv, TypeOK, Entry
    <3>. QED
      BY <1>1, <3>1, OccupiedAfterWrite
  <2>. QED
    BY <1>2, <1>4, <2>1 DEF LookHit, OccDec
<1>. QED
  BY <1>3, <1>4

\* An insert fills a slot that was not live, and adds one.
LEMMA OccupancyInsert ==
  ASSUME IndInv, OccInv, InsWrite
  PROVE  occupancy' = Cardinality(Occupied')
<1>1. Swept /\ mem' = MemWrite /\ WrEn /\ (addr_q \in Occupied <=> rd_data.vld)
  BY ReadIsLive DEF InsWrite, Swept, WrEn, Probing
<1>2. occupancy = Cardinality(Occupied)
  BY <1>1 DEF OccInv, OccupancyExact, Occupied
<1>3. Occupied' = Occupied \cup {addr_q}
  <2>1. WrData.vld
    BY DEF InsWrite, WrData, SlotEntry
  <2>. QED
    BY <1>1, <2>1, OccupiedAfterWrite
<1>4. occupancy' = IF SlotFree THEN occupancy + 1 ELSE occupancy
  BY DEF InsWrite, OccInc
<1>. QED
  BY <1>1, <1>2, <1>3, <1>4, OccupiedFinite, FS_AddElement DEF SlotFree

\* An edge that writes nothing and leaves the counter alone.
LEMMA OccupancySame ==
  ASSUME IndInv, OccInv, Swept, mem' = MemWrite, ~WrEn, occupancy' = occupancy,
         state_q' # "S_CLEAR"
  PROVE  OccInv'
  BY OccupiedAfterWrite DEF OccInv, OccupancyExact, Occupied, Swept

\* No edge lets the counter and the live slots drift apart.
LEMMA OccupancyStep == IndInv /\ IndInv' /\ OccInv /\ [Next]_vars => OccInv'
<1>. SUFFICES ASSUME IndInv, IndInv', OccInv, [Next]_vars PROVE OccInv'
  OBVIOUS
<1>1. CASE Reset
  BY <1>1 DEF Reset, OccInv, OccupancyExact, Swept
<1>2. CASE Clear
  <2>1. occupancy = 0 /\ occupancy' = 0
    BY <1>2 DEF Clear, OccInv, counters
  <2>2. CASE addr_q = DEPTH - 1
    <3>1. \A a \in Addr : ~mem'[a].vld
      <4>1. mem' = [mem EXCEPT ![addr_q] = ZeroEntry] /\ state_q = "S_CLEAR"
        BY <1>2 DEF Clear, MemWrite, WrEn, WrData
      <4>2. \A a \in Addr : a = addr_q \/ a \in 0 .. addr_q - 1
        BY <2>2, TableAssumption DEF Addr
      <4>. QED
        BY <4>1, <4>2 DEF IndInv, TypeInv, TypeOK, SweepInv, ZeroEntry, SlotEntry
    <3>2. {a \in Addr : mem'[a].vld} = {}
      BY <3>1
    <3>. QED
      BY <2>1, <3>2, FS_EmptySet DEF OccInv, OccupancyExact, Addr
  <2>3. CASE addr_q # DEPTH - 1
    BY <1>2, <2>1, <2>3 DEF Clear, OccInv, OccupancyExact, Swept
  <2>. QED
    BY <2>2, <2>3
<1>3. CASE LookHit
  <2>1. state_q' # "S_CLEAR"
    BY <1>3 DEF LookHit, GoIdle, StartProbe
  <2>. QED
    BY <1>3, <2>1, OccupancyHit DEF OccInv, OccupancyExact, Occupied
<1>4. CASE LookMiss
  BY <1>4, OccupancySame DEF LookMiss, Swept, WrEn, GoIdle
<1>5. CASE LookNext
  BY <1>5, OccupancySame DEF LookNext, NextProbe, Swept, WrEn, counters
<1>6. CASE InsWrite
  <2>1. state_q' # "S_CLEAR"
    BY <1>6 DEF InsWrite, GoIdle
  <2>. QED
    BY <1>6, <2>1, OccupancyInsert DEF OccInv, OccupancyExact, Occupied
<1>7. CASE InsFull
  BY <1>7, OccupancySame DEF InsFull, Swept, WrEn, GoIdle
<1>8. CASE InsNext
  BY <1>8, OccupancySame DEF InsNext, NextProbe, Swept, WrEn, counters
<1>9. CASE Idle
  BY <1>9, OccupancySame DEF Idle, Swept, WrEn, counters
<1>10. ASSUME NEW m \in Msg, AcceptUntracked(m) PROVE OccInv'
  BY <1>10, OccupancySame DEF AcceptUntracked, Swept, WrEn
<1>11. ASSUME NEW m \in Msg, AcceptAdd(m) PROVE OccInv'
  BY <1>11, OccupancySame DEF AcceptAdd, StartProbe, Swept, WrEn, counters
<1>12. ASSUME NEW m \in Msg, AcceptLookup(m) PROVE OccInv'
  BY <1>12, OccupancySame DEF AcceptLookup, StartProbe, Swept, WrEn, counters
<1>13. CASE UNCHANGED vars
  BY <1>13 DEF vars, OccInv, OccupancyExact, Swept
<1>. QED
  BY <1>1, <1>2, <1>3, <1>4, <1>5, <1>6, <1>7, <1>8, <1>9, <1>10, <1>11, <1>12, <1>13
     DEF Next, BusyStep, Accept

\* The occupancy counter is exact, so the assertions that it never underflows
\* and never exceeds the table hold for every feed, reused ids included.
THEOREM OccupancyIsExact == Spec => []OccupancyExact
<1>1. Init => OccInv
  BY DEF Init, OccInv, OccupancyExact, Swept
<1>2. Spec => []OccInv
  BY <1>1, OccupancyStep, Invariant, PTL DEF Spec
<1>. QED
  BY <1>2, PTL DEF OccInv

-----------------------------------------------------------------------------
(* Cycles.                                                                  *)

\* An edge but a reset uses up one of the cycles left, and a message that is
\* latched leaves one walk to do, or two.
CyclesUsed ==
  /\ busy /\ ~Reset => CyclesLeft' < CyclesLeft
  /\ ~busy /\ busy' => \/ state_q' = "S_CLEAR"
                       \/ CyclesLeft' <= (IF req_q'.kind = "REPLACE" THEN 2 ELSE 1)
                                         * MAX_PROBES

\* So does every edge, whatever message is on the port.
LEMMA CyclesStep == TypeInv /\ AnyEdge => CyclesUsed
<1>. SUFFICES ASSUME TypeInv, AnyEdge PROVE CyclesUsed
  OBVIOUS
<1>t. /\ addr_q \in 0 .. DEPTH - 1 /\ probe_q \in 0 .. MAX_PROBES - 1
      /\ MAX_PROBES \in Nat /\ DEPTH \in Nat
      /\ MAX_PROBES > 0 /\ DEPTH > 0
  BY TableAssumption DEF TypeInv, TypeOK, Addr
<1>1. CASE Reset
  BY <1>1 DEF CyclesUsed, Reset
<1>2. CASE Clear
  BY <1>t, <1>2 DEF CyclesUsed, Clear, GoIdle, CyclesLeft, busy
<1>3. CASE LookHit
  <2>1. CASE req_q.kind = "REPLACE"
    BY <1>t, <1>3, <2>1 DEF CyclesUsed, LookHit, StartProbe, CyclesLeft, busy
  <2>2. CASE req_q.kind # "REPLACE"
    BY <1>t, <1>3, <2>2 DEF CyclesUsed, LookHit, GoIdle, CyclesLeft, busy
  <2>. QED
    BY <2>1, <2>2
<1>4. CASE LookMiss
  BY <1>t, <1>4 DEF CyclesUsed, LookMiss, GoIdle, CyclesLeft, busy
<1>5. CASE LookNext
  BY <1>t, <1>5 DEF CyclesUsed, LookNext, NextProbe, CyclesLeft, busy
<1>6. CASE InsWrite
  BY <1>t, <1>6 DEF CyclesUsed, InsWrite, GoIdle, CyclesLeft, busy
<1>7. CASE InsFull
  BY <1>t, <1>7 DEF CyclesUsed, InsFull, GoIdle, CyclesLeft, busy
<1>8. CASE InsNext
  BY <1>t, <1>8 DEF CyclesUsed, InsNext, NextProbe, CyclesLeft, busy
<1>9. CASE Idle
  BY <1>9 DEF CyclesUsed, Idle, busy
<1>10. ASSUME NEW m \in Msg, AcceptUntracked(m) PROVE CyclesUsed
  BY <1>10 DEF CyclesUsed, AcceptUntracked, busy
<1>11. ASSUME NEW m \in Msg, AcceptAdd(m) PROVE CyclesUsed
  BY <1>t, <1>11 DEF CyclesUsed, AcceptAdd, StartProbe, CyclesLeft, busy
<1>12. ASSUME NEW m \in Msg, AcceptLookup(m) PROVE CyclesUsed
  BY <1>t, <1>12 DEF CyclesUsed, AcceptLookup, StartProbe, CyclesLeft, busy
<1>. QED
  BY <1>1, <1>2, <1>3, <1>4, <1>5, <1>6, <1>7, <1>8, <1>9, <1>10, <1>11, <1>12
     DEF AnyEdge, BusyStep, Accept

\* A message keeps the router busy at most MAX_PROBES edges per walk, a
\* REPLACE for two walks, and the sweep ends: the feed that leaves a gap of
\* 2 * MAX_PROBES edges between messages never finds the router busy.
THEOREM BusyIsBounded == Spec => BusyBounded
<1>1. TypeInv /\ [Next]_vars => [CyclesUsed]_vars
  BY CyclesStep, NextIsEdge
<1>. QED
  BY <1>1, InitTyped, EdgeTyped, NextIsEdge, PTL DEF Spec, BusyBounded, CyclesUsed

-----------------------------------------------------------------------------
(* One slot per order.                                                      *)

\* An edge that writes nothing and does not start a walk.
LEMMA FreshSame ==
  ASSUME IndInv, FreshInv, Swept, mem' = MemWrite, ~WrEn,
         \/ state_q' = "S_IDLE"
         \/ state_q' = state_q /\ req_q' = req_q
  PROVE  FreshInv'
<1>1. mem' = mem
  BY DEF MemWrite
<1>. QED
  BY <1>1 DEF FreshInv, NoDuplicateOrder, Swept, LiveAt, LiveIds

\* A hit never adds an id, and the slot a REPLACE frees was the only one.
LEMMA FreshHit ==
  ASSUME IndInv, FreshInv, LookHit
  PROVE  FreshInv'
<1>. SUFFICES ASSUME ~ReuseIds PROVE FreshInv'
  BY DEF FreshInv
<1>1. /\ Swept /\ mem' = MemWrite /\ WrEn /\ state_q = "S_LOOK"
      /\ addr_q \in Addr /\ LiveAt(req_q.oid, addr_q)
  BY DEF LookHit, Swept, WrEn, IdMatch, LiveAt, IndInv, ReadCoherent, TypeInv, TypeOK
<1>2. \A a \in Addr : mem'[a].vld => LiveAt(mem'[a].order_id, a)
  BY <1>1, LiveAfterWrite
<1>3. NoDuplicateOrder'
  BY <1>1, <1>2 DEF FreshInv, NoDuplicateOrder, LiveAt
<1>4. CASE req_q.kind = "REPLACE"
  <2>1. state_q' = "S_INS" /\ req_q'.ins_id = req_q.ins_id
    BY <1>4 DEF LookHit, StartProbe, IndInv, TypeInv, TypeOK, Request
  <2>2. ~mem'[addr_q].vld
    BY <1>1, <1>4
       DEF Frees, Reduces, MemWrite, WrData, Tombstone, ZeroEntry, SlotEntry, IndInv, TypeInv,
           TypeOK
  <2>3. ASSUME NEW a \in Addr, mem'[a].vld PROVE mem'[a].order_id # req_q.ins_id
    <3>1. a # addr_q /\ LiveAt(mem'[a].order_id, a)
      BY <1>2, <2>2, <2>3
    <3>2. mem'[a].order_id # req_q.oid
      BY <1>1, <3>1 DEF FreshInv, NoDuplicateOrder, LiveAt
    <3>. QED
      BY <1>1, <1>4, <3>1, <3>2 DEF FreshInv, LiveIds, LiveAt
  <2>. QED
    BY <1>3, <2>1, <2>3 DEF FreshInv, LiveIds
<1>5. CASE req_q.kind # "REPLACE"
  BY <1>3, <1>5 DEF FreshInv, LookHit, GoIdle
<1>. QED
  BY <1>4, <1>5

\* An insert adds an id that rests nowhere.
LEMMA FreshInsert ==
  ASSUME IndInv, FreshInv, InsWrite
  PROVE  FreshInv'
<1>. SUFFICES ASSUME ~ReuseIds PROVE FreshInv'
  BY DEF FreshInv
<1>1. /\ Swept /\ mem' = MemWrite /\ WrEn /\ state_q' = "S_IDLE" /\ addr_q \in Addr
      /\ state_q = "S_INS" /\ req_q.ins_id \notin LiveIds
  BY DEF InsWrite, GoIdle, Swept, WrEn, FreshInv, IndInv, TypeInv, TypeOK
<1>2. mem'[addr_q].order_id = req_q.ins_id
  BY <1>1 DEF MemWrite, WrData, SlotEntry, IndInv, TypeInv, TypeOK
<1>3. \A a \in Addr : a # addr_q => mem'[a] = mem[a]
  BY <1>1 DEF MemWrite, IndInv, TypeInv, TypeOK
<1>4. \A a \in Addr : mem[a].vld => mem[a].order_id # req_q.ins_id
  BY <1>1 DEF LiveIds
<1>5. NoDuplicateOrder'
  BY <1>1, <1>2, <1>3, <1>4 DEF FreshInv, NoDuplicateOrder, LiveAt
<1>. QED
  BY <1>1, <1>5 DEF FreshInv

\* Latching a message: the feed vouches for the id it will insert.
LEMMA FreshAccept ==
  ASSUME IndInv, FreshInv, NEW m \in Msg, FeedAllows(m), Accept(m)
  PROVE  FreshInv'
<1>. SUFFICES ASSUME ~ReuseIds PROVE FreshInv'
  BY DEF FreshInv
<1>1. Swept /\ mem' = mem
  BY DEF Accept, AcceptUntracked, AcceptAdd, AcceptLookup, Swept, MemWrite, WrEn
<1>2. NoDuplicateOrder' /\ LiveIds' = LiveIds
  BY <1>1 DEF FreshInv, NoDuplicateOrder, LiveAt, LiveIds
<1>3. CASE AcceptUntracked(m)
  BY <1>2, <1>3 DEF AcceptUntracked, FreshInv
<1>4. CASE AcceptAdd(m)
  <2>1. state_q' = "S_INS" /\ req_q'.ins_id = m.order_id /\ m.order_id \notin LiveIds
    BY <1>4 DEF AcceptAdd, StartProbe, FeedAllows
  <2>. QED
    BY <1>2, <2>1 DEF FreshInv
<1>5. CASE AcceptLookup(m)
  <2>1. /\ state_q' = "S_LOOK" /\ req_q'.ins_id = m.new_order_id
        /\ req_q'.oid = m.order_id /\ req_q'.kind = m.kind
    BY <1>5 DEF AcceptLookup, StartProbe
  <2>. QED
    BY <1>2, <2>1 DEF FreshInv, FeedAllows
<1>. QED
  BY <1>3, <1>4, <1>5 DEF Accept

\* No edge puts a second entry under an id that rests.
LEMMA FreshStep == IndInv /\ IndInv' /\ FreshInv /\ [Next]_vars => FreshInv'
<1>. SUFFICES ASSUME IndInv, IndInv', FreshInv, [Next]_vars PROVE FreshInv'
  OBVIOUS
<1>1. CASE Reset
  BY <1>1 DEF Reset, FreshInv, NoDuplicateOrder, Swept
<1>2. CASE Clear
  <2>1. CASE addr_q = DEPTH - 1
    <3>1. mem' = [mem EXCEPT ![addr_q] = ZeroEntry] /\ state_q' = "S_IDLE"
      BY <1>2, <2>1 DEF Clear, GoIdle, MemWrite, WrEn, WrData
    <3>2. \A a \in Addr : a = addr_q \/ a \in 0 .. addr_q - 1
      BY <2>1, TableAssumption DEF Addr
    <3>3. state_q = "S_CLEAR"
      BY <1>2 DEF Clear
    <3>4. \A a \in Addr : ~mem'[a].vld
      BY <3>1, <3>2, <3>3 DEF IndInv, TypeInv, TypeOK, SweepInv, ZeroEntry, SlotEntry
    <3>. QED
      BY <3>1, <3>4 DEF FreshInv, NoDuplicateOrder
  <2>2. CASE addr_q # DEPTH - 1
    BY <1>2, <2>2 DEF Clear, FreshInv, NoDuplicateOrder, Swept
  <2>. QED
    BY <2>1, <2>2
<1>3. CASE LookHit
  BY <1>3, FreshHit
<1>4. CASE LookMiss
  BY <1>4, FreshSame DEF LookMiss, Swept, WrEn, GoIdle
<1>5. CASE LookNext
  BY <1>5, FreshSame DEF LookNext, NextProbe, Swept, WrEn
<1>6. CASE InsWrite
  BY <1>6, FreshInsert
<1>7. CASE InsFull
  BY <1>7, FreshSame DEF InsFull, Swept, WrEn, GoIdle
<1>8. CASE InsNext
  BY <1>8, FreshSame DEF InsNext, NextProbe, Swept, WrEn
<1>9. CASE Idle
  BY <1>9, FreshSame DEF Idle, Swept, WrEn
<1>10. ASSUME NEW m \in Msg, FeedAllows(m), Accept(m) PROVE FreshInv'
  BY <1>10, FreshAccept
<1>11. CASE UNCHANGED vars
  BY <1>11 DEF vars, FreshInv, NoDuplicateOrder, Swept, LiveAt, LiveIds
<1>. QED
  BY <1>1, <1>2, <1>3, <1>4, <1>5, <1>6, <1>7, <1>8, <1>9, <1>10, <1>11 DEF Next, BusyStep

\* An order rests in one slot at most when the feed never reuses a live id:
\* insertion into the first free slot of a window creates no second copy.
THEOREM OrdersAreUnique == Spec => []NoDuplicateOrder
<1>1. Init => FreshInv
  BY DEF Init, FreshInv, NoDuplicateOrder, Swept
<1>2. Spec => []FreshInv
  BY <1>1, FreshStep, Invariant, PTL DEF Spec
<1>3. FreshInv => NoDuplicateOrder
  BY DEF FreshInv, NoDuplicateOrder
<1>. QED
  BY <1>2, <1>3, PTL

-----------------------------------------------------------------------------
(* The dictionary.                                                          *)

OutOp == IF out_valid THEN out_op ELSE Nothing

-----------------------------------------------------------------------------
(* The mapped dictionary.                                                   *)

\* In a memory where an id rests once, the slot of the id is that one.
LEMMA SlotChosen ==
  ASSUME NEW m, NEW id, NEW a \in Addr, m[a].vld, m[a].order_id = id,
         \A b \in Addr : m[b].vld /\ m[b].order_id = id => b = a
  PROVE  (CHOOSE b \in Addr : m[b].vld /\ m[b].order_id = id) = a
  OBVIOUS

\* A live slot is an entry of the dictionary.
LEMMA LiveIsMapped ==
  ASSUME ~ReuseIds, FreshInv, Swept, NEW id, NEW a \in Addr, LiveAt(id, a)
  PROVE  id \in DOMAIN MappedOrders /\ MappedOrders[id] = OrderOf(mem[a])
<1>1. SlotOf(id) = a
  <2>1. \A b \in Addr : mem[b].vld /\ mem[b].order_id = id => b = a
    BY DEF FreshInv, NoDuplicateOrder, LiveAt
  <2>. QED
    BY <2>1, SlotChosen DEF SlotOf, LiveAt
<1>. QED
  BY <1>1 DEF MappedOrders, LiveIds, LiveAt

\* And so it is after an edge.
LEMMA LiveIsMappedNext ==
  ASSUME ~ReuseIds, FreshInv', Swept', NEW id, NEW a \in Addr, LiveAt(id, a)'
  PROVE  id \in DOMAIN MappedOrders' /\ MappedOrders'[id] = OrderOf(mem[a])'
<1>1. SlotOf(id)' = a
  <2>1. \A b \in Addr : mem'[b].vld /\ mem'[b].order_id = id => b = a
    BY DEF FreshInv, NoDuplicateOrder, LiveAt
  <2>. QED
    BY <2>1, SlotChosen DEF SlotOf, LiveAt
<1>. QED
  BY <1>1 DEF MappedOrders, LiveIds, LiveAt

\* A function that agrees with every live slot after an edge is the dictionary.
LEMMA MappedNext ==
  ASSUME ~ReuseIds, FreshInv', Swept', NEW f, f = [id \in DOMAIN f |-> f[id]],
         DOMAIN f = LiveIds',
         \A a \in Addr : mem'[a].vld => f[mem'[a].order_id] = OrderOf(mem'[a])
  PROVE  MappedOrders' = f
<1>1. MappedOrders' = [id \in LiveIds' |-> MappedOrders'[id]]
  BY DEF MappedOrders
<1>2. ASSUME NEW id \in LiveIds' PROVE MappedOrders'[id] = f[id]
  <2>1. PICK a \in Addr : mem'[a].vld /\ mem'[a].order_id = id
    BY DEF LiveIds
  <2>2. MappedOrders'[id] = OrderOf(mem[a])'
    BY <2>1, LiveIsMappedNext DEF LiveAt
  <2>. QED
    BY <2>1, <2>2
<1>. QED
  BY <1>1, <1>2, Zenon

\* An edge that leaves the memory leaves the dictionary.
LEMMA SameOrders ==
  ASSUME Swept, Swept', mem' = mem
  PROVE  MappedOrders' = MappedOrders
  BY DEF MappedOrders, LiveIds, SlotOf, LiveAt, OrderOf

-----------------------------------------------------------------------------
(* The mapped request.                                                      *)

\* Outside a walk nothing is to be done.
LEMMA NoTodo == ~Probing /\ state_q \in {"S_CLEAR", "S_IDLE"} => MappedTodo = Nothing
  BY DEF MappedTodo

\* Nor is there one on the next edge, when the router is then at rest.
LEMMA NoTodoNext == state_q' \in {"S_CLEAR", "S_IDLE"} => MappedTodo' = Nothing
  BY DEF MappedTodo

\* The put of an insert walk.
LEMMA PutTodo ==
  ASSUME TypeInv, state_q = "S_INS"
  PROVE  /\ MappedTodo = [do |-> "put", id |-> req_q.ins_id,
                          order |-> [book_idx |-> req_q.idx, side |-> req_q.side,
                                     price |-> req_q.price, shares |-> req_q.shares]]
         /\ MappedTodo \in Todo
<1>1. MappedTodo = [do |-> "put", id |-> req_q.ins_id,
                    order |-> [book_idx |-> req_q.idx, side |-> req_q.side,
                               price |-> req_q.price, shares |-> req_q.shares]]
  BY DEF MappedTodo
<1>2. /\ req_q.ins_id \in OrderId /\ req_q.idx \in BookIdx /\ req_q.side \in Side
      /\ req_q.price \in Price \cup {0} /\ req_q.shares \in Shares
  BY DEF TypeInv, TypeOK, RequestOK, Request
<1>. QED
  BY <1>1, <1>2 DEF Todo, Order

\* What a lookup walk is to do.
LEMMA LookTodo ==
  ASSUME TypeInv, state_q = "S_LOOK"
  PROVE  /\ MappedTodo =
              IF Reduces THEN [do |-> "take", id |-> req_q.oid, shares |-> req_q.shares]
              ELSE IF req_q.kind = "REPLACE"
              THEN [do |-> "popput", id |-> req_q.oid, new |-> req_q.ins_id,
                    price |-> req_q.price, shares |-> req_q.shares]
              ELSE [do |-> "pop", id |-> req_q.oid]
         /\ MappedTodo \in Todo
<1>2. /\ req_q.oid \in OrderId
      /\ req_q.price \in Price \cup {0} /\ req_q.shares \in Shares
      /\ req_q.kind \in {"EXEC", "CANCEL", "DELETE", "REPLACE"}
      /\ req_q.kind = "REPLACE" => req_q.ins_id \in OrderId
  BY DEF TypeInv, TypeOK, RequestOK, Request
<1>3. CASE Reduces
  BY <1>2, <1>3 DEF MappedTodo, Todo, Reduces
<1>4. CASE req_q.kind = "REPLACE"
  <2>1. ~Reduces
    BY <1>4 DEF Reduces
  <2>. QED
    BY <1>2, <1>4, <2>1 DEF MappedTodo, Todo
<1>5. CASE req_q.kind = "DELETE"
  <2>1. ~Reduces
    BY <1>5 DEF Reduces
  <2>. QED
    BY <1>2, <1>5, <2>1 DEF MappedTodo, Todo
<1>. QED
  BY <1>2, <1>3, <1>4, <1>5 DEF Reduces

\* After an edge into a walk there is something to do.
LEMMA TodoNext ==
  ASSUME TypeInv', state_q' \in {"S_LOOK", "S_INS"}
  PROVE  MappedTodo' # Nothing
<1>1. /\ req_q'.price \in Price \cup {0} /\ req_q'.shares \in Shares
      /\ req_q'.idx \in BookIdx /\ req_q'.side \in Side
      /\ state_q' = "S_INS" => req_q'.ins_id \in OrderId
      /\ state_q' = "S_LOOK" =>
           /\ req_q'.oid \in OrderId
           /\ req_q'.kind \in {"EXEC", "CANCEL", "DELETE", "REPLACE"}
           /\ req_q'.kind = "REPLACE" => req_q'.ins_id \in OrderId
  BY DEF TypeInv, TypeOK, RequestOK, Request
<1>2. MappedTodo' \in Todo
  <2>1. CASE state_q' = "S_INS"
    BY <1>1, <2>1 DEF MappedTodo, Todo, Order
  <2>2. CASE state_q' = "S_LOOK" /\ req_q'.kind \in {"EXEC", "CANCEL"}
    BY <1>1, <2>2 DEF MappedTodo, Todo, Reduces
  <2>3. CASE state_q' = "S_LOOK" /\ req_q'.kind = "REPLACE"
    BY <1>1, <2>3 DEF MappedTodo, Todo, Reduces
  <2>4. CASE state_q' = "S_LOOK" /\ req_q'.kind = "DELETE"
    BY <1>1, <2>4 DEF MappedTodo, Todo, Reduces
  <2>. QED
    BY <1>1, <2>1, <2>2, <2>3, <2>4
<1>. QED
  BY <1>2, NothingAssumption

\* An edge without an operation.
LEMMA QuietMapped == Quiet => OutOp' = Nothing
  BY DEF Quiet, OutOp

-----------------------------------------------------------------------------
(* The edges of the table as steps of the dictionary.                       *)

\* An insert is the assignment orders[id] = order of on_message.
LEMMA InsertPuts ==
  ASSUME ~ReuseIds, IndInv, FreshInv, FreshInv', InsWrite
  PROVE  Dict!DoPut
<1>1. /\ state_q = "S_INS" /\ Swept /\ WrEn /\ mem' = MemWrite /\ state_q' = "S_IDLE"
      /\ addr_q \in Addr /\ rd_data = mem[addr_q] /\ mem \in [Addr -> Entry]
      /\ req_q.ins_id \notin LiveIds
  BY DEF InsWrite, GoIdle, Swept, WrEn, IndInv, TypeInv, TypeOK, ReadCoherent, FreshInv
<1>2. /\ mem' = [mem EXCEPT ![addr_q] = WrData]
      /\ WrData = SlotEntry(req_q.ins_id, req_q.idx, req_q.side, req_q.price, req_q.shares)
  BY <1>1 DEF MemWrite, WrData
<1>3. ~mem[addr_q].vld
  BY <1>1 DEF InsWrite, InsHit, SlotFree, LiveIds
<1>4. /\ mem'[addr_q].vld /\ mem'[addr_q].order_id = req_q.ins_id
      /\ OrderOf(mem'[addr_q]) = [book_idx |-> req_q.idx, side |-> req_q.side,
                                  price |-> req_q.price, shares |-> req_q.shares]
      /\ \A a \in Addr : a # addr_q => mem'[a] = mem[a]
  BY <1>1, <1>2 DEF SlotEntry, OrderOf
<1>5. LiveIds' = LiveIds \cup {req_q.ins_id}
  BY <1>1, <1>3, <1>4 DEF LiveIds
<1>. DEFINE order == [book_idx |-> req_q.idx, side |-> req_q.side,
                      price |-> req_q.price, shares |-> req_q.shares]
            new == Dict!With(MappedOrders, req_q.ins_id, order)
<1>6. /\ new = [id \in DOMAIN new |-> new[id]]
      /\ DOMAIN new = LiveIds'
      /\ new[req_q.ins_id] = order
      /\ \A id \in LiveIds : id # req_q.ins_id => new[id] = MappedOrders[id]
  BY <1>1, <1>5 DEF Dict!With, MappedOrders
<1>7. MappedOrders' = new
  <2>1. ASSUME NEW a \in Addr, mem'[a].vld
        PROVE  new[mem'[a].order_id] = OrderOf(mem'[a])
    <3>1. CASE a = addr_q
      BY <1>4, <1>6, <3>1
    <3>2. CASE a # addr_q
      <4>1. mem'[a] = mem[a] /\ mem[a].vld /\ mem[a].order_id \in LiveIds
        BY <1>4, <2>1, <3>2 DEF LiveIds
      <4>2. mem[a].order_id # req_q.ins_id
        BY <1>1, <4>1
      <4>3. MappedOrders[mem[a].order_id] = OrderOf(mem[a])
        BY <1>1, <4>1, LiveIsMapped DEF LiveAt
      <4>. QED
        BY <1>6, <4>1, <4>2, <4>3
    <3>. QED
      BY <3>1, <3>2
  <2>. HIDE DEF new
  <2>2. Swept'
    BY <1>1 DEF Swept
  <2>. QED
    BY <1>6, <2>1, <2>2, MappedNext
<1>8. /\ MappedTodo = [do |-> "put", id |-> req_q.ins_id, order |-> order]
      /\ MappedTodo # Nothing
  BY <1>1, PutTodo, NothingAssumption DEF IndInv
<1>9. MappedTodo' = Nothing
  BY <1>1, NoTodoNext
<1>10. OutOp' = Dict!BookOp("OP_ADD", order, order.shares)
  BY DEF OutOp, InsWrite, Emit, BookOp, Dict!BookOp
<1>. QED
  BY <1>7, <1>8, <1>9, <1>10 DEF Dict!DoPut, OutOp, InsWrite

\* What a hit does to the table: it frees the slot of the id, or takes the
\* shares from it.
LEMMA HitSlot ==
  ASSUME IndInv, LookHit
  PROVE  /\ state_q = "S_LOOK" /\ Swept /\ Swept' /\ addr_q \in Addr
         /\ rd_data = mem[addr_q] /\ mem[addr_q] \in Entry /\ LiveAt(req_q.oid, addr_q)
         /\ Frees => ~mem'[addr_q].vld
         /\ ~Frees => /\ mem'[addr_q].vld /\ mem'[addr_q].order_id = req_q.oid
                      /\ OrderOf(mem'[addr_q]) =
                           [OrderOf(mem[addr_q]) EXCEPT !.shares = @ - req_q.shares]
         /\ \A a \in Addr : a # addr_q => mem'[a] = mem[a]
<1>1. /\ state_q = "S_LOOK" /\ Swept /\ WrEn /\ mem' = MemWrite
      /\ addr_q \in Addr /\ mem \in [Addr -> Entry] /\ rd_data = mem[addr_q]
  BY DEF LookHit, Swept, WrEn, IndInv, TypeInv, TypeOK, ReadCoherent
<1>2. mem' = [mem EXCEPT ![addr_q] = WrData]
  BY <1>1 DEF MemWrite
<1>3. LiveAt(req_q.oid, addr_q)
  BY <1>1 DEF LookHit, IdMatch, LiveAt
<1>4. Swept'
  BY DEF LookHit, StartProbe, GoIdle, Swept
<1>5. CASE Frees
  <2>1. WrData = Tombstone
    BY <1>1, <1>5 DEF WrData
  <2>. QED
    BY <1>1, <1>2, <1>3, <1>4, <1>5, <2>1 DEF Tombstone, ZeroEntry, SlotEntry
<1>6. CASE ~Frees
  <2>1. WrData = [mem[addr_q] EXCEPT !.shares = @ - req_q.shares]
    BY <1>1, <1>6 DEF WrData
  <2>2. mem[addr_q] \in Entry
    BY <1>1
  <2>3. /\ WrData.vld = mem[addr_q].vld /\ WrData.order_id = mem[addr_q].order_id
        /\ OrderOf(WrData) = [OrderOf(mem[addr_q]) EXCEPT !.shares = @ - req_q.shares]
    BY <2>1, <2>2 DEF Entry, OrderOf
  <2>4. mem'[addr_q] = WrData /\ \A a \in Addr : a # addr_q => mem'[a] = mem[a]
    BY <1>1, <1>2
  <2>. QED
    BY <1>1, <1>3, <1>4, <1>6, <2>2, <2>3, <2>4 DEF LiveAt
<1>. QED
  BY <1>5, <1>6

\* A hit that frees the slot removes the id from the dictionary, and no other.
LEMMA HitRemoves ==
  ASSUME ~ReuseIds, IndInv, FreshInv, FreshInv', LookHit, Frees
  PROVE  MappedOrders' = Dict!Without(MappedOrders, req_q.oid)
<1>1. /\ Swept /\ Swept' /\ addr_q \in Addr /\ LiveAt(req_q.oid, addr_q)
      /\ ~mem'[addr_q].vld /\ \A a \in Addr : a # addr_q => mem'[a] = mem[a]
  BY HitSlot
<1>2. \A a \in Addr : LiveAt(req_q.oid, a) => a = addr_q
  BY <1>1 DEF FreshInv, NoDuplicateOrder, LiveAt
<1>3. LiveIds' = LiveIds \ {req_q.oid}
  BY <1>1, <1>2 DEF LiveIds, LiveAt
<1>. DEFINE rest == Dict!Without(MappedOrders, req_q.oid)
<1>4. /\ rest = [id \in DOMAIN rest |-> rest[id]]
      /\ DOMAIN rest = LiveIds'
      /\ \A id \in LiveIds' : rest[id] = MappedOrders[id]
  BY <1>1, <1>3 DEF Dict!Without, Dict!Restrict, MappedOrders
<1>5. ASSUME NEW a \in Addr, mem'[a].vld
      PROVE  rest[mem'[a].order_id] = OrderOf(mem'[a])
  <2>1. mem'[a] = mem[a] /\ mem'[a].order_id \in LiveIds'
    BY <1>1, <1>5 DEF LiveIds
  <2>2. MappedOrders[mem[a].order_id] = OrderOf(mem[a])
    BY <1>1, <1>5, <2>1, LiveIsMapped DEF LiveAt
  <2>. QED
    BY <1>4, <2>1, <2>2
<1>. HIDE DEF rest
<1>6. MappedOrders' = rest
  BY <1>1, <1>4, <1>5, MappedNext
<1>. QED
  BY <1>6 DEF rest

\* A hit that leaves shares behind lowers those of the id, and of no other.
LEMMA HitReduces ==
  ASSUME ~ReuseIds, IndInv, FreshInv, FreshInv', LookHit, ~Frees
  PROVE  MappedOrders' = [MappedOrders EXCEPT ![req_q.oid].shares = @ - req_q.shares]
<1>1. /\ Swept /\ Swept' /\ addr_q \in Addr /\ LiveAt(req_q.oid, addr_q)
      /\ mem[addr_q] \in Entry
      /\ mem'[addr_q].vld /\ mem'[addr_q].order_id = req_q.oid
      /\ OrderOf(mem'[addr_q]) = [OrderOf(mem[addr_q]) EXCEPT !.shares = @ - req_q.shares]
      /\ \A a \in Addr : a # addr_q => mem'[a] = mem[a]
  BY HitSlot
<1>2. \A a \in Addr : LiveAt(req_q.oid, a) => a = addr_q
  BY <1>1 DEF FreshInv, NoDuplicateOrder, LiveAt
<1>3. LiveIds' = LiveIds
  BY <1>1 DEF LiveIds, LiveAt
<1>4. MappedOrders[req_q.oid] = OrderOf(mem[addr_q])
  BY <1>1, LiveIsMapped
<1>. DEFINE new == [MappedOrders EXCEPT ![req_q.oid].shares = @ - req_q.shares]
<1>5. /\ new = [id \in DOMAIN new |-> new[id]]
      /\ DOMAIN new = LiveIds'
      /\ new[req_q.oid] = OrderOf(mem'[addr_q])
      /\ \A id \in LiveIds : id # req_q.oid => new[id] = MappedOrders[id]
  <2>1. MappedOrders = [id \in LiveIds |-> MappedOrders[id]] /\ req_q.oid \in LiveIds
    BY <1>1 DEF MappedOrders, LiveIds, LiveAt
  <2>. QED
    BY <1>1, <1>3, <1>4, <2>1
<1>6. ASSUME NEW a \in Addr, mem'[a].vld
      PROVE  new[mem'[a].order_id] = OrderOf(mem'[a])
  <2>1. CASE a = addr_q
    BY <1>1, <1>5, <2>1 DEF LiveAt
  <2>2. CASE a # addr_q
    <3>1. mem'[a] = mem[a] /\ mem'[a].order_id \in LiveIds /\ mem[a].order_id # req_q.oid
      BY <1>1, <1>2, <1>6, <2>2 DEF LiveIds, LiveAt
    <3>2. MappedOrders[mem[a].order_id] = OrderOf(mem[a])
      BY <1>1, <1>6, <3>1, LiveIsMapped DEF LiveAt
    <3>. QED
      BY <1>5, <3>1, <3>2
  <2>. QED
    BY <2>1, <2>2
<1>. HIDE DEF new
<1>7. MappedOrders' = new
  BY <1>1, <1>5, <1>6, MappedNext
<1>. QED
  BY <1>7 DEF new

\* A hit is the reduction that on_message makes: of the shares of the message
\* for EXEC and CANCEL, of the whole order for DELETE and REPLACE.
LEMMA HitTakes ==
  ASSUME ~ReuseIds, IndInv, FreshInv, FreshInv', LookHit
  PROVE  Dict!DoTake \/ Dict!DoPop
<1>1. /\ state_q = "S_LOOK" /\ Swept /\ addr_q \in Addr /\ LiveAt(req_q.oid, addr_q)
      /\ rd_data = mem[addr_q] /\ mem[addr_q] \in Entry
  BY HitSlot
<1>2. req_q.oid \in DOMAIN MappedOrders /\ MappedOrders[req_q.oid] = OrderOf(rd_data)
  BY <1>1, LiveIsMapped
<1>3. MappedTodo # Nothing
  BY <1>1, LookTodo, NothingAssumption DEF IndInv
<1>4. /\ drop_count' = drop_count /\ table_full_count' = table_full_count
      /\ OutOp' = Dict!BookOp("OP_REDUCE", OrderOf(rd_data),
                              IF Reduces THEN req_q.shares ELSE rd_data.shares)
  BY DEF LookHit, Emit, OutOp, BookOp, Dict!BookOp, OrderOf
<1>5. CASE Reduces
  <2>1. MappedTodo = [do |-> "take", id |-> req_q.oid, shares |-> req_q.shares]
    BY <1>1, <1>5, LookTodo DEF IndInv
  <2>2. MappedTodo' = Nothing
    BY <1>5, NoTodoNext DEF LookHit, GoIdle, Reduces
  <2>3. Frees <=> OrderOf(rd_data).shares <= req_q.shares
    BY <1>5 DEF Frees, OrderOf
  <2>4. MappedOrders' = IF OrderOf(rd_data).shares <= req_q.shares
                        THEN Dict!Without(MappedOrders, req_q.oid)
                        ELSE [MappedOrders EXCEPT ![req_q.oid].shares = @ - req_q.shares]
    BY <2>3, HitRemoves, HitReduces
  <2>. QED
    BY <1>2, <1>3, <1>4, <1>5, <2>1, <2>2, <2>4 DEF Dict!DoTake, OutOp
<1>6. CASE ~Reduces
  <2>1. MappedOrders' = Dict!Without(MappedOrders, req_q.oid)
    BY <1>6, HitRemoves DEF Frees
  <2>2. OutOp' = Dict!BookOp("OP_REDUCE", OrderOf(rd_data), OrderOf(rd_data).shares)
    BY <1>4, <1>6 DEF OrderOf
  <2>3. CASE req_q.kind = "REPLACE"
    <3>1. MappedTodo = [do |-> "popput", id |-> req_q.oid, new |-> req_q.ins_id,
                        price |-> req_q.price, shares |-> req_q.shares]
      BY <1>1, <1>6, <2>3, LookTodo DEF IndInv
    <3>2. /\ state_q' = "S_INS" /\ req_q \in Request
          /\ req_q' = [req_q EXCEPT !.idx = rd_data.book_idx, !.side = rd_data.side]
      BY <2>3 DEF LookHit, StartProbe, IndInv, TypeInv, TypeOK
    <3>3. MappedTodo' = [do |-> "put", id |-> req_q.ins_id,
                         order |-> [book_idx |-> rd_data.book_idx, side |-> rd_data.side,
                                    price |-> req_q.price, shares |-> req_q.shares]]
      <4>1. /\ req_q'.ins_id = req_q.ins_id /\ req_q'.price = req_q.price
            /\ req_q'.shares = req_q.shares /\ req_q'.idx = rd_data.book_idx
            /\ req_q'.side = rd_data.side
        BY <3>2 DEF Request
      <4>. QED
        BY <3>2, <4>1 DEF MappedTodo
    <3>4. MappedTodo' = Dict!Put(req_q.ins_id,
                          [book_idx |-> OrderOf(rd_data).book_idx,
                           side |-> OrderOf(rd_data).side,
                           price |-> req_q.price, shares |-> req_q.shares])
      BY <3>3 DEF Dict!Put, OrderOf
    <3>. QED
      BY <1>2, <1>3, <1>4, <2>1, <2>2, <3>1, <3>4 DEF Dict!DoPop, OutOp
  <2>4. CASE req_q.kind # "REPLACE"
    <3>1. MappedTodo = [do |-> "pop", id |-> req_q.oid]
      BY <1>1, <1>6, <2>4, LookTodo DEF IndInv
    <3>2. MappedTodo' = Nothing
      BY <2>4, NoTodoNext DEF LookHit, GoIdle
    <3>. QED
      BY <1>2, <1>3, <1>4, <2>1, <2>2, <3>1, <3>2 DEF Dict!DoPop, OutOp
  <2>. QED
    BY <2>3, <2>4
<1>. QED
  BY <1>5, <1>6

\* A miss is a lookup of an id that is no key of the dictionary.
LEMMA MissMisses ==
  ASSUME IndInv, LookMiss
  PROVE  Dict!Miss
<1>1. state_q = "S_LOOK" /\ Swept /\ Swept' /\ mem' = mem /\ state_q' = "S_IDLE"
  BY DEF LookMiss, GoIdle, Swept, MemWrite, WrEn
<1>2. MappedOrders' = MappedOrders /\ req_q.oid \notin DOMAIN MappedOrders
  BY <1>1, SameOrders, MissMeansAbsent DEF MappedOrders
<1>3. MappedTodo # Nothing /\ MappedTodo.do # "put" /\ MappedTodo.id = req_q.oid
  <2>1. MappedTodo \in Todo
    BY <1>1, LookTodo DEF IndInv
  <2>. QED
    BY <1>1, <2>1, LookTodo, NothingAssumption DEF IndInv
<1>4. MappedTodo' = Nothing /\ OutOp' = Nothing
  BY <1>1, NoTodoNext, QuietMapped DEF LookMiss
<1>. QED
  BY <1>2, <1>3, <1>4 DEF Dict!Miss, LookMiss, Count, OutOp

\* A full probe window loses the order it should have taken, and nothing else.
LEMMA FullDrops ==
  ASSUME ~ReuseIds, MayOverflow, IndInv, FreshInv, InsFull
  PROVE  Dict!DropPut
<1>1. state_q = "S_INS" /\ Swept /\ Swept' /\ mem' = mem /\ state_q' = "S_IDLE"
  BY DEF InsFull, GoIdle, Swept, MemWrite, WrEn
<1>2. MappedOrders' = MappedOrders /\ req_q.ins_id \notin DOMAIN MappedOrders
  BY <1>1, SameOrders DEF MappedOrders, FreshInv
<1>3. MappedTodo # Nothing /\ MappedTodo.do = "put" /\ MappedTodo.id = req_q.ins_id
  BY <1>1, PutTodo, NothingAssumption DEF IndInv
<1>4. MappedTodo' = Nothing /\ OutOp' = Nothing
  BY <1>1, NoTodoNext, QuietMapped DEF InsFull
<1>. QED
  BY <1>2, <1>3, <1>4 DEF Dict!DropPut, InsFull, Count, OutOp

\* A further probe, and an edge without a message, leave the dictionary alone.
LEMMA WalkPauses ==
  ASSUME LookNext \/ InsNext \/ Idle
  PROVE  Dict!Pause
<1>1. /\ Swept /\ Swept' /\ mem' = mem /\ state_q' = state_q /\ req_q' = req_q
      /\ drop_count' = drop_count /\ table_full_count' = table_full_count
  BY DEF LookNext, InsNext, Idle, NextProbe, Swept, MemWrite, WrEn, counters
<1>2. MappedOrders' = MappedOrders
  BY <1>1, SameOrders
<1>3. MappedTodo' = MappedTodo
  BY <1>1 DEF MappedTodo, Reduces
<1>4. OutOp' = Nothing
  BY QuietMapped DEF LookNext, InsNext, Idle
<1>. QED
  BY <1>1, <1>2, <1>3, <1>4 DEF Dict!Pause, OutOp

\* The sweep ends in an empty dictionary, which it has stood for from the start.
LEMMA SweepPauses ==
  ASSUME IndInv, Clear
  PROVE  Dict!Pause
<1>1. /\ state_q = "S_CLEAR" /\ state_q' \in {"S_CLEAR", "S_IDLE"}
      /\ drop_count' = drop_count /\ table_full_count' = table_full_count
  BY DEF Clear, GoIdle, counters
<1>2. MappedTodo' = MappedTodo
  BY <1>1, NoTodoNext DEF MappedTodo
<1>3. OutOp' = Nothing
  BY QuietMapped DEF Clear
<1>4. MappedOrders = << >>
  BY <1>1 DEF MappedOrders, Swept
<1>5. MappedOrders' = << >>
  <2>1. CASE state_q' = "S_CLEAR"
    BY <2>1 DEF MappedOrders, Swept
  <2>2. CASE state_q' = "S_IDLE"
    <3>1. addr_q = DEPTH - 1
      BY <1>1, <2>2 DEF Clear
    <3>2. \A a \in Addr : ~mem'[a].vld
      <4>1. mem' = [mem EXCEPT ![addr_q] = ZeroEntry]
        BY <1>1 DEF Clear, MemWrite, WrEn, WrData
      <4>2. \A a \in Addr : a = addr_q \/ a \in 0 .. addr_q - 1
        BY <3>1, TableAssumption DEF Addr
      <4>. QED
        BY <1>1, <4>1, <4>2 DEF IndInv, TypeInv, TypeOK, SweepInv, ZeroEntry, SlotEntry
    <3>3. LiveIds' = {}
      BY <3>2 DEF LiveIds
    <3>4. MappedOrders' = [id \in LiveIds' |-> MappedOrders'[id]]
      BY <2>2 DEF MappedOrders, Swept
    <3>. QED
      BY <3>3, <3>4
  <2>. QED
    BY <1>1, <2>1, <2>2
<1>. QED
  BY <1>1, <1>2, <1>3, <1>4, <1>5 DEF Dict!Pause, OutOp

\* Latching a message is taking it in; an ADD for a symbol without a book is
\* dropped on the spot.
LEMMA AcceptReceives ==
  ASSUME TypeInv', NEW m \in Msg, Accept(m)
  PROVE  Dict!Receive \/ Dict!Untracked
<1>1. state_q = "S_IDLE" /\ Swept /\ Swept' /\ mem' = mem
  BY DEF Accept, AcceptUntracked, AcceptAdd, AcceptLookup, StartProbe, Swept, MemWrite, WrEn
<1>2. MappedOrders' = MappedOrders /\ MappedTodo = Nothing
  BY <1>1, SameOrders DEF MappedTodo
<1>3. OutOp' = Nothing
  BY QuietMapped DEF Accept, AcceptUntracked, AcceptAdd, AcceptLookup
<1>4. CASE AcceptUntracked(m)
  <2>1. MappedTodo' = Nothing
    BY <1>4, NoTodoNext DEF AcceptUntracked
  <2>. QED
    BY <1>2, <1>3, <1>4, <2>1 DEF AcceptUntracked, Dict!Untracked, Count, OutOp
<1>5. CASE AcceptAdd(m) \/ AcceptLookup(m)
  <2>1. /\ state_q' \in {"S_LOOK", "S_INS"}
        /\ drop_count' = drop_count /\ table_full_count' = table_full_count
    BY <1>5 DEF AcceptAdd, AcceptLookup, StartProbe, counters
  <2>2. MappedTodo' # Nothing
    BY <2>1, TodoNext
  <2>. QED
    BY <1>2, <1>3, <2>1, <2>2 DEF Dict!Receive, OutOp
<1>. QED
  BY <1>4, <1>5 DEF Accept

\* Reset starts the dictionary over.
LEMMA ResetRestarts ==
  ASSUME Reset
  PROVE  Dict!Restart
<1>1. state_q' = "S_CLEAR" /\ drop_count' = 0 /\ table_full_count' = 0
  BY DEF Reset
<1>2. MappedTodo' = Nothing /\ OutOp' = Nothing
  BY <1>1, NoTodoNext, QuietMapped DEF Reset
<1>3. MappedOrders' = << >>
  BY <1>1 DEF MappedOrders, Swept
<1>. QED
  BY <1>1, <1>2, <1>3 DEF Dict!Restart, OutOp

\* Every edge is a step of the dictionary, or none.
LEMMA EdgeIsDictionaryStep ==
  ASSUME ~ReuseIds, MayOverflow, IndInv, IndInv', FreshInv, FreshInv', [Next]_vars
  PROVE  [Dict!Next]_(Dict!vars)
<1>1. CASE Reset
  BY <1>1, ResetRestarts DEF Dict!Next
<1>2. CASE Clear
  BY <1>2, SweepPauses DEF Dict!Next
<1>3. CASE LookHit
  BY <1>3, HitTakes DEF Dict!Next
<1>4. CASE LookMiss
  BY <1>4, MissMisses DEF Dict!Next
<1>5. CASE InsWrite
  BY <1>5, InsertPuts DEF Dict!Next
<1>6. CASE InsFull
  BY <1>6, FullDrops DEF Dict!Next
<1>7. CASE LookNext \/ InsNext \/ Idle
  BY <1>7, WalkPauses DEF Dict!Next
<1>8. ASSUME NEW m \in Msg, Accept(m) PROVE Dict!Next
  BY <1>8, AcceptReceives DEF Dict!Next, IndInv
<1>9. CASE UNCHANGED vars
  <2>1. MappedOrders' = MappedOrders /\ MappedTodo' = MappedTodo /\ OutOp' = OutOp
    BY <1>9
       DEF vars, MappedOrders, MappedTodo, OutOp, Swept, LiveIds, SlotOf, LiveAt, OrderOf, Reduces
  <2>. QED
    BY <1>9, <2>1 DEF vars, Dict!vars, OutOp
<1>. QED
  BY <1>1, <1>2, <1>3, <1>4, <1>5, <1>6, <1>7, <1>8, <1>9 DEF Next, BusyStep

\* The hashed table with its tombstones, its bypass and its in-place REPLACE is
\* the dictionary of model/book.py: for a feed that reuses no live id, each edge
\* is one dictionary operation with the same outcome, the same book operation
\* and the same count, except that a full probe window may lose an insert.
THEOREM TableIsDictionary ==
  ASSUME ~ReuseIds, MayOverflow
  PROVE  Spec => ImplementsDictionary
<1>1. Init => Dict!Init
  BY DEF Init, Dict!Init, MappedOrders, MappedTodo, Swept
<1>2. Init => FreshInv
  BY DEF Init, FreshInv, NoDuplicateOrder, Swept
<1>3. Spec => []FreshInv
  BY <1>2, FreshStep, Invariant, PTL DEF Spec
<1>4. IndInv /\ IndInv' /\ FreshInv /\ FreshInv' /\ [Next]_vars => [Dict!Next]_(Dict!vars)
  BY EdgeIsDictionaryStep
<1>. QED
  BY <1>1, <1>3, <1>4, Invariant, PTL DEF Spec, ImplementsDictionary, Dict!Spec

-----------------------------------------------------------------------------
(* The spacing of the messages.                                             *)

\* Until the byte gate opens no message has entered, and then the sweep is over.
GateInv ==
  /\ swept_q \in BOOLEAN
  /\ swept_q => state_q # "S_CLEAR"
  /\ ~swept_q => ~dec_valid /\ state_q \in {"S_CLEAR", "S_IDLE"}

\* A message on the port has just been handed over; the router still needs no
\* more cycles than the next message for the table will leave it.
GapInv ==
  /\ dec_valid \in BOOLEAN /\ since \in 0 .. TableGap
  /\ dec_valid => since = 0 /\ dec_msg \in Msg
  /\ swept_q /\ busy => CyclesLeft + since <= 2 * MAX_PROBES + 1

PortInv == IndInv /\ GateInv /\ GapInv /\ NoMessageWhileBusy

\* The clock edges of the pipeline are edges of the router.
LEMMA EdgeOfRouter ==
  ASSUME GapInv, Edge \/ ResetTop
  PROVE  AnyEdge
  BY DEF Edge, ResetTop, Clock, AnyEdge, GapInv

\* One cycle less to do makes up for one cycle more since the last message.
LEMMA Balance ==
  ASSUME NEW c \in Nat, NEW s \in Nat, NEW d \in Nat, NEW t \in Nat, NEW b \in Nat,
         d < c, t <= s + 1, c + s <= b
  PROVE  d + t <= b
  OBVIOUS

\* The cycles left are a number, and some are left while the router is busy.
LEMMA CyclesTyped ==
  ASSUME TypeInv
  PROVE  /\ CyclesLeft \in Nat
         /\ busy => CyclesLeft > 0
  BY TableAssumption DEF TypeInv, TypeOK, Addr, CyclesLeft, busy

\* So they are on the next edge.
LEMMA CyclesTypedNext ==
  ASSUME TypeInv'
  PROVE  /\ CyclesLeft' \in Nat
         /\ busy' => CyclesLeft' > 0
  BY TableAssumption DEF TypeInv, TypeOK, Addr, CyclesLeft, busy

\* The router latches a message only in the cycle it is on the port.
LEMMA BusyStarts ==
  ASSUME GapInv, Edge, ~busy, busy'
  PROVE  dec_valid
  BY DEF Edge, Clock, BusyStep, Clear, LookHit, LookMiss, LookNext, InsWrite, InsFull, InsNext,
         Idle, busy

\* The sweep does not come back without a reset.
LEMMA SweepIsOver ==
  ASSUME Edge, state_q # "S_CLEAR"
  PROVE  state_q' # "S_CLEAR"
<1>1. CASE BusyStep
  BY <1>1 DEF BusyStep, Clear, LookHit, LookMiss, LookNext, InsWrite, InsFull, InsNext, GoIdle,
              StartProbe, NextProbe
<1>2. CASE Idle
  BY <1>2 DEF Idle
<1>3. CASE Accept(dec_msg)
  BY <1>3 DEF Accept, AcceptUntracked, AcceptAdd, AcceptLookup, StartProbe
<1>. QED
  BY <1>1, <1>2, <1>3 DEF Edge, Clock

\* The byte gate opens one cycle after the sweep, and no message passes before.
LEMMA GateStep == GateInv /\ GapInv /\ Edge => GateInv'
<1>. SUFFICES ASSUME GateInv, GapInv, Edge PROVE GateInv'
  OBVIOUS
<1>1. swept_q' = (swept_q \/ ~busy)
  BY DEF Edge, ByteGate
<1>2. CASE swept_q
  BY <1>1, <1>2, SweepIsOver DEF GateInv
<1>3. CASE ~swept_q /\ state_q = "S_CLEAR"
  <2>1. ~swept_q' /\ ~dec_valid'
    BY <1>1, <1>3 DEF busy, Edge, DecoderIdle, DecoderMessage, in_ready
  <2>2. Clear
    BY <1>3 DEF Edge, Clock, BusyStep, LookHit, LookMiss, LookNext, InsWrite, InsFull, InsNext,
                Idle, Accept, AcceptUntracked, AcceptAdd, AcceptLookup
  <2>3. state_q' \in {"S_CLEAR", "S_IDLE"}
    BY <1>3, <2>2 DEF Clear, GoIdle
  <2>. QED
    BY <1>1, <2>1, <2>3 DEF GateInv
<1>4. CASE ~swept_q /\ state_q = "S_IDLE"
  <2>1. state_q' # "S_CLEAR"
    BY <1>4, SweepIsOver
  <2>. QED
    BY <1>1, <1>4, <2>1 DEF GateInv, busy
<1>. QED
  BY <1>2, <1>3, <1>4 DEF GateInv

\* A message for the table leaves the decoder only when the one before has long
\* been dealt with: its spacing is longer than the longest walks.
LEMMA GapStep ==
  ASSUME PortInv, IndInv', GateInv', Edge
  PROVE  (GapInv /\ NoMessageWhileBusy)'
<1>1. CyclesLeft \in Nat /\ (busy => CyclesLeft > 0) /\ CyclesLeft' \in Nat /\ (busy' => CyclesLeft' > 0)
  BY CyclesTyped, CyclesTypedNext DEF PortInv, IndInv
<1>2. AnyEdge
  BY EdgeOfRouter DEF PortInv
<1>3. CyclesUsed
  BY <1>2, CyclesStep DEF PortInv, IndInv
<1>4. MAX_PROBES \in Nat /\ TableGap \in Nat /\ TableGap > 2 * MAX_PROBES /\ SystemGap \in 2 .. TableGap
  BY TableAssumption, FeedAssumption
<1>5. since \in 0 .. TableGap /\ (swept_q /\ busy => CyclesLeft + since <= 2 * MAX_PROBES + 1)
  BY DEF PortInv, GapInv
<1>6. /\ dec_valid' \in BOOLEAN
      /\ dec_valid' => since' = 0 /\ dec_msg' \in Feed /\ swept_q /\ since + 1 >= Gap(dec_msg')
  BY DEF Edge, DecoderIdle, DecoderMessage, in_ready
<1>s. since' \in 0 .. TableGap /\ since' <= since + 1
  <2>1. CASE DecoderIdle
    BY <1>4, <1>5, <2>1 DEF DecoderIdle
  <2>2. CASE DecoderMessage
    BY <1>4, <1>5, <2>2 DEF DecoderMessage
  <2>. QED
    BY <2>1, <2>2 DEF Edge
<1>7. swept_q => state_q # "S_CLEAR" /\ state_q' # "S_CLEAR"
  BY SweepIsOver DEF PortInv, GateInv
<1>8. ASSUME swept_q', busy' PROVE CyclesLeft' + since' <= 2 * MAX_PROBES + 1
  <2>1. CASE busy /\ swept_q
    <3>1. ~Reset
      BY <1>7, <2>1 DEF Reset
    <3>2. CyclesLeft' < CyclesLeft
      BY <1>3, <2>1, <3>1 DEF CyclesUsed
    <3>. QED
      <4>1. CyclesLeft + since <= 2 * MAX_PROBES + 1
        BY <1>5, <2>1
      <4>2. /\ CyclesLeft \in Nat /\ CyclesLeft' \in Nat /\ since \in Nat /\ since' \in Nat
            /\ 2 * MAX_PROBES + 1 \in Nat
        BY <1>1, <1>4, <1>5, <1>s
      <4>. QED
        BY <1>s, <3>2, <4>1, <4>2, Balance
  <2>2. CASE busy /\ ~swept_q
    BY <1>8, <2>2 DEF Edge, ByteGate
  <2>3. CASE ~busy
    <3>1. dec_valid /\ since = 0
      BY <1>8, <2>3, BusyStarts DEF PortInv, GapInv
    <3>2. state_q' # "S_CLEAR"
      BY <1>8 DEF GateInv
    <3>3. CyclesLeft' <= 2 * MAX_PROBES
      BY <1>1, <1>3, <1>4, <1>8, <2>3, <3>2 DEF CyclesUsed
    <3>. QED
      <4>1. since' \in Nat /\ since' <= 1
        BY <1>s, <3>1
      <4>2. \A c, s, m \in Nat : c <= 2 * m /\ s <= 1 => c + s <= 2 * m + 1
        OBVIOUS
      <4>. QED
        BY <1>1, <1>4, <3>3, <4>1, <4>2
  <2>. QED
    BY <2>1, <2>2, <2>3
<1>9. GapInv'
  BY <1>6, <1>s, <1>8, FeedAssumption DEF GapInv
<1>10. ASSUME dec_valid', dec_msg'.kind # "SYSTEM" PROVE ~busy'
  <2>1. swept_q /\ since >= 2 * MAX_PROBES /\ since > 0
    BY <1>4, <1>5, <1>6, <1>10 DEF Gap
  <2>2. CASE busy
    <3>1. ~Reset
      BY <1>7, <2>1 DEF Reset
    <3>2. CyclesLeft' < CyclesLeft /\ CyclesLeft + since <= 2 * MAX_PROBES + 1
      BY <1>3, <2>1, <2>2, <3>1 DEF CyclesUsed, PortInv, GapInv
    <3>. QED
      BY <1>1, <1>4, <1>5, <2>1, <3>2
  <2>3. CASE ~busy
    BY <2>1, <2>3, BusyStarts DEF PortInv, GapInv
  <2>. QED
    BY <2>2, <2>3
<1>. QED
  BY <1>9, <1>10 DEF NoMessageWhileBusy

\* No clock edge breaks the invariant.
LEMMA PortStep == PortInv /\ [NextTop]_topVars => PortInv'
<1>. SUFFICES ASSUME PortInv, [NextTop]_topVars PROVE PortInv'
  OBVIOUS
<1>1. CASE Edge
  <2>1. IndInv'
    BY <1>1, EdgeOfRouter, EdgeInvariant DEF PortInv
  <2>2. GateInv'
    BY <1>1, GateStep DEF PortInv
  <2>. QED
    BY <1>1, <2>1, <2>2, GapStep DEF PortInv
<1>2. CASE ResetTop
  <2>1. IndInv'
    BY <1>2, EdgeOfRouter, EdgeInvariant DEF PortInv
  <2>2. GateInv'
    BY <1>2 DEF ResetTop, Reset, GateInv
  <2>3. GapInv'
    <3>1. 0 \in 0 .. TableGap
      BY FeedAssumption
    <3>. QED
      BY <1>2, <3>1 DEF ResetTop, GapInv
  <2>4. NoMessageWhileBusy'
    BY <1>2 DEF ResetTop, NoMessageWhileBusy
  <2>. QED
    BY <2>1, <2>2, <2>3, <2>4 DEF PortInv
<1>3. CASE UNCHANGED topVars
  <2>1. UNCHANGED vars
    BY <1>3 DEF topVars
  <2>2. IndInv'
    BY <2>1, EdgeInvariant DEF PortInv
  <2>3. (GateInv /\ GapInv /\ NoMessageWhileBusy)'
    BY <1>3, <2>1
       DEF topVars, vars, PortInv, GateInv, GapInv, NoMessageWhileBusy, busy, CyclesLeft
  <2>. QED
    BY <2>2, <2>3 DEF PortInv
<1>. QED
  BY <1>1, <1>2, <1>3 DEF NextTop

\* The invariant of the pipeline: the router's own, the byte gate, the spacing.
THEOREM PipelineInvariant == SpecTop => []PortInv
<1>1. InitTop => PortInv
  <2>1. InitTop => IndInv
    BY InitInvariant DEF InitTop
  <2>2. InitTop => GateInv /\ NoMessageWhileBusy
    BY DEF InitTop, Init, GateInv, NoMessageWhileBusy
  <2>3. InitTop => GapInv
    <3>1. 0 \in 0 .. TableGap
      BY FeedAssumption
    <3>. QED
      BY <3>1 DEF InitTop, GapInv
  <2>. QED
    BY <2>1, <2>2, <2>3 DEF PortInv
<1>. QED
  BY <1>1, PortStep, PTL DEF SpecTop

\* No message for the table ever meets a busy router, for every table, probe
\* window and feed whose messages are more than 2 * MAX_PROBES cycles apart:
\* nothing is lost although the router cannot hold the bytes back.
THEOREM NoneMeetsABusyRouter == SpecTop => []NoMessageWhileBusy
  BY PipelineInvariant, PTL DEF PortInv

\* In the pipeline, too, every resting order can be found again.
THEOREM PipelineOrdersFindable == SpecTop => []Findable
  BY PipelineInvariant, PTL DEF PortInv, IndInv

-----------------------------------------------------------------------------
(* What is still to be done, and what will have come of it.                 *)

Tracked == {i \in BookIdx : SYMBOLS[i] # NoSymbol}

\* The event a golden book with these lists returns.
Event(i, b) ==
  [symbol_idx |-> i, bid |-> Model!Padded(b.bid), ask |-> Model!Padded(b.ask)]

\* The call that an operation is, and the lists it leaves.
Called(b, op) ==
  IF op.op = "OP_ADD"
  THEN Model!Add(Model!SideList(b, op.side), op.side, op.price, op.shares)
  ELSE Model!Reduce(Model!SideList(b, op.side), op.price, op.shares)

After(b, op) ==
  [bid |-> IF op.side = Bid THEN Called(b, op).levels ELSE b.bid,
   ask |-> IF op.side = Bid THEN b.ask ELSE Called(b, op).levels]

\* The sides are called the same in the golden model.
LEMMA SideNames == Bid = Model!Bid /\ Ask = Model!Ask /\ Side = {Bid, Ask} /\ Bid # Ask
  BY DEF Bid, Ask, Model!Bid, Model!Ask, Side

\* The lists of all books and the events so far, after one more operation.
Do(S, op) ==
  LET i   == op.book_idx
      new == After(S.books[i], op)
  IN  [books  |-> [S.books EXCEPT ![i] = new],
       events |-> IF Called(S.books[i], op).changed THEN Append(S.events, Event(i, new))
                  ELSE S.events]

\* The order a REPLACE puts in the place of o.
Moved(o, t) ==
  [book_idx |-> o.book_idx, side |-> o.side, price |-> t.price, shares |-> t.shares]

AddOp(o)       == Dict!BookOp("OP_ADD", o, o.shares)
ReduceOp(o, n) == Dict!BookOp("OP_REDUCE", o, n)

\* The books and events when the request t has been carried out on the orders f.
Market(S, f, t) ==
  IF t = Nothing THEN S
  ELSE IF t.do = "put" THEN Do(S, AddOp(t.order))
  ELSE IF t.id \notin DOMAIN f THEN S
  ELSE IF t.do = "take" THEN Do(S, ReduceOp(f[t.id], t.shares))
  ELSE IF t.do = "pop" THEN Do(S, ReduceOp(f[t.id], f[t.id].shares))
  ELSE Do(Do(S, ReduceOp(f[t.id], f[t.id].shares)), AddOp(Moved(f[t.id], t)))

\* The orders then.
Orders(f, t) ==
  IF t = Nothing THEN f
  ELSE IF t.do = "put" THEN Dict!With(f, t.id, t.order)
  ELSE IF t.id \notin DOMAIN f THEN f
  ELSE IF t.do = "take"
  THEN IF f[t.id].shares <= t.shares THEN Dict!Without(f, t.id)
       ELSE [f EXCEPT ![t.id].shares = @ - t.shares]
  ELSE IF t.do = "pop" THEN Dict!Without(f, t.id)
  ELSE Dict!With(Dict!Without(f, t.id), t.new, Moved(f[t.id], t))

\* The count of drops then.
Drops(f, t, c) ==
  IF t # Nothing /\ t.do # "put" /\ t.id \notin DOMAIN f THEN (c + 1) % CountMod ELSE c

\* The operation of this edge done.
Applied(S) == IF out_valid THEN Do(S, out_op) ELSE S

\* Whatever is to be done is the same before and after an edge of the router.
Continues(S) ==
  /\ Market(S, MappedOrders, MappedTodo) = Market(Applied(S)', MappedOrders', MappedTodo')
  /\ Orders(MappedOrders, MappedTodo) = Orders(MappedOrders', MappedTodo')
  /\ Drops(MappedOrders, MappedTodo, drop_count) =
       Drops(MappedOrders', MappedTodo', drop_count')

\* An insert does what was to be done.
LEMMA PutContinues ==
  ASSUME NEW S, Dict!DoPut, out_valid'
  PROVE  Continues(S)
<1>1. PICK f, t, g, u, c, d, e, op :
        /\ f = MappedOrders /\ t = MappedTodo /\ g = MappedOrders' /\ u = MappedTodo'
        /\ c = drop_count /\ d = drop_count' /\ e = Applied(S)' /\ op = out_op'
  OBVIOUS
<1>2. /\ t # Nothing /\ t.do = "put" /\ g = Dict!With(f, t.id, t.order)
      /\ op = AddOp(t.order) /\ u = Nothing /\ d = c
  BY <1>1 DEF Dict!DoPut, AddOp
<1>3. e = Do(S, op)
  BY <1>1 DEF Applied
<1>4. /\ Market(S, f, t) = Market(e, g, u) /\ Orders(f, t) = Orders(g, u)
      /\ Drops(f, t, c) = Drops(g, u, d)
  BY <1>2, <1>3 DEF Market, Orders, Drops
<1> QED
  BY <1>1, <1>4 DEF Continues

\* A hit of EXEC or CANCEL does.
LEMMA TakeContinues ==
  ASSUME NEW S, Dict!DoTake, out_valid'
  PROVE  Continues(S)
<1>1. PICK f, t, g, u, c, d, e, op :
        /\ f = MappedOrders /\ t = MappedTodo /\ g = MappedOrders' /\ u = MappedTodo'
        /\ c = drop_count /\ d = drop_count' /\ e = Applied(S)' /\ op = out_op'
  OBVIOUS
<1>2. /\ t # Nothing /\ t.do = "take" /\ t.id \in DOMAIN f
      /\ g = (IF f[t.id].shares <= t.shares THEN Dict!Without(f, t.id)
              ELSE [f EXCEPT ![t.id].shares = @ - t.shares])
      /\ op = ReduceOp(f[t.id], t.shares) /\ u = Nothing /\ d = c
  BY <1>1 DEF Dict!DoTake, ReduceOp
<1>3. e = Do(S, op)
  BY <1>1 DEF Applied
<1>4. /\ Market(S, f, t) = Market(e, g, u) /\ Orders(f, t) = Orders(g, u)
      /\ Drops(f, t, c) = Drops(g, u, d)
  BY <1>2, <1>3 DEF Market, Orders, Drops
<1> QED
  BY <1>1, <1>4 DEF Continues

\* A hit of DELETE does, and of REPLACE the first half.
LEMMA PopContinues ==
  ASSUME NEW S, Dict!DoPop, out_valid',
         MappedTodo.do = "popput" => MappedTodo' # Nothing
  PROVE  Continues(S)
<1>1. PICK f, t, g, u, c, d, e, op :
        /\ f = MappedOrders /\ t = MappedTodo /\ g = MappedOrders' /\ u = MappedTodo'
        /\ c = drop_count /\ d = drop_count' /\ e = Applied(S)' /\ op = out_op'
  OBVIOUS
<1>2. /\ t # Nothing /\ t.do \in {"pop", "popput"} /\ t.id \in DOMAIN f
      /\ g = Dict!Without(f, t.id)
      /\ op = ReduceOp(f[t.id], f[t.id].shares) /\ d = c
      /\ u = IF t.do = "pop" THEN Nothing
             ELSE [do |-> "put", id |-> t.new, order |-> Moved(f[t.id], t)]
  BY <1>1 DEF Dict!DoPop, ReduceOp, Dict!Put, Moved
<1>3. e = Do(S, op)
  BY <1>1 DEF Applied
<1>4. CASE t.do = "pop"
  <2>1. /\ Market(S, f, t) = Market(e, g, u) /\ Orders(f, t) = Orders(g, u)
        /\ Drops(f, t, c) = Drops(g, u, d)
    BY <1>2, <1>3, <1>4 DEF Market, Orders, Drops
  <2> QED
    BY <1>1, <2>1 DEF Continues
<1>5. CASE t.do = "popput"
  <2>1. u # Nothing /\ u.do = "put" /\ u.id = t.new /\ u.order = Moved(f[t.id], t)
    BY <1>1, <1>2, <1>5
  <2>2. /\ Market(S, f, t) = Market(e, g, u) /\ Orders(f, t) = Orders(g, u)
        /\ Drops(f, t, c) = Drops(g, u, d)
    BY <1>2, <1>3, <1>5, <2>1 DEF Market, Orders, Drops
  <2> QED
    BY <1>1, <2>2 DEF Continues
<1> QED
  BY <1>2, <1>4, <1>5

\* A lookup that finds nothing does: it counts.
LEMMA MissContinues ==
  ASSUME NEW S, Dict!Miss, ~out_valid'
  PROVE  Continues(S)
<1>1. PICK f, t, g, u, c, d, e :
        /\ f = MappedOrders /\ t = MappedTodo /\ g = MappedOrders' /\ u = MappedTodo'
        /\ c = drop_count /\ d = drop_count' /\ e = Applied(S)'
  OBVIOUS
<1>2. /\ t # Nothing /\ t.do # "put" /\ t.id \notin DOMAIN f
      /\ g = f /\ u = Nothing /\ d = (c + 1) % CountMod
  BY <1>1 DEF Dict!Miss
<1>3. e = S
  BY <1>1 DEF Applied
<1>4. /\ Market(S, f, t) = Market(e, g, u) /\ Orders(f, t) = Orders(g, u)
      /\ Drops(f, t, c) = Drops(g, u, d)
  BY <1>2, <1>3 DEF Market, Orders, Drops
<1> QED
  BY <1>1, <1>4 DEF Continues

\* An edge that changes nothing leaves it to be done.
LEMMA PauseContinues ==
  ASSUME NEW S, Dict!Pause, ~out_valid'
  PROVE  Continues(S)
<1>1. Applied(S)' = S
  BY DEF Applied
<1>2. MappedOrders' = MappedOrders /\ MappedTodo' = MappedTodo /\ drop_count' = drop_count
  BY DEF Dict!Pause
<1> QED
  BY <1>1, <1>2 DEF Continues

\* An edge that neither takes a message nor loses an insert is an operation of
\* the dictionary, handed to the books unless nothing was found.
LEMMA RouterDoes ==
  ASSUME ~ReuseIds, IndInv, IndInv', FreshInv, FreshInv', BusyStep \/ Idle, ~InsFull
  PROVE  \/ (Dict!Pause \/ Dict!Miss) /\ ~out_valid'
         \/ /\ Dict!DoPut \/ Dict!DoTake \/ Dict!DoPop
            /\ out_valid' /\ (MappedTodo.do = "popput" => MappedTodo' # Nothing)
<1>1. CASE Clear
  BY <1>1, SweepPauses DEF Clear, Quiet
<1>2. CASE LookHit
  <2>1. Dict!DoTake \/ Dict!DoPop
    BY <1>2, HitTakes
  <2>2. out_valid'
    BY <1>2 DEF LookHit, Emit
  <2>3. MappedTodo.do = "popput" => MappedTodo' # Nothing
    <3>1. CASE req_q.kind = "REPLACE"
      <4>1. state_q' = "S_INS"
        BY <1>2, <3>1 DEF LookHit, StartProbe
      <4> QED
        BY <4>1, TodoNext DEF IndInv
    <3>2. CASE req_q.kind # "REPLACE"
      <4>1. MappedTodo.do \in {"take", "pop"}
        BY <1>2, <3>2, LookTodo DEF LookHit, IndInv
      <4> QED
        BY <4>1
    <3> QED
      BY <3>1, <3>2
  <2> QED
    BY <2>1, <2>2, <2>3
<1>3. CASE LookMiss
  BY <1>3, MissMisses DEF LookMiss, Quiet
<1>4. CASE InsWrite
  <2>1. Dict!DoPut /\ out_valid'
    BY <1>4, InsertPuts DEF InsWrite, Emit
  <2>2. MappedTodo.do = "put"
    BY <2>1 DEF Dict!DoPut
  <2> QED
    BY <2>1, <2>2
<1>5. CASE LookNext \/ InsNext \/ Idle
  BY <1>5, WalkPauses DEF LookNext, InsNext, Idle, Quiet
<1> QED
  BY <1>1, <1>2, <1>3, <1>4, <1>5 DEF BusyStep

\* Such an edge leaves what is to be done as it is.
LEMMA RouterContinues ==
  ASSUME NEW S, ~ReuseIds, IndInv, IndInv', FreshInv, FreshInv',
         BusyStep \/ Idle, ~InsFull
  PROVE  Continues(S)
  BY RouterDoes, PutContinues, TakeContinues, PopContinues, MissContinues, PauseContinues

-----------------------------------------------------------------------------
(* The same, as model/book.py does it.                                      *)

\* Every symbol is configured once.
DistinctSymbols == \A i, j \in Tracked : SYMBOLS[i] = SYMBOLS[j] => i = j

\* What rests: an order of a configured book.
Resting == [book_idx : Tracked, side : Side, price : Price \cup {0}, shares : Shares]

\* An order under the symbol of its book.
Named(f) == [id \in DOMAIN f |-> LevelOrder(f[id])]

\* A function from ids to such orders.
Dictionary(f) == f = [id \in DOMAIN f |-> f[id]] /\ \A id \in DOMAIN f : f[id] \in Resting

\* The lists of the golden books, by index.
GoldenBooks(M) ==
  [i \in Tracked |-> [bid |-> M.books[SYMBOLS[i]].bid, ask |-> M.books[SYMBOLS[i]].ask]]

\* A state of MarketModel has its four fields and a book per symbol.
Shaped(M) ==
  /\ M = [books |-> M.books, orders |-> M.orders, drops |-> M.drops, events |-> M.events]
  /\ M.books = [s \in Model!Configured |-> M.books[s]]

\* The golden model M with these books, events, orders and drops.
Golden(M, S, f, c) ==
  /\ Shaped(M)
  /\ GoldenBooks(M) = S.books /\ M.events = S.events
  /\ M.orders = Named(f) /\ M.drops = c

\* A configured symbol names one book, in both worlds.
LEMMA SymbolsTracked ==
  ASSUME NEW i \in Tracked, DistinctSymbols
  PROVE  /\ i \in BookIdx /\ SYMBOLS[i] \in Model!Configured
         /\ Model!SymbolToIdx(SYMBOLS[i]) = i
         /\ \A j \in Tracked : j # i => SYMBOLS[j] # SYMBOLS[i]
<1>1. i \in BookIdx /\ SYMBOLS[i] # NoSymbol
  BY DEF Tracked
<1>2. SYMBOLS[i] \in Model!Configured
  BY <1>1 DEF Model!Configured, BookIdx
<1>3. \A k \in 0 .. NUM_SYMBOLS - 1 : SYMBOLS[k] = SYMBOLS[i] => k = i
  BY <1>1 DEF DistinctSymbols, Tracked, BookIdx
<1>4. i <= i
  BY <1>1, FilterAssumption DEF BookIdx
<1>5. Model!SymbolToIdx(SYMBOLS[i]) = i
  BY <1>1, <1>3, <1>4 DEF Model!SymbolToIdx, BookIdx
<1> QED
  BY <1>1, <1>2, <1>5 DEF DistinctSymbols

\* A call of a book is the operation.
LEMMA CallIsOperation ==
  ASSUME NEW M, NEW S, NEW f, NEW c, Golden(M, S, f, c), DistinctSymbols,
         NEW op, NEW i \in Tracked, op.book_idx = i, op.side \in {Bid, Ask},
         NEW N, N = Model!BookCall(M, SYMBOLS[i], op.side, Called(S.books[i], op))
  PROVE  Golden(N, Do(S, op), f, c)
<1>1. PICK s, out, new, ev, B, E, O, D :
        /\ s = SYMBOLS[i] /\ out = Called(S.books[i], op) /\ new = After(S.books[i], op)
        /\ B = M.books /\ E = M.events /\ O = M.orders /\ D = M.drops
        /\ ev = Event(i, new)
  OBVIOUS
<1>2. /\ M = [books |-> B, orders |-> O, drops |-> D, events |-> E]
      /\ B = [x \in Model!Configured |-> B[x]]
      /\ S.books = [j \in Tracked |-> [bid |-> B[SYMBOLS[j]].bid, ask |-> B[SYMBOLS[j]].ask]]
      /\ E = S.events /\ O = Named(f) /\ D = c
  BY <1>1 DEF Golden, Shaped, GoldenBooks
<1>3. /\ s \in Model!Configured /\ Model!SymbolToIdx(s) = i
      /\ \A j \in Tracked : j # i => SYMBOLS[j] # s
  BY <1>1, SymbolsTracked
<1>4. S.books[i].bid = B[s].bid /\ S.books[i].ask = B[s].ask
  <2>1. S.books[i] = [bid |-> B[SYMBOLS[i]].bid, ask |-> B[SYMBOLS[i]].ask]
    BY <1>2
  <2> QED
    BY <1>1, <2>1
<1>5. PICK nb : nb = [bid |-> IF op.side = Model!Bid THEN out.levels ELSE B[s].bid,
                      ask |-> IF op.side = Model!Bid THEN B[s].ask ELSE out.levels,
                      evicts |-> (B[s].evicts + out.evicts) % CountMod,
                      misses |-> (B[s].misses + out.misses) % CountMod]
  OBVIOUS
<1>6. new.bid = nb.bid /\ new.ask = nb.ask /\ new = [bid |-> nb.bid, ask |-> nb.ask]
  BY <1>1, <1>4, <1>5, SideNames DEF After
<1>7. PICK C : C = [B EXCEPT ![s] = nb]
  OBVIOUS
<1>8. /\ C = [x \in Model!Configured |-> C[x]] /\ C[s] = nb
      /\ \A x \in Model!Configured : x # s => C[x] = B[x]
  BY <1>2, <1>3, <1>7
<1>9. PICK called : called = [books |-> C, orders |-> O, drops |-> D, events |-> E]
  OBVIOUS
<1>10. [M EXCEPT !.books[s] = nb] = called
  BY <1>2, <1>7, <1>9
<1>11. Model!SnapshotEvent(called, s) = ev
  BY <1>1, <1>3, <1>6, <1>8, <1>9 DEF Model!SnapshotEvent, Event
<1>12. N = IF out.changed
           THEN [books |-> C, orders |-> O, drops |-> D, events |-> Append(E, ev)]
           ELSE called
  <2>1. N = IF out.changed
            THEN [called EXCEPT !.events = Append(@, Model!SnapshotEvent(called, s))]
            ELSE called
    BY <1>1, <1>5, <1>10 DEF Model!BookCall
  <2> QED
    BY <1>9, <1>11, <2>1
<1>13. GoldenBooks(N) = [S.books EXCEPT ![i] = new]
  <2>1. N.books = C
    BY <1>9, <1>12
  <2>2. ASSUME NEW j \in Tracked
        PROVE  [bid |-> C[SYMBOLS[j]].bid, ask |-> C[SYMBOLS[j]].ask] =
                 IF j = i THEN new ELSE S.books[j]
    <3>1. CASE j = i
      BY <1>1, <1>6, <1>8, <3>1
    <3>2. CASE j # i
      <4>1. SYMBOLS[j] # s /\ SYMBOLS[j] \in Model!Configured
        BY <1>3, <3>2, SymbolsTracked
      <4>2. C[SYMBOLS[j]] = B[SYMBOLS[j]]
        BY <1>8, <4>1
      <4> QED
        BY <1>2, <3>2, <4>2
    <3> QED
      BY <3>1, <3>2
  <2>3. GoldenBooks(N) = [j \in Tracked |-> IF j = i THEN new ELSE S.books[j]]
    BY <2>1, <2>2 DEF GoldenBooks
  <2>4. [S.books EXCEPT ![i] = new] = [j \in Tracked |-> IF j = i THEN new ELSE S.books[j]]
    BY <1>2
  <2> QED
    BY <2>3, <2>4
<1>14. Do(S, op) = [books |-> [S.books EXCEPT ![i] = new],
                    events |-> IF out.changed THEN Append(E, ev) ELSE E]
  BY <1>1, <1>2 DEF Do
<1>15. Shaped(N) /\ N.orders = O /\ N.drops = D
       /\ N.events = IF out.changed THEN Append(E, ev) ELSE E
  BY <1>8, <1>9, <1>12 DEF Shaped
<1>16. PICK T : T = Do(S, op)
  OBVIOUS
<1>17. GoldenBooks(N) = T.books /\ N.events = T.events
  BY <1>13, <1>14, <1>15, <1>16
<1>18. Golden(N, T, f, c)
  BY <1>2, <1>15, <1>17 DEF Golden
<1> QED
  BY <1>16, <1>18

\* Another dictionary, or another count, beside the same books.
LEMMA OrdersOnly ==
  ASSUME NEW M, NEW S, NEW f, NEW c, Golden(M, S, f, c), NEW g, NEW d,
         NEW N, N = [books |-> M.books, orders |-> Named(g), drops |-> d, events |-> M.events]
  PROVE  Golden(N, S, g, d)
<1>1. N.books = M.books /\ N.orders = Named(g) /\ N.drops = d /\ N.events = M.events
  OBVIOUS
<1>2. Shaped(N)
  BY <1>1 DEF Golden, Shaped
<1>3. GoldenBooks(N) = GoldenBooks(M)
  BY <1>1 DEF GoldenBooks
<1> QED
  BY <1>1, <1>2, <1>3 DEF Golden

\* An order put into the dictionary.
LEMMA Remembered ==
  ASSUME NEW M, NEW S, NEW f, NEW c, Golden(M, S, f, c), NEW id, NEW o,
         NEW N, N = Model!Remember(M, id, LevelOrder(o))
  PROVE  Golden(N, S, Dict!With(f, id, o), c)
<1>1. PICK B, E, O, D, g :
        /\ B = M.books /\ E = M.events /\ O = M.orders /\ D = M.drops
        /\ g = Dict!With(f, id, o)
  OBVIOUS
<1>2. M = [books |-> B, orders |-> O, drops |-> D, events |-> E] /\ O = Named(f) /\ D = c
  BY <1>1 DEF Golden, Shaped
<1>3. PICK n : n = [x \in DOMAIN O \cup {id} |-> IF x = id THEN LevelOrder(o) ELSE O[x]]
  OBVIOUS
<1>4. N = [books |-> B, orders |-> n, drops |-> D, events |-> E]
  BY <1>2, <1>3 DEF Model!Remember
<1>5. DOMAIN O = DOMAIN f /\ \A x \in DOMAIN f : O[x] = LevelOrder(f[x])
  BY <1>2 DEF Named
<1>6. n = Named(g)
  <2>1. DOMAIN g = DOMAIN f \cup {id} /\ g[id] = o /\ \A x \in DOMAIN f : x # id => g[x] = f[x]
    BY <1>1 DEF Dict!With
  <2>2. Named(g) = [x \in DOMAIN f \cup {id} |-> LevelOrder(g[x])]
    BY <2>1 DEF Named
  <2>3. \A x \in DOMAIN f \cup {id} :
          LevelOrder(g[x]) = IF x = id THEN LevelOrder(o) ELSE O[x]
    BY <1>5, <2>1
  <2> QED
    BY <1>3, <1>5, <2>2, <2>3
<1> QED
  BY <1>1, <1>2, <1>4, <1>6, OrdersOnly

\* An order taken out of it.
LEMMA Forgotten ==
  ASSUME NEW M, NEW S, NEW f, NEW c, Golden(M, S, f, c), NEW id,
         NEW N, N = Model!Forget(M, id)
  PROVE  Golden(N, S, Dict!Without(f, id), c)
<1>1. PICK B, E, O, D, g :
        /\ B = M.books /\ E = M.events /\ O = M.orders /\ D = M.drops
        /\ g = Dict!Without(f, id)
  OBVIOUS
<1>2. M = [books |-> B, orders |-> O, drops |-> D, events |-> E] /\ O = Named(f) /\ D = c
  BY <1>1 DEF Golden, Shaped
<1>3. PICK n : n = [x \in DOMAIN O \ {id} |-> O[x]]
  OBVIOUS
<1>4. N = [books |-> B, orders |-> n, drops |-> D, events |-> E]
  BY <1>2, <1>3 DEF Model!Forget, Model!Restrict
<1>5. DOMAIN O = DOMAIN f /\ \A x \in DOMAIN f : O[x] = LevelOrder(f[x])
  BY <1>2 DEF Named
<1>6. n = Named(g)
  <2>1. DOMAIN g = DOMAIN f \ {id} /\ \A x \in DOMAIN f \ {id} : g[x] = f[x]
    BY <1>1 DEF Dict!Without, Dict!Restrict
  <2> QED
    BY <1>3, <1>5, <2>1 DEF Named
<1> QED
  BY <1>1, <1>2, <1>4, <1>6, OrdersOnly

\* Fewer shares of an order.
LEMMA Lowered ==
  ASSUME NEW M, NEW S, NEW f, NEW c, Golden(M, S, f, c), Dictionary(f),
         NEW id \in DOMAIN f, NEW n,
         NEW N, N = [M EXCEPT !.orders[id].shares = @ - n]
  PROVE  Golden(N, S, [f EXCEPT ![id].shares = @ - n], c)
<1>1. PICK B, E, O, D, g, v :
        /\ B = M.books /\ E = M.events /\ O = M.orders /\ D = M.drops
        /\ g = [f EXCEPT ![id].shares = @ - n] /\ v = f[id].shares - n
  OBVIOUS
<1>2. M = [books |-> B, orders |-> O, drops |-> D, events |-> E] /\ O = Named(f) /\ D = c
  BY <1>1 DEF Golden, Shaped
<1>3. /\ f = [x \in DOMAIN f |-> f[x]] /\ f[id] \in Resting
      /\ O = [x \in DOMAIN f |-> LevelOrder(f[x])]
  BY <1>2 DEF Dictionary, Named
<1>4. PICK new : new = [O EXCEPT ![id].shares = @ - n]
  OBVIOUS
<1>5. N = [books |-> B, orders |-> new, drops |-> D, events |-> E]
  BY <1>2, <1>4
<1>6. O[id].shares = f[id].shares
  BY <1>3 DEF LevelOrder
<1>7. /\ g = [x \in DOMAIN f |-> g[x]] /\ \A x \in DOMAIN f : x # id => g[x] = f[x]
      /\ g[id] = [f[id] EXCEPT !.shares = v]
  BY <1>1, <1>3
<1>8. LevelOrder(g[id]) = [LevelOrder(f[id]) EXCEPT !.shares = v]
  BY <1>3, <1>7 DEF LevelOrder, Resting
<1>9. new = Named(g)
  <2>1. /\ new = [x \in DOMAIN f |-> new[x]]
        /\ \A x \in DOMAIN f : x # id => new[x] = LevelOrder(f[x])
        /\ new[id] = [LevelOrder(f[id]) EXCEPT !.shares = v]
    BY <1>1, <1>3, <1>4, <1>6
  <2>2. \A x \in DOMAIN f : new[x] = LevelOrder(g[x])
    BY <1>7, <1>8, <2>1
  <2>3. Named(g) = [x \in DOMAIN f |-> LevelOrder(g[x])]
    BY <1>7 DEF Named
  <2> QED
    BY <2>1, <2>2, <2>3
<1> QED
  BY <1>1, <1>2, <1>5, <1>9, OrdersOnly

\* A drop counted.
LEMMA Dropped ==
  ASSUME NEW M, NEW S, NEW f, NEW c, Golden(M, S, f, c), NEW N, N = Model!Drop(M)
  PROVE  Golden(N, S, f, (c + 1) % CountMod)
<1>1. N = [books |-> M.books, orders |-> Named(f), drops |-> (c + 1) % CountMod,
           events |-> M.events]
  BY DEF Golden, Shaped, Model!Drop
<1> QED
  BY <1>1, OrdersOnly

\* A call of a book, as AddLevel and ReduceLevel make it for an order.
LEMMA Added ==
  ASSUME NEW M, NEW S, NEW f, NEW c, Golden(M, S, f, c), DistinctSymbols, NEW o \in Resting,
         NEW N, N = Model!AddLevel(M, SYMBOLS[o.book_idx], o.side, o.price, o.shares)
  PROVE  Golden(N, Do(S, AddOp(o)), f, c)
<1>1. PICK i, s, op : i = o.book_idx /\ s = SYMBOLS[i] /\ op = AddOp(o)
  OBVIOUS
<1>2. /\ op.op = "OP_ADD" /\ op.book_idx = i /\ op.side = o.side /\ op.price = o.price
      /\ op.shares = o.shares /\ i \in Tracked /\ o.side \in {Bid, Ask}
  BY <1>1, SideNames DEF AddOp, Dict!BookOp, Resting
<1>3. Model!SideList(M.books[s], o.side) = Model!SideList(S.books[i], o.side)
  <2>1. S.books[i] = [bid |-> M.books[s].bid, ask |-> M.books[s].ask]
    BY <1>1, <1>2 DEF Golden, GoldenBooks
  <2> QED
    BY <2>1 DEF Model!SideList
<1>4. N = Model!BookCall(M, s, op.side, Called(S.books[i], op))
  BY <1>1, <1>2, <1>3 DEF Model!AddLevel, Called
<1> QED
  BY <1>1, <1>2, <1>4, CallIsOperation

\* The same for a reduce.
LEMMA Reduced ==
  ASSUME NEW M, NEW S, NEW f, NEW c, Golden(M, S, f, c), DistinctSymbols, NEW o \in Resting,
         NEW n, NEW N, N = Model!ReduceLevel(M, LevelOrder(o), n)
  PROVE  Golden(N, Do(S, ReduceOp(o, n)), f, c)
<1>1. PICK i, s, op, e : i = o.book_idx /\ s = SYMBOLS[i] /\ op = ReduceOp(o, n)
                         /\ e = LevelOrder(o)
  OBVIOUS
<1>2. /\ op.op = "OP_REDUCE" /\ op.book_idx = i /\ op.side = o.side /\ op.price = o.price
      /\ op.shares = n /\ i \in Tracked /\ o.side \in {Bid, Ask}
  BY <1>1, SideNames DEF ReduceOp, Dict!BookOp, Resting
<1>3. Model!SideList(M.books[s], o.side) = Model!SideList(S.books[i], o.side)
  <2>1. S.books[i] = [bid |-> M.books[s].bid, ask |-> M.books[s].ask]
    BY <1>1, <1>2 DEF Golden, GoldenBooks
  <2> QED
    BY <2>1 DEF Model!SideList
<1>4. e.symbol = s /\ e.side = o.side /\ e.price = o.price
  BY <1>1 DEF LevelOrder
<1>5. N = Model!BookCall(M, s, op.side, Called(S.books[i], op))
  BY <1>1, <1>2, <1>3, <1>4 DEF Model!ReduceLevel, Called
<1> QED
  BY <1>1, <1>2, <1>5, CallIsOperation

-----------------------------------------------------------------------------
(* A message, as the router takes it in and as on_message does it.          *)

\* The order of an ADD.
NewOrder(m) ==
  [book_idx |-> SymIdx(m.symbol), side |-> m.side, price |-> m.price, shares |-> m.shares]

\* An ADD the filter drops.
Untracks(m) == m.kind = "ADD" /\ ~SymHit(m.symbol)

\* What the router takes in.
RequestOf(m) ==
  IF Untracks(m) THEN Nothing
  ELSE IF m.kind = "ADD" THEN [do |-> "put", id |-> m.order_id, order |-> NewOrder(m)]
  ELSE IF m.kind \in {"EXEC", "CANCEL"}
  THEN [do |-> "take", id |-> m.order_id, shares |-> m.shares]
  ELSE IF m.kind = "REPLACE"
  THEN [do |-> "popput", id |-> m.order_id, new |-> m.new_order_id, price |-> m.price,
        shares |-> m.shares]
  ELSE [do |-> "pop", id |-> m.order_id]

Untracked(m, c) == IF Untracks(m) THEN (c + 1) % CountMod ELSE c

\* The fields a message carries.
LEMMA MessageFields ==
  ASSUME NEW m \in Msg, m.kind # "SYSTEM"
  PROVE  /\ m.kind \in {"ADD", "EXEC", "CANCEL", "DELETE", "REPLACE"}
         /\ m.order_id \in OrderId /\ m.side \in Side /\ m.shares \in Shares
         /\ m.price \in Price \cup {0}
         /\ m.kind = "ADD" => m.symbol \in Symbol
         /\ m.kind = "REPLACE" => m.new_order_id \in OrderId
<1>1. 0 \in Shares /\ 0 \in Side
  BY DataAssumption DEF Shares, Side
<1> QED
  BY <1>1 DEF Msg

\* The filter finds the book of a configured symbol.
LEMMA SymbolFound ==
  ASSUME NEW s, SymHit(s), DistinctSymbols
  PROVE  SymIdx(s) \in Tracked /\ SYMBOLS[SymIdx(s)] = s /\ s \in Model!Configured
<1>1. PICK i \in BookIdx : SYMBOLS[i] = s /\ s # NoSymbol
  BY DEF SymHit
<1>2. \A j \in BookIdx : SYMBOLS[j] = s => j = i
  BY <1>1 DEF DistinctSymbols, Tracked
<1>3. i <= i
  BY <1>1, FilterAssumption DEF BookIdx
<1>4. SymIdx(s) = i
  BY <1>1, <1>2, <1>3 DEF SymIdx
<1>5. i \in Tracked
  BY <1>1 DEF Tracked
<1> QED
  BY <1>1, <1>4, <1>5, SymbolsTracked

\* And no other.
LEMMA SymbolMissed ==
  ASSUME NEW s \in Symbol, ~SymHit(s)
  PROVE  s \notin Model!Configured
  BY FilterAssumption DEF SymHit, Model!Configured, BookIdx

\* A message that is not dropped is a request, an ADD for a configured book.
LEMMA RequestTyped ==
  ASSUME NEW m \in Msg, m.kind # "SYSTEM", ~Untracks(m), DistinctSymbols
  PROVE  /\ RequestOf(m) # Nothing
         /\ m.kind = "ADD" => NewOrder(m) \in Resting
<1>1. m.kind = "ADD" => NewOrder(m) \in Resting /\ NewOrder(m) \in Order
  <2>1. SUFFICES ASSUME m.kind = "ADD" PROVE NewOrder(m) \in Resting /\ NewOrder(m) \in Order
    OBVIOUS
  <2>2. SymIdx(m.symbol) \in Tracked
    BY <2>1, SymbolFound DEF Untracks
  <2>3. SymIdx(m.symbol) \in BookIdx
    BY <2>2 DEF Tracked
  <2> QED
    BY <2>1, <2>2, <2>3, MessageFields DEF NewOrder, Resting, Order
<1>2. RequestOf(m) \in Todo
  BY <1>1, MessageFields DEF RequestOf, Todo
<1> QED
  BY <1>1, <1>2, NothingAssumption

\* on_message for an ADD.
LEMMA AddDoes ==
  ASSUME NEW M, NEW S, NEW f, NEW c, Golden(M, S, f, c), DistinctSymbols,
         NEW m \in Msg, m.kind = "ADD", SymHit(m.symbol),
         NEW N, N = Model!OnAdd(M, m)
  PROVE  Golden(N, Do(S, AddOp(NewOrder(m))), Dict!With(f, m.order_id, NewOrder(m)), c)
<1>1. PICK o, s : o = NewOrder(m) /\ s = m.symbol
  OBVIOUS
<1>2. o \in Resting
  BY <1>1, RequestTyped DEF Untracks
<1>3. SYMBOLS[o.book_idx] = s /\ s \in Model!Configured
  BY <1>1, SymbolFound DEF NewOrder
<1>4. o.side = m.side /\ o.price = m.price /\ o.shares = m.shares
  BY <1>1 DEF NewOrder
<1>5. PICK A : A = Model!AddLevel(M, s, m.side, m.price, m.shares)
  OBVIOUS
<1>6. Golden(A, Do(S, AddOp(o)), f, c)
  BY <1>2, <1>3, <1>4, <1>5, Added
<1>7. LevelOrder(o) = Model!Order(s, m.side, m.price, m.shares)
  BY <1>3, <1>4 DEF LevelOrder, Model!Order
<1>8. N = Model!Remember(A, m.order_id, LevelOrder(o))
  BY <1>1, <1>3, <1>5, <1>7 DEF Model!OnAdd
<1> QED
  BY <1>1, <1>6, <1>8, Remembered

\* The golden model holds the orders of the table.
LEMMA OrderHeld ==
  ASSUME NEW M, NEW S, NEW f, NEW c, Golden(M, S, f, c), NEW id \in DOMAIN f
  PROVE  M.orders[id] = LevelOrder(f[id])
  BY DEF Golden, Named

\* on_message for EXEC and CANCEL.
LEMMA TakeDoes ==
  ASSUME NEW M, NEW S, NEW f, NEW c, Golden(M, S, f, c), DistinctSymbols, Dictionary(f),
         NEW m \in Msg, m.kind \in {"EXEC", "CANCEL"}, m.order_id \in DOMAIN f,
         NEW N, N = Model!OnTake(M, m)
  PROVE  Golden(N, Do(S, ReduceOp(f[m.order_id], m.shares)),
                IF f[m.order_id].shares <= m.shares THEN Dict!Without(f, m.order_id)
                ELSE [f EXCEPT ![m.order_id].shares = @ - m.shares], c)
<1>1. PICK id, o, n, e, R : /\ id = m.order_id /\ o = f[id] /\ n = m.shares
                            /\ e = LevelOrder(o) /\ R = Model!ReduceLevel(M, e, n)
  OBVIOUS
<1>2. id \in DOMAIN f /\ o \in Resting /\ n \in Nat /\ o.shares \in Nat
  BY <1>1, MessageFields, DataAssumption DEF Dictionary, Resting, Shares
<1>3. Golden(R, Do(S, ReduceOp(o, n)), f, c)
  BY <1>1, <1>2, Reduced
<1>4. M.orders[id] = e /\ e.shares = o.shares
  BY <1>1, <1>2, OrderHeld DEF LevelOrder
<1>5. N = IF o.shares - n <= 0 THEN Model!Forget(R, id)
          ELSE [R EXCEPT !.orders[id].shares = @ - n]
  BY <1>1, <1>4 DEF Model!OnTake
<1>6. CASE o.shares <= n
  <2>1. N = Model!Forget(R, id)
    BY <1>2, <1>5, <1>6
  <2>2. Golden(N, Do(S, ReduceOp(o, n)), Dict!Without(f, id), c)
    BY <1>3, <2>1, Forgotten
  <2> QED
    BY <1>1, <1>6, <2>2
<1>7. CASE ~(o.shares <= n)
  <2>1. N = [R EXCEPT !.orders[id].shares = @ - n]
    BY <1>2, <1>5, <1>7
  <2>2. Golden(N, Do(S, ReduceOp(o, n)), [f EXCEPT ![id].shares = @ - n], c)
    BY <1>2, <1>3, <2>1, Lowered
  <2> QED
    BY <1>1, <1>7, <2>2
<1> QED
  BY <1>6, <1>7

\* For DELETE.
LEMMA DeleteDoes ==
  ASSUME NEW M, NEW S, NEW f, NEW c, Golden(M, S, f, c), DistinctSymbols, Dictionary(f),
         NEW m, m.order_id \in DOMAIN f,
         NEW N, N = Model!OnDelete(M, m)
  PROVE  Golden(N, Do(S, ReduceOp(f[m.order_id], f[m.order_id].shares)),
                Dict!Without(f, m.order_id), c)
<1>1. PICK id, o, e, R : /\ id = m.order_id /\ o = f[id]
                         /\ e = LevelOrder(o) /\ R = Model!Forget(M, id)
  OBVIOUS
<1>2. id \in DOMAIN f /\ o \in Resting
  BY <1>1 DEF Dictionary
<1>3. Golden(R, S, Dict!Without(f, id), c)
  BY <1>1, Forgotten
<1>4. M.orders[id] = e /\ e.shares = o.shares
  BY <1>1, <1>2, OrderHeld DEF LevelOrder
<1>5. N = Model!ReduceLevel(R, LevelOrder(o), o.shares)
  BY <1>1, <1>4 DEF Model!OnDelete
<1>6. Golden(N, Do(S, ReduceOp(o, o.shares)), Dict!Without(f, id), c)
  BY <1>2, <1>3, <1>5, Reduced
<1> QED
  BY <1>1, <1>6

\* For REPLACE.
LEMMA ReplaceDoes ==
  ASSUME NEW M, NEW S, NEW f, NEW c, Golden(M, S, f, c), DistinctSymbols, Dictionary(f),
         NEW m \in Msg, m.kind = "REPLACE", m.order_id \in DOMAIN f,
         NEW o, o = Moved(f[m.order_id], m),
         NEW N, N = Model!OnReplace(M, m)
  PROVE  Golden(N, Do(Do(S, ReduceOp(f[m.order_id], f[m.order_id].shares)), AddOp(o)),
                Dict!With(Dict!Without(f, m.order_id), m.new_order_id, o), c)
<1>1. PICK id, old, R, S1, f1 :
        /\ id = m.order_id /\ old = f[id] /\ R = Model!OnDelete(M, m)
        /\ S1 = Do(S, ReduceOp(old, old.shares)) /\ f1 = Dict!Without(f, id)
  OBVIOUS
<1>2. id \in DOMAIN f /\ old \in Resting
  BY <1>1 DEF Dictionary
<1>3. Golden(R, S1, f1, c)
  BY <1>1, DeleteDoes
<1>4. /\ o \in Resting /\ o.price = m.price /\ o.shares = m.shares
      /\ o.side = old.side /\ o.book_idx = old.book_idx
  BY <1>1, <1>2, MessageFields DEF Moved, Resting
<1>5. /\ M.orders[id] = LevelOrder(old) /\ LevelOrder(old).symbol = SYMBOLS[o.book_idx]
      /\ LevelOrder(old).side = o.side
  BY <1>1, <1>2, <1>4, OrderHeld DEF LevelOrder
<1>6. PICK A : A = Model!AddLevel(R, SYMBOLS[o.book_idx], o.side, o.price, o.shares)
  OBVIOUS
<1>7. Golden(A, Do(S1, AddOp(o)), f1, c)
  BY <1>3, <1>4, <1>6, Added
<1>8. N = Model!Remember(A, m.new_order_id, LevelOrder(o))
  BY <1>1, <1>4, <1>5, <1>6 DEF Model!OnReplace, LevelOrder, Model!Order
<1>9. Golden(N, Do(S1, AddOp(o)), Dict!With(f1, m.new_order_id, o), c)
  BY <1>7, <1>8, Remembered
<1> QED
  BY <1>1, <1>9

\* on_message does what the request calls for.
LEMMA MessageDoes ==
  ASSUME NEW M, NEW S, NEW f, NEW c, Golden([M EXCEPT !.events = << >>], S, f, c),
         DistinctSymbols, Dictionary(f), NEW m \in Msg, m.kind # "SYSTEM",
         NEW t, t = RequestOf(m), NEW N, N = Model!OnMessage(M, m)
  PROVE  Golden(N, Market(S, f, t), Orders(f, t), Drops(f, t, Untracked(m, c)))
<1>1. PICK K : K = [M EXCEPT !.events = << >>]
  OBVIOUS
<1>2. Golden(K, S, f, c)
  BY <1>1
<1>3. DOMAIN K.orders = DOMAIN f
  BY <1>2 DEF Golden, Named
<1>4. N = IF m.kind = "ADD" THEN Model!OnAdd(K, m)
          ELSE IF m.order_id \notin DOMAIN f THEN Model!Drop(K)
          ELSE IF m.kind \in {"EXEC", "CANCEL"} THEN Model!OnTake(K, m)
          ELSE IF m.kind = "DELETE" THEN Model!OnDelete(K, m)
          ELSE Model!OnReplace(K, m)
  <2>1. m.kind \in {"ADD", "EXEC", "CANCEL", "DELETE", "REPLACE"}
    BY MessageFields
  <2> QED
    BY <1>1, <1>3, <2>1 DEF Model!OnMessage
<1>5. CASE Untracks(m)
  <2>1. m.symbol \notin Model!Configured
    BY <1>5, SymbolMissed, MessageFields DEF Untracks
  <2>2. N = Model!Drop(K)
    BY <1>4, <1>5, <2>1 DEF Untracks, Model!OnAdd
  <2>3. t = Nothing
    BY <1>5 DEF RequestOf
  <2>4. Golden(N, S, f, (c + 1) % CountMod)
    BY <1>2, <2>2, Dropped
  <2> QED
    BY <1>5, <2>3, <2>4 DEF Market, Orders, Drops, Untracked
<1>6. CASE m.kind = "ADD" /\ SymHit(m.symbol)
  <2>1. /\ t # Nothing /\ t.do = "put" /\ t.id = m.order_id /\ t.order = NewOrder(m)
        /\ Untracked(m, c) = c
    BY <1>6, RequestTyped DEF RequestOf, Untracks, Untracked
  <2>2. Golden(N, Do(S, AddOp(NewOrder(m))), Dict!With(f, m.order_id, NewOrder(m)), c)
    BY <1>2, <1>4, <1>6, AddDoes
  <2> QED
    BY <2>1, <2>2 DEF Market, Orders, Drops
<1>7. CASE m.kind # "ADD"
  <2>1. t # Nothing /\ Untracked(m, c) = c
    BY <1>7, RequestTyped DEF Untracks, Untracked
  <2>2. /\ t.id = m.order_id /\ t.do # "put"
        /\ m.kind \in {"EXEC", "CANCEL"} => t.do = "take" /\ t.shares = m.shares
        /\ m.kind = "DELETE" => t.do = "pop"
        /\ m.kind = "REPLACE" => /\ t.do = "popput" /\ t.new = m.new_order_id
                                 /\ t.price = m.price /\ t.shares = m.shares
        /\ m.kind \in {"EXEC", "CANCEL", "DELETE", "REPLACE"}
    BY <1>7, MessageFields DEF RequestOf, Untracks
  <2>3. CASE m.order_id \notin DOMAIN f
    <3>1. Golden(N, S, f, (c + 1) % CountMod)
      BY <1>2, <1>4, <1>7, <2>3, Dropped
    <3> QED
      BY <2>1, <2>2, <2>3, <3>1 DEF Market, Orders, Drops
  <2>4. CASE m.order_id \in DOMAIN f /\ m.kind \in {"EXEC", "CANCEL"}
    <3>1. N = Model!OnTake(K, m)
      BY <1>4, <1>7, <2>4
    <3>2. Golden(N, Do(S, ReduceOp(f[m.order_id], m.shares)),
                 IF f[m.order_id].shares <= m.shares THEN Dict!Without(f, m.order_id)
                 ELSE [f EXCEPT ![m.order_id].shares = @ - m.shares], c)
      BY <1>2, <2>4, <3>1, TakeDoes
    <3>3. /\ t.do = "take" /\ t.shares = m.shares /\ t.id = m.order_id
          /\ Untracked(m, c) = c
      BY <2>1, <2>2, <2>4
    <3> QED
      BY <2>1, <2>4, <3>2, <3>3 DEF Market, Orders, Drops
  <2>5. CASE m.order_id \in DOMAIN f /\ m.kind = "DELETE"
    <3>1. N = Model!OnDelete(K, m)
      BY <1>4, <1>7, <2>5
    <3>2. Golden(N, Do(S, ReduceOp(f[m.order_id], f[m.order_id].shares)),
                 Dict!Without(f, m.order_id), c)
      BY <1>2, <2>5, <3>1, DeleteDoes
    <3>3. t.do = "pop" /\ t.id = m.order_id /\ Untracked(m, c) = c
      BY <2>1, <2>2, <2>5
    <3> QED
      BY <2>1, <2>5, <3>2, <3>3 DEF Market, Orders, Drops
  <2>6. CASE m.order_id \in DOMAIN f /\ m.kind = "REPLACE"
    <3>1. N = Model!OnReplace(K, m)
      BY <1>4, <1>7, <2>6
    <3>2. PICK o : o = Moved(f[m.order_id], m)
      OBVIOUS
    <3>3. Golden(N, Do(Do(S, ReduceOp(f[m.order_id], f[m.order_id].shares)), AddOp(o)),
                 Dict!With(Dict!Without(f, m.order_id), m.new_order_id, o), c)
      BY <1>2, <2>6, <3>1, <3>2, ReplaceDoes
    <3>4. /\ t.do = "popput" /\ t.id = m.order_id /\ t.new = m.new_order_id
          /\ Untracked(m, c) = c
      BY <2>1, <2>2, <2>6
    <3>5. Moved(f[t.id], t) = o
      BY <2>2, <2>6, <3>2, <3>4 DEF Moved
    <3> QED
      BY <2>1, <2>6, <3>3, <3>4, <3>5 DEF Market, Orders, Drops
  <2> QED
    BY <2>2, <2>3, <2>4, <2>5, <2>6
<1> QED
  BY <1>5, <1>6, <1>7 DEF Untracks

-----------------------------------------------------------------------------
(* Events that were there before.                                           *)

\* A sequence, whatever its elements.
Listed(e) == \E T : e \in Seq(T)

\* The same with the events A before its own.
Led(A, S) == [books |-> S.books, events |-> A \o S.events]

\* A list of some things is a list of more things.
LEMMA WiderList ==
  ASSUME NEW T, NEW U, NEW e \in Seq(T), T \subseteq U
  PROVE  e \in Seq(U)
  OBVIOUS

\* Appending keeps a list.
LEMMA ListedAppend ==
  ASSUME NEW e, NEW x, Listed(e)
  PROVE  Listed(Append(e, x))
<1>1. PICK T : e \in Seq(T)
  BY DEF Listed
<1>2. e \in Seq(T \cup {x})
  BY <1>1, WiderList
<1>3. Append(e, x) \in Seq(T \cup {x})
  BY <1>2
<1> QED
  BY <1>3 DEF Listed

\* Appending is at the end.
LEMMA LedAppend ==
  ASSUME NEW a, NEW e, NEW x, Listed(a), Listed(e)
  PROVE  Append(a \o e, x) = a \o Append(e, x)
<1>1. PICK T, U : a \in Seq(T) /\ e \in Seq(U)
  BY DEF Listed
<1>2. PICK V : V = T \cup U \cup {x}
  OBVIOUS
<1>3. a \in Seq(V) /\ e \in Seq(V) /\ x \in V
  BY <1>1, <1>2, WiderList
<1> QED
  BY <1>3

\* An operation appends one event at most.
LEMMA DoListed ==
  ASSUME NEW S, Listed(S.events), NEW op
  PROVE  Listed(Do(S, op).events)
  BY ListedAppend DEF Do

\* What an operation appends does not depend on the events before.
LEMMA DoLed ==
  ASSUME NEW A, Listed(A), NEW S, Listed(S.events), NEW op
  PROVE  Do(Led(A, S), op) = Led(A, Do(S, op))
<1>1. PICK B, E, i, out, new, e :
        /\ B = S.books /\ E = S.events /\ i = op.book_idx /\ out = Called(B[i], op)
        /\ new = After(B[i], op) /\ e = Event(i, new)
  OBVIOUS
<1>2. Led(A, S).books = B /\ Led(A, S).events = A \o E
  BY <1>1 DEF Led
<1>3. PICK D : D = [B EXCEPT ![i] = new]
  OBVIOUS
<1>4. Do(S, op) = [books |-> D, events |-> IF out.changed THEN Append(E, e) ELSE E]
  BY <1>1, <1>3 DEF Do
<1>5. Do(Led(A, S), op) =
        [books |-> D, events |-> IF out.changed THEN Append(A \o E, e) ELSE A \o E]
  BY <1>1, <1>2, <1>3 DEF Do
<1>6. Append(A \o E, e) = A \o Append(E, e)
  BY <1>1, LedAppend
<1>7. CASE out.changed
  BY <1>4, <1>5, <1>6, <1>7 DEF Led
<1>8. CASE ~out.changed
  BY <1>4, <1>5, <1>8 DEF Led
<1> QED
  BY <1>7, <1>8

\* The same for a request.
LEMMA MarketListed ==
  ASSUME NEW S, Listed(S.events), NEW f, NEW t
  PROVE  Listed(Market(S, f, t).events)
  BY DoListed DEF Market

\* What a request appends does not depend on the events before.
LEMMA MarketLed ==
  ASSUME NEW A, Listed(A), NEW S, Listed(S.events), NEW f, NEW t
  PROVE  Market(Led(A, S), f, t) = Led(A, Market(S, f, t))
<1>1. \A op : Do(Led(A, S), op) = Led(A, Do(S, op)) /\ Listed(Do(S, op).events)
  BY DoLed, DoListed
<1>2. \A op, o : Do(Do(Led(A, S), op), o) = Led(A, Do(Do(S, op), o))
  BY <1>1, DoLed
<1> QED
  BY <1>1, <1>2 DEF Market

\* And for the operation of an edge.
LEMMA AppliedLed ==
  ASSUME NEW CONSTANT A, Listed(A), NEW CONSTANT S, Listed(S.events)
  PROVE  Applied(Led(A, S))' = Led(A, Applied(S)') /\ Listed(Applied(S)'.events)
<1>1. PICK v, op, a, b :
        v = out_valid' /\ op = out_op' /\ a = Applied(Led(A, S))' /\ b = Applied(S)'
  OBVIOUS
<1>2. /\ a = (IF v THEN Do(Led(A, S), op) ELSE Led(A, S))
      /\ b = (IF v THEN Do(S, op) ELSE S)
  BY <1>1 DEF Applied
<1>3. a = Led(A, b) /\ Listed(b.events)
  BY <1>2, DoLed, DoListed
<1> QED
  BY <1>1, <1>3

-----------------------------------------------------------------------------
(* Sums over sets of slots.                                                 *)

\* A set that has zero and every successor is all there is.
LEMMA AllNumbers ==
  ASSUME NEW W \in SUBSET Nat, 0 \in W, \A n \in W : n + 1 \in W
  PROVE  W = Nat
<1>1. SUFFICES ASSUME Nat \ W # {} PROVE FALSE
  OBVIOUS
<1>2. PICK n \in Nat \ W : \A m \in Nat \ W : <<m, n>> \notin OpToRel(<, Nat)
  BY <1>1, WFMin, NatLessThanWellFounded
<1>3. \A m \in Nat \ W : ~(m < n)
  BY <1>2, Zenon DEF OpToRel
<1>4. n \in Nat /\ n \notin W /\ n # 0
  OBVIOUS
<1>5. n - 1 \in Nat /\ n - 1 < n /\ (n - 1) + 1 = n
  BY <1>4
<1>6. n - 1 \in W
  BY <1>3, <1>5
<1> QED
  BY <1>4, <1>5, <1>6

\* The element a sum takes off first, and what is then left.
First(s) == CHOOSE x \in s : TRUE
Others(s) == s \ {First(s)}

\* F gives the sum of f over the subsets of S that are in D.
SumsOver(F, f, D) ==
  \A s \in D : F[s] = IF s = {} THEN 0 ELSE f[First(s)] + F[Others(s)]

Sums(F, f, S) == F \in [SUBSET S -> Nat] /\ SumsOver(F, f, SUBSET S)

\* The subsets of up to n elements.
UpTo(S, n) == {s \in SUBSET S : Cardinality(s) <= n}

\* A set without its first element.
LEMMA OneLess ==
  ASSUME NEW S, IsFiniteSet(S), NEW s \in SUBSET S, s # {}
  PROVE  /\ First(s) \in s /\ Others(s) \in SUBSET S /\ First(s) \in S
         /\ Cardinality(s) \in Nat /\ Cardinality(Others(s)) \in Nat
         /\ Cardinality(Others(s)) = Cardinality(s) - 1
<1>1. First(s) \in s
  BY DEF First
<1>2. IsFiniteSet(s) /\ Cardinality(s) \in Nat
  BY FS_Subset, FS_CardinalityType
<1>3. IsFiniteSet(Others(s)) /\ Cardinality(Others(s)) = Cardinality(s) - 1
  BY <1>1, <1>2, FS_RemoveElement DEF Others
<1>4. Cardinality(Others(s)) \in Nat
  BY <1>3, FS_CardinalityType
<1> QED
  BY <1>1, <1>2, <1>3, <1>4 DEF Others

\* There is a function that satisfies the equation of the fold.
LEMMA SumExists ==
  ASSUME NEW S, IsFiniteSet(S), NEW f \in [S -> Nat]
  PROVE  \E F : Sums(F, f, S)
<1> DEFINE W == {n \in Nat : \E F \in [UpTo(S, n) -> Nat] : SumsOver(F, f, UpTo(S, n))}
<1>1. 0 \in W
  <2>1. UpTo(S, 0) = {{}}
    <3>1. ASSUME NEW s \in SUBSET S PROVE Cardinality(s) <= 0 <=> s = {}
      <4>1. IsFiniteSet(s) /\ Cardinality(s) \in Nat
        BY FS_Subset, FS_CardinalityType
      <4>2. Cardinality(s) = 0 <=> s = {}
        BY <4>1, FS_EmptySet
      <4> QED
        BY <4>1, <4>2
    <3> QED
      BY <3>1 DEF UpTo
  <2>2. PICK F : F = [s \in {{}} |-> 0]
    OBVIOUS
  <2>3. F \in [UpTo(S, 0) -> Nat] /\ SumsOver(F, f, UpTo(S, 0))
    BY <2>1, <2>2 DEF SumsOver
  <2> QED
    BY <2>3
<1>2. ASSUME NEW n \in W PROVE n + 1 \in W
  <2>1. PICK m : m = n + 1
    OBVIOUS
  <2>2. n \in Nat /\ m \in Nat
    BY <1>2, <2>1
  <2>3. PICK F \in [UpTo(S, n) -> Nat] : SumsOver(F, f, UpTo(S, n))
    BY <1>2
  <2>4. ASSUME NEW s \in UpTo(S, m), s # {}
        PROVE  Others(s) \in UpTo(S, n) /\ First(s) \in S /\ Others(s) \in UpTo(S, m)
    <3>1. s \in SUBSET S /\ Cardinality(s) <= n + 1
      BY <2>1, <2>4 DEF UpTo
    <3>2. /\ First(s) \in S /\ Others(s) \in SUBSET S /\ Cardinality(s) \in Nat
          /\ Cardinality(Others(s)) \in Nat /\ Cardinality(Others(s)) = Cardinality(s) - 1
      BY <2>4, <3>1, OneLess
    <3>3. Cardinality(Others(s)) <= n /\ Cardinality(Others(s)) <= m
      BY <2>1, <2>2, <3>1, <3>2
    <3> QED
      BY <3>2, <3>3 DEF UpTo
  <2>5. PICK G : G = [s \in UpTo(S, m) |-> IF s = {} THEN 0 ELSE f[First(s)] + F[Others(s)]]
    OBVIOUS
  <2>6. G \in [UpTo(S, m) -> Nat]
    <3>1. ASSUME NEW s \in UpTo(S, m)
          PROVE  (IF s = {} THEN 0 ELSE f[First(s)] + F[Others(s)]) \in Nat
      <4>1. CASE s = {}
        BY <4>1
      <4>2. CASE s # {}
        <5>1. f[First(s)] \in Nat /\ F[Others(s)] \in Nat
          BY <2>4, <4>2
        <5> QED
          BY <4>2, <5>1
      <4> QED
        BY <4>1, <4>2
    <3> QED
      BY <2>5, <3>1
  <2>7. ASSUME NEW s \in UpTo(S, n), s \in UpTo(S, m) PROVE G[s] = F[s]
    BY <2>3, <2>5, <2>7 DEF SumsOver
  <2>8. SumsOver(G, f, UpTo(S, m))
    <3>1. ASSUME NEW s \in UpTo(S, m)
          PROVE  G[s] = IF s = {} THEN 0 ELSE f[First(s)] + G[Others(s)]
      <4>1. CASE s = {}
        BY <2>5, <4>1
      <4>2. CASE s # {}
        <5>1. G[Others(s)] = F[Others(s)]
          BY <2>4, <2>7, <4>2
        <5> QED
          BY <2>5, <4>2, <5>1
      <4> QED
        BY <4>1, <4>2
    <3> QED
      BY <3>1 DEF SumsOver
  <2> QED
    BY <2>1, <2>2, <2>6, <2>8
<1>3. W \in SUBSET Nat
  OBVIOUS
<1>4. W = Nat
  <2> HIDE DEF W
  <2> QED
    BY <1>1, <1>2, <1>3, AllNumbers
<1>5. Cardinality(S) \in Nat /\ UpTo(S, Cardinality(S)) = SUBSET S
  <2>1. \A s \in SUBSET S : Cardinality(s) <= Cardinality(S)
    BY FS_Subset
  <2> QED
    BY <2>1, FS_CardinalityType DEF UpTo
<1>6. Cardinality(S) \in W
  BY <1>4, <1>5
<1> QED
  BY <1>5, <1>6 DEF Sums

\* And but one, also on a smaller set, where the summands are the same.
LEMMA SumUnique ==
  ASSUME NEW S, IsFiniteSet(S), NEW T \in SUBSET S, NEW F, NEW f, Sums(F, f, S),
         NEW G, NEW g, SumsOver(G, g, SUBSET T), \A x \in T : g[x] = f[x]
  PROVE  \A s \in SUBSET T : G[s] = F[s]
<1> DEFINE W == {n \in Nat : \A s \in UpTo(T, n) : G[s] = F[s]}
<1>1. IsFiniteSet(T)
  BY FS_Subset
<1>2. ASSUME NEW s \in SUBSET T, s = {} PROVE G[s] = F[s]
  BY <1>2 DEF Sums, SumsOver
<1>3. 0 \in W
  <2>1. ASSUME NEW s \in UpTo(T, 0) PROVE s = {}
    <3>1. s \in SUBSET T /\ Cardinality(s) <= 0
      BY DEF UpTo
    <3>2. IsFiniteSet(s) /\ Cardinality(s) \in Nat
      BY <1>1, <3>1, FS_Subset, FS_CardinalityType
    <3>3. Cardinality(s) = 0
      BY <3>1, <3>2
    <3> QED
      BY <3>2, <3>3, FS_EmptySet
  <2>2. ASSUME NEW s \in UpTo(T, 0) PROVE G[s] = F[s]
    BY <1>2, <2>1, <2>2 DEF UpTo
  <2> QED
    BY <2>2
<1>4. ASSUME NEW n \in W PROVE n + 1 \in W
  <2>1. n \in Nat /\ n + 1 \in Nat
    BY <1>4
  <2>2. ASSUME NEW s \in UpTo(T, n + 1) PROVE G[s] = F[s]
    <3>1. s \in SUBSET T /\ Cardinality(s) <= n + 1
      BY <2>2 DEF UpTo
    <3>2. CASE s = {}
      BY <1>2, <3>1, <3>2
    <3>3. CASE s # {}
      <4>1. /\ First(s) \in T /\ Others(s) \in SUBSET T /\ Cardinality(s) \in Nat
            /\ Cardinality(Others(s)) \in Nat /\ Cardinality(Others(s)) = Cardinality(s) - 1
        BY <1>1, <3>1, <3>3, OneLess
      <4>2. Cardinality(Others(s)) <= n
        BY <2>1, <3>1, <4>1
      <4>3. G[Others(s)] = F[Others(s)]
        BY <1>4, <4>1, <4>2 DEF UpTo
      <4>4. G[s] = g[First(s)] + G[Others(s)]
        BY <3>1, <3>3 DEF SumsOver
      <4>5. F[s] = f[First(s)] + F[Others(s)]
        <5>1. s \in SUBSET S
          BY <3>1
        <5> QED
          BY <3>3, <5>1 DEF Sums, SumsOver
      <4> QED
        BY <4>1, <4>3, <4>4, <4>5
    <3> QED
      BY <3>2, <3>3
  <2> QED
    BY <2>1, <2>2
<1>5. W \in SUBSET Nat
  OBVIOUS
<1>6. W = Nat
  <2> HIDE DEF W
  <2> QED
    BY <1>3, <1>4, <1>5, AllNumbers
<1>7. ASSUME NEW s \in SUBSET T PROVE G[s] = F[s]
  <2>1. Cardinality(s) \in Nat
    BY <1>1, FS_Subset, FS_CardinalityType
  <2>2. s \in UpTo(T, Cardinality(s))
    BY <2>1 DEF UpTo
  <2>3. Cardinality(s) \in W
    BY <1>6, <2>1
  <2> QED
    BY <2>2, <2>3
<1> QED
  BY <1>7

-----------------------------------------------------------------------------
(* What PriceBookProofs proves of one book, for the books of the pipeline.  *)
(* Only facts about operators are used of it: no book is the variable.      *)

PB == INSTANCE PriceBookProofs
        WITH Price <- Price \cup {0}, Quantity <- Shares, CountMod <- BookCountMod,
             MaxDepth <- 0, NoEvent <- << >>, book <- ResetBook

\* The helpers of the two models of a book agree.
LEMMA SameMin == ASSUME NEW S PROVE PB!Contract!Min(S) = Model!Min(S)
  BY DEF PB!Contract!Min, Model!Min

\* The level of a price.
LEMMA SameIndex ==
  ASSUME NEW l, NEW p
  PROVE  PB!Contract!IndexOf(l, p) = Model!IndexOf(l, p)
  BY SameMin DEF PB!Contract!IndexOf, Model!IndexOf,
         PB!Contract!SelectInSeq, Model!SelectInSeq

\* A level taken out.
LEMMA SameRemove ==
  ASSUME NEW l, NEW i
  PROVE  PB!Contract!RemoveAt(l, i) = Model!RemoveAt(l, i)
  BY DEF PB!Contract!RemoveAt, Model!RemoveAt

\* A reduce.
LEMMA SameReduce ==
  ASSUME NEW l, NEW p, NEW n
  PROVE  PB!Contract!Reduce(l, p, n) = Model!Reduce(l, p, n)
  BY SameIndex, SameRemove DEF PB!Contract!Reduce, Model!Reduce, PB!Contract!Outcome, Model!Outcome

\* An add.
LEMMA SameAdd ==
  ASSUME NEW l, NEW side, NEW p, NEW n
  PROVE  PB!Contract!Add(l, side, p, n) = Model!Add(l, side, p, n)
<1>1. \A x, y : PB!Contract!Beats(side, x, y) <=> Model!Beats(side, x, y)
  BY DEF PB!Contract!Beats, Model!Beats, PB!Contract!Bid, Model!Bid
<1>2. PB!Contract!Last(l) = Model!Last(l)
  BY DEF PB!Contract!Last, Model!Last
<1>3. PB!Contract!Inserted(l, side, p, n) = Model!Inserted(l, side, p, n)
  <2>1. PICK I, J : /\ I = {i \in 1 .. Len(l) : PB!Contract!Beats(side, p, l[i].price)}
                    /\ J = {i \in 1 .. Len(l) : Model!Beats(side, p, l[i].price)}
    OBVIOUS
  <2>2. I = J
    BY <1>1, <2>1
  <2>3. PICK at : at = IF I # {} THEN Model!Min(I) ELSE 0
    OBVIOUS
  <2>4. PB!Contract!SelectInSeq(l, LAMBDA level : PB!Contract!Beats(side, p, level.price)) = at
    BY <2>1, <2>2, <2>3, SameMin DEF PB!Contract!SelectInSeq
  <2>5. Model!SelectInSeq(l, LAMBDA level : Model!Beats(side, p, level.price)) = at
    BY <2>1, <2>2, <2>3 DEF Model!SelectInSeq
  <2>6. \A a, e : PB!Contract!InsertAt(l, a, e) = Model!InsertAt(l, a, e)
    BY DEF PB!Contract!InsertAt, Model!InsertAt
  <2>7. \A m : PB!Contract!Front(m) = Model!Front(m)
    BY DEF PB!Contract!Front, Model!Front
  <2> QED
    BY <2>4, <2>5, <2>6, <2>7 DEF PB!Contract!Inserted, Model!Inserted,
       PB!Contract!Outcome, Model!Outcome, PB!Contract!PriceLevel, Model!PriceLevel
<1> QED
  BY <1>1, <1>2, <1>3, SameIndex
     DEF PB!Contract!Add, Model!Add, PB!Contract!Outcome, Model!Outcome

\* The lists of a book.
Sides(b) == [bid |-> PB!ListOf(b.bid), ask |-> PB!ListOf(b.ask)]

\* Both sides are what price_book's assertions ask for.
BookOK(b) ==
  /\ b.bid \in PB!SideState /\ PB!WellFormed(Bid, b.bid)
  /\ b.ask \in PB!SideState /\ PB!WellFormed(Ask, b.ask)

\* The operation of an edge wraps no share count.
OpFits(b, op) ==
  op.op = "OP_ADD" =>
    \A l \in Level : LET cur == IF op.side = Bid THEN b.bid ELSE b.ask
                     IN  cur[l].price = op.price => cur[l].shares + op.shares < ShareMod

\* What a book does with an operation, seen from the golden model.
Does(b, op, c) ==
  /\ BookOK(c)
  /\ Sides(c) = After(Sides(b), op)
  /\ c.upd_valid = Called(Sides(b), op).changed
  /\ c.upd_valid \in BOOLEAN
  /\ c.upd_valid => /\ Values(c.upd.bid) = Model!Padded(Sides(c).bid)
                    /\ Values(c.upd.ask) = Model!Padded(Sides(c).ask)

\* The constants of the pipeline are ones PriceBookProofs is about.
LEMMA BookConstants == PB!DatapathAssumption /\ PB!QuantityAssumption
<1>1. Price \cup {0} \subseteq Nat /\ MaxShares \in Nat
  BY DataAssumption
<1>2. Shares \subseteq 0 .. ShareMod - 1
  BY <1>1, BooksAssumption DEF Shares
<1>3. ShareMod \in Nat \ {0}
  BY <1>1, BooksAssumption
<1> QED
  BY <1>1, <1>2, <1>3, BooksAssumption DEF PB!DatapathAssumption, PB!QuantityAssumption

\* Sides and slots are called the same everywhere.
LEMMA SameSides ==
  /\ Bid = PB!Bid /\ Ask = PB!Ask /\ Bid = Model!Bid /\ Ask = Model!Ask
  /\ Level = PB!Level /\ Side = {Bid, Ask} /\ Bid # Ask
  BY DEF Bid, PB!Bid, Ask, PB!Ask, Model!Bid, Model!Ask, Level, PB!Level, Side

\* The next-state logic of the books of the pipeline is that of price_book.
LEMMA SameDatapath ==
  ASSUME NEW cur, NEW op, NEW o, o.op = op.op, o.side = op.side, o.price = op.price,
         o.shares = op.shares
  PROVE  NextSide(cur, op) = PB!NextSide(cur, o)
  BY DEF NextSide, PB!NextSide, AddTo, PB!AddTo, ReduceFrom, PB!ReduceFrom, PB!Match, Match,
     PB!Cand, Cand, PB!Lowest, Lowest, PB!Result, Result, PB!ShiftDown, ShiftDown,
     PB!ShiftUp, ShiftUp, PB!NoLevel, NoLevel, PB!Level, Level, PB!Better, Better, PB!Bid, Bid

\* The slots of a well-formed side are its list, padded.
LEMMA SamePadded ==
  ASSUME NEW side \in {Bid, Ask}, NEW cur \in PB!SideState, PB!WellFormed(side, cur)
  PROVE  Model!Padded(PB!ListOf(cur)) = Values(cur)
<1>1. PB!Contract!Padded(PB!ListOf(cur)) = PB!Values(cur)
  BY BookConstants, SameSides, PB!PaddedIs
<1>2. PB!Values(cur) = Values(cur)
  BY DEF PB!Values, Values, PB!Level, Level
<1>3. \A l : PB!Contract!Padded(l) = Model!Padded(l)
  BY DEF PB!Contract!Padded, Model!Padded, PB!Contract!PriceLevel, Model!PriceLevel
<1> QED
  BY <1>1, <1>2, <1>3

\* One side.
LEMMA SideDoes ==
  ASSUME NEW side \in {Bid, Ask}, NEW cur \in PB!SideState, PB!WellFormed(side, cur),
         NEW op \in Op, op.side = side, op.op = "OP_ADD" => PB!Fits(cur, op),
         NEW nxt, nxt = NextSide(cur, op), NEW out,
         out = IF op.op = "OP_ADD"
               THEN Model!Add(PB!ListOf(cur), side, op.price, op.shares)
               ELSE Model!Reduce(PB!ListOf(cur), op.price, op.shares)
  PROVE  /\ nxt.lvls \in PB!SideState /\ PB!WellFormed(side, nxt.lvls)
         /\ nxt.changed \in BOOLEAN /\ nxt.changed = out.changed
         /\ out.levels = PB!ListOf(nxt.lvls)
<1>1. PICK o : o = [op |-> op.op, side |-> side, price |-> op.price, shares |-> op.shares]
  OBVIOUS
<1>2. /\ o \in PB!Op /\ o.op = op.op /\ o.side = side /\ o.price = op.price
      /\ o.shares = op.shares /\ nxt = PB!NextSide(cur, o) /\ side \in {PB!Bid, PB!Ask}
  <2>1. o \in PB!Op
    BY <1>1, SameSides DEF Op, PB!Op
  <2>2. nxt = PB!NextSide(cur, o)
    BY <1>1, SameDatapath
  <2> QED
    BY <1>1, <2>1, <2>2, SameSides
<1>3. /\ nxt.lvls \in PB!SideState /\ PB!WellFormed(side, nxt.lvls)
      /\ nxt.changed \in BOOLEAN
  BY <1>2, BookConstants, PB!NextSideKeeps
<1>4. PB!Agrees(IF o.op = "OP_ADD"
                THEN PB!Contract!Add(PB!ListOf(cur), side, o.price, o.shares)
                ELSE PB!Contract!Reduce(PB!ListOf(cur), o.price, o.shares), nxt)
  <2>1. o.op = "OP_ADD" => PB!Fits(cur, o)
    BY <1>2 DEF PB!Fits
  <2> QED
    BY <1>2, <2>1, BookConstants, PB!NextSideAgrees
<1>5. PB!Agrees(out, nxt)
  BY <1>2, <1>4, SameAdd, SameReduce
<1>6. nxt.changed = out.changed /\ out.levels = PB!ListOf(nxt.lvls)
  BY <1>5 DEF PB!Agrees, PB!Contract!Outcome
<1> QED
  BY <1>3, <1>6

\* A book with an operation: its lists, its update and its snapshot are those of
\* the golden book.
LEMMA BookDoes ==
  ASSUME NEW b, BookOK(b), NEW op \in Op, OpFits(b, op), NEW c, c = ApplyOp(b, op)
  PROVE  Does(b, op, c)
<1>1. PICK side, cur, nxt, out :
        /\ side = op.side /\ cur = (IF op.side = Bid THEN b.bid ELSE b.ask)
        /\ nxt = NextSide(cur, op)
        /\ out = IF op.op = "OP_ADD"
                 THEN Model!Add(PB!ListOf(cur), side, op.price, op.shares)
                 ELSE Model!Reduce(PB!ListOf(cur), op.price, op.shares)
  OBVIOUS
<1>2. side \in {Bid, Ask} /\ (side = Bid \/ side = Ask) /\ Bid # Ask
  BY <1>1, SameSides DEF Op
<1>3. cur \in PB!SideState /\ PB!WellFormed(side, cur)
  BY <1>1, <1>2 DEF BookOK
<1>4. op.op = "OP_ADD" => PB!Fits(cur, op)
  BY <1>1, SameSides DEF OpFits, PB!Fits
<1>5. /\ nxt.lvls \in PB!SideState /\ PB!WellFormed(side, nxt.lvls)
      /\ nxt.changed \in BOOLEAN /\ nxt.changed = out.changed
      /\ out.levels = PB!ListOf(nxt.lvls)
  BY <1>1, <1>2, <1>3, <1>4, SideDoes
<1>6. out = Called(Sides(b), op)
  BY <1>1, <1>2, SameSides DEF Called, Sides, Model!SideList
<1>7. /\ c.bid = (IF side = Bid THEN nxt.lvls ELSE b.bid)
      /\ c.ask = (IF side = Bid THEN b.ask ELSE nxt.lvls)
      /\ c.upd_valid = nxt.changed
      /\ nxt.changed => c.upd.bid = c.bid /\ c.upd.ask = c.ask
  BY <1>1 DEF ApplyOp, Snapshot
<1>8. BookOK(c)
  BY <1>2, <1>5, <1>7 DEF BookOK
<1>9. Sides(c) = After(Sides(b), op)
  BY <1>1, <1>2, <1>5, <1>6, <1>7 DEF Sides, After
<1>10. /\ Values(c.bid) = Model!Padded(PB!ListOf(c.bid))
       /\ Values(c.ask) = Model!Padded(PB!ListOf(c.ask))
  BY <1>8, SamePadded DEF BookOK
<1> QED
  BY <1>5, <1>6, <1>7, <1>8, <1>9, <1>10 DEF Does, Sides

-----------------------------------------------------------------------------
(* The pipeline and the golden model.                                       *)

\* The event on the update port.
Shown ==
  IF upd_valid
  THEN <<[symbol_idx |-> last_book_idx_q, bid |-> Values(upd.bid), ask |-> Values(upd.ask)]>>
  ELSE << >>

\* The lists of the books.
BookLists == [i \in Tracked |-> Sides(books[i])]

\* Books with these lists, and no event yet.
Unseen(B) == [books |-> B, events |-> << >>]

\* The golden model between two messages.
Quietly(M) == [M EXCEPT !.events = << >>]

\* The books and the events once the operation at the books and the request in
\* the router have been carried out.
Coming == Market(Applied(Unseen(BookLists)), MappedOrders, MappedTodo)

\* The registers of a book.
BookShaped(b) ==
  b = [bid |-> b.bid, ask |-> b.ask, upd |-> b.upd, upd_valid |-> b.upd_valid,
       evict_count |-> b.evict_count, reduce_miss_count |-> b.reduce_miss_count,
       crossed_count |-> b.crossed_count]

\* The books are well formed, and the operation on its way names a configured one.
BooksInv ==
  /\ last_book_idx_q \in BookIdx
  /\ \A i \in BookIdx : BookShaped(books[i]) /\ BookOK(books[i])
  /\ out_valid => out_op.book_idx \in Tracked

\* So does every order in the table and in the request.
OrdersInv ==
  /\ Dictionary(MappedOrders)
  /\ MappedTodo # Nothing /\ MappedTodo.do = "put" => MappedTodo.order \in Resting

\* The golden model has already done what the pipeline still has to do.
GoldenInv ==
  Golden(Quietly(golden), Unseen(Coming.books), Orders(MappedOrders, MappedTodo),
         Drops(MappedOrders, MappedTodo, drop_count))

\* The events that are expected are the one shown and those that are to come.
PendingInv == expected = Shown \o Coming.events

\* The message on the port names no live id as a new one.
FeedInv == dec_valid => FreshId(dec_msg)

\* The sums of this edge stay below 2^32.
SumsFit == out_valid => OpFits(books[out_op.book_idx], out_op)

\* The inductive invariant of the comparison.
SimInv == FreshInv /\ BooksInv /\ OrdersInv /\ GoldenInv /\ PendingInv /\ FeedInv

\* A book without an operation keeps its lists and shows nothing.
LEMMA HoldKeeps ==
  ASSUME NEW b, BookShaped(b), BookOK(b), NEW c, c = HoldBook(b)
  PROVE  BookShaped(c) /\ BookOK(c) /\ Sides(c) = Sides(b) /\ c.upd_valid = FALSE
<1>1. PICK B, A, e, r, x, u, v :
        /\ B = b.bid /\ A = b.ask /\ e = b.evict_count /\ r = b.reduce_miss_count
        /\ x = b.crossed_count /\ u = b.upd /\ v = b.upd_valid
  OBVIOUS
<1>2. b = [bid |-> B, ask |-> A, upd |-> u, upd_valid |-> v, evict_count |-> e,
           reduce_miss_count |-> r, crossed_count |-> x]
  BY <1>1 DEF BookShaped
<1>3. c = [bid |-> B, ask |-> A, upd |-> NoSnapshot, upd_valid |-> FALSE, evict_count |-> e,
           reduce_miss_count |-> r, crossed_count |-> x]
  BY <1>2 DEF HoldBook
<1>4. BookShaped(c) /\ c.bid = B /\ c.ask = A /\ c.upd_valid = FALSE
  BY <1>3 DEF BookShaped
<1> QED
  BY <1>1, <1>4 DEF BookOK, Sides

\* A book with one is a record of the same registers.
LEMMA ApplyShaped ==
  ASSUME NEW b, NEW op, NEW c, c = ApplyOp(b, op)
  PROVE  BookShaped(c)
  BY DEF ApplyOp, BookShaped

\* The books and the mux do the operation that the router has handed them.
LEMMA BooksStep ==
  ASSUME IndInv, BooksInv, SumsFit, Books, UpdateMux
  PROVE  /\ \A i \in BookIdx : BookShaped(books'[i]) /\ BookOK(books'[i])
         /\ last_book_idx_q' \in BookIdx
         /\ Applied(Unseen(BookLists)) = [books |-> BookLists', events |-> Shown']
<1>1. books' = [i \in BookIdx |-> IF out_valid /\ out_op.book_idx = i
                                 THEN ApplyOp(books[i], out_op) ELSE HoldBook(books[i])]
  BY DEF Books
<1>2. BookLists' = [i \in Tracked |-> Sides(books'[i])]
  BY DEF BookLists
<1>3. CASE ~out_valid
  <2>1. \A i \in BookIdx : books'[i] = HoldBook(books[i])
    BY <1>1, <1>3
  <2>2. \A i \in BookIdx : /\ BookShaped(books'[i]) /\ BookOK(books'[i])
                          /\ Sides(books'[i]) = Sides(books[i]) /\ books'[i].upd_valid = FALSE
    BY <2>1, HoldKeeps DEF BooksInv
  <2>3. last_book_idx_q' = last_book_idx_q /\ last_book_idx_q \in BookIdx
    BY <1>3 DEF UpdateMux, BooksInv
  <2>4. BookLists' = BookLists
    BY <1>2, <2>2 DEF BookLists, Tracked
  <2>5. ~upd_valid'
    BY <2>2, <2>3 DEF upd_valid
  <2>6. Shown' = << >>
    BY <2>5 DEF Shown
  <2>7. Applied(Unseen(BookLists)) = [books |-> BookLists', events |-> Shown']
    BY <1>3, <2>4, <2>6 DEF Applied, Unseen
  <2> QED
    BY <2>2, <2>3, <2>7
<1>4. CASE out_valid
  <2>1. PICK i0, op, b, c : i0 = out_op.book_idx /\ op = out_op /\ b = books[i0]
                            /\ c = ApplyOp(b, op)
    OBVIOUS
  <2>2. i0 \in Tracked /\ i0 \in BookIdx /\ op \in Op /\ BookOK(b) /\ op.book_idx = i0
    BY <1>4, <2>1 DEF BooksInv, Tracked, IndInv, TypeInv, TypeOK
  <2>3. OpFits(b, op)
    BY <1>4, <2>1 DEF SumsFit
  <2>4. Does(b, op, c) /\ BookShaped(c)
    BY <2>1, <2>2, <2>3, BookDoes, ApplyShaped
  <2>5. books'[i0] = c /\ \A i \in BookIdx : i # i0 => books'[i] = HoldBook(books[i])
    BY <1>1, <1>4, <2>1, <2>2
  <2>6. \A i \in BookIdx : i # i0 => /\ BookShaped(books'[i]) /\ BookOK(books'[i])
                                     /\ Sides(books'[i]) = Sides(books[i])
    BY <2>5, HoldKeeps DEF BooksInv
  <2>7. \A i \in BookIdx : BookShaped(books'[i]) /\ BookOK(books'[i])
    BY <2>4, <2>5, <2>6 DEF Does
  <2>8. last_book_idx_q' = i0
    BY <1>4, <2>1 DEF UpdateMux
  <2>9. PICK S, out, new : S = Unseen(BookLists) /\ new = Sides(c) /\ out = Called(Sides(b), op)
    OBVIOUS
  <2>10. S.books = BookLists /\ S.books[i0] = Sides(b) /\ S.events = << >>
    BY <2>1, <2>2, <2>9 DEF Unseen, BookLists
  <2>11. After(Sides(b), op) = new
    BY <2>4, <2>9 DEF Does
  <2>12. BookLists' = [BookLists EXCEPT ![i0] = new]
    <3>1. \A i \in Tracked : Sides(books'[i]) = IF i = i0 THEN new ELSE BookLists[i]
      BY <2>5, <2>6, <2>9 DEF BookLists, Tracked
    <3>2. BookLists = [i \in Tracked |-> BookLists[i]]
      BY DEF BookLists
    <3>3. [BookLists EXCEPT ![i0] = new] = [i \in Tracked |-> IF i = i0 THEN new ELSE BookLists[i]]
      BY <3>2
    <3> QED
      BY <1>2, <3>1, <3>3
  <2>13. Shown' = IF out.changed THEN <<Event(i0, new)>> ELSE << >>
    <3>1. upd_valid' = c.upd_valid /\ upd' = c.upd
      BY <2>5, <2>8 DEF upd_valid, upd
    <3>2. c.upd_valid = out.changed /\ c.upd_valid \in BOOLEAN
      BY <2>4, <2>9 DEF Does
    <3>3. CASE out.changed
      <4>1. /\ Values(upd.bid)' = Model!Padded(new.bid)
            /\ Values(upd.ask)' = Model!Padded(new.ask)
        <5>1. /\ Values(c.upd.bid) = Model!Padded(new.bid)
              /\ Values(c.upd.ask) = Model!Padded(new.ask)
          BY <2>4, <2>9, <3>2, <3>3 DEF Does
        <5> QED
          BY <3>1, <5>1 DEF Values
      <4> QED
        BY <2>8, <3>1, <3>2, <3>3, <4>1 DEF Shown, Event
    <3>4. CASE ~out.changed
      BY <3>1, <3>2, <3>4 DEF Shown
    <3> QED
      BY <3>3, <3>4
  <2>14. Do(S, op) = [books |-> BookLists', events |-> Shown']
    <3>1. Do(S, op) = [books |-> [BookLists EXCEPT ![i0] = new],
                       events |-> IF out.changed THEN Append(<< >>, Event(i0, new)) ELSE << >>]
      BY <2>2, <2>9, <2>10, <2>11 DEF Do
    <3>2. Append(<< >>, Event(i0, new)) = <<Event(i0, new)>>
      OBVIOUS
    <3> QED
      BY <2>12, <2>13, <3>1, <3>2
  <2>15. Applied(Unseen(BookLists)) = Do(S, op)
    BY <1>4, <2>1, <2>9 DEF Applied
  <2> QED
    BY <2>2, <2>7, <2>8, <2>14, <2>15
<1> QED
  BY <1>3, <1>4

\* A request is one of the four kinds.
LEMMA TodoTyped ==
  ASSUME IndInv, MappedTodo # Nothing
  PROVE  MappedTodo \in Todo
<1>1. state_q \in {"S_CLEAR", "S_IDLE", "S_LOOK", "S_INS"} /\ TypeInv
  BY DEF IndInv, TypeInv, TypeOK
<1>2. CASE state_q \in {"S_CLEAR", "S_IDLE"}
  BY <1>2 DEF MappedTodo
<1> QED
  BY <1>1, <1>2, PutTodo, LookTodo

\* An order put in or taken out leaves a dictionary.
LEMMA StillDictionary ==
  ASSUME NEW f, Dictionary(f), NEW id
  PROVE  /\ \A o \in Resting : Dictionary(Dict!With(f, id, o))
         /\ Dictionary(Dict!Without(f, id))
<1>1. ASSUME NEW o \in Resting PROVE Dictionary(Dict!With(f, id, o))
  BY <1>1 DEF Dictionary, Dict!With
<1>2. Dictionary(Dict!Without(f, id))
  BY DEF Dictionary, Dict!Without, Dict!Restrict
<1> QED
  BY <1>1, <1>2

\* And fewer shares of one.
LEMMA LoweredDictionary ==
  ASSUME NEW f, Dictionary(f), NEW id \in DOMAIN f, NEW n \in Shares, ~(f[id].shares <= n)
  PROVE  Dictionary([f EXCEPT ![id].shares = @ - n])
<1>1. PICK g : g = [f EXCEPT ![id].shares = @ - n]
  OBVIOUS
<1>2. /\ f = [x \in DOMAIN f |-> f[x]] /\ f[id] \in Resting
      /\ \A x \in DOMAIN f : f[x] \in Resting
  BY DEF Dictionary
<1>3. f[id].shares - n \in Shares
  BY <1>2, DataAssumption DEF Resting, Shares
<1>4. [f[id] EXCEPT !.shares = @ - n] \in Resting
  BY <1>2, <1>3 DEF Resting
<1>5. g = [x \in DOMAIN f |-> IF x = id THEN [f[id] EXCEPT !.shares = @ - n] ELSE f[x]]
  BY <1>1, <1>2
<1>6. g = [x \in DOMAIN g |-> g[x]] /\ \A x \in DOMAIN g : g[x] \in Resting
  BY <1>2, <1>4, <1>5
<1> QED
  BY <1>1, <1>6 DEF Dictionary

\* An edge without a message keeps orders of configured books, in the table, in
\* the request and in the operation.
LEMMA OrdersStep ==
  ASSUME ~ReuseIds, IndInv, IndInv', FreshInv, FreshInv', BusyStep \/ Idle, ~InsFull, OrdersInv
  PROVE  OrdersInv' /\ (out_valid' => out_op'.book_idx \in Tracked)
<1>1. PICK f, t, g, u, v, op : /\ f = MappedOrders /\ t = MappedTodo /\ g = MappedOrders'
                               /\ u = MappedTodo' /\ v = out_valid' /\ op = out_op'
  OBVIOUS
<1>2. Dictionary(f) /\ (t # Nothing /\ t.do = "put" => t.order \in Resting)
  BY <1>1 DEF OrdersInv
<1>3. t # Nothing => t \in Todo
  BY <1>1, TodoTyped
<1>4. SUFFICES /\ Dictionary(g) /\ (u # Nothing /\ u.do = "put" => u.order \in Resting)
               /\ v => op.book_idx \in Tracked
  BY <1>1 DEF OrdersInv, Dictionary
<1>5. CASE (Dict!Pause \/ Dict!Miss) /\ ~out_valid'
  <2>1. g = f /\ u \in {t, Nothing} /\ ~v
    BY <1>1, <1>5 DEF Dict!Pause, Dict!Miss
  <2> QED
    BY <1>2, <2>1
<1>6. CASE Dict!DoPut /\ out_valid'
  <2>1. /\ t # Nothing /\ t.do = "put" /\ g = Dict!With(f, t.id, t.order)
        /\ op = AddOp(t.order) /\ u = Nothing
    BY <1>1, <1>6 DEF Dict!DoPut, AddOp
  <2>2. op.book_idx = t.order.book_idx
    BY <2>1 DEF AddOp, Dict!BookOp
  <2> QED
    BY <1>2, <2>1, <2>2, StillDictionary DEF Resting
<1>7. CASE Dict!DoTake /\ out_valid'
  <2>1. /\ t # Nothing /\ t.do = "take" /\ t.id \in DOMAIN f
        /\ g = (IF f[t.id].shares <= t.shares THEN Dict!Without(f, t.id)
                ELSE [f EXCEPT ![t.id].shares = @ - t.shares])
        /\ op = ReduceOp(f[t.id], t.shares) /\ u = Nothing
    BY <1>1, <1>7 DEF Dict!DoTake, ReduceOp
  <2>2. t.shares \in Shares
    BY <1>3, <2>1 DEF Todo
  <2>3. Dictionary(g)
    BY <1>2, <2>1, <2>2, StillDictionary, LoweredDictionary
  <2>4. f[t.id] \in Resting /\ op.book_idx = f[t.id].book_idx
    BY <1>2, <2>1 DEF Dictionary, ReduceOp, Dict!BookOp
  <2> QED
    BY <2>1, <2>3, <2>4 DEF Resting
<1>8. CASE Dict!DoPop /\ out_valid'
  <2>1. /\ t # Nothing /\ t.do \in {"pop", "popput"} /\ t.id \in DOMAIN f
        /\ g = Dict!Without(f, t.id)
        /\ op = ReduceOp(f[t.id], f[t.id].shares)
        /\ u = IF t.do = "pop" THEN Nothing
               ELSE [do |-> "put", id |-> t.new, order |-> Moved(f[t.id], t)]
    BY <1>1, <1>8 DEF Dict!DoPop, ReduceOp, Dict!Put, Moved
  <2>2. f[t.id] \in Resting /\ op.book_idx = f[t.id].book_idx
    BY <1>2, <2>1 DEF Dictionary, ReduceOp, Dict!BookOp
  <2>3. t.do = "popput" => Moved(f[t.id], t) \in Resting
    BY <1>3, <2>1, <2>2 DEF Todo, Moved, Resting
  <2>4. Dictionary(g)
    BY <1>2, <2>1, StillDictionary
  <2>5. op.book_idx \in Tracked
    BY <2>2 DEF Resting
  <2>6. u # Nothing /\ u.do = "put" => u.order \in Resting
    BY <2>1, <2>3
  <2> QED
    BY <2>4, <2>5, <2>6
<1> QED
  BY <1>5, <1>6, <1>7, <1>8, RouterDoes

\* The event on the port is a list of one or none.
LEMMA ShownListed == Listed(Shown') /\ Shown' \o << >> = Shown'
<1>1. PICK e, T : /\ e = [symbol_idx |-> last_book_idx_q, bid |-> Values(upd.bid),
                          ask |-> Values(upd.ask)]'
                  /\ T = {e}
  OBVIOUS
<1>2. Shown' \in Seq(T)
  <2>1. Shown' = <<e>> \/ Shown' = << >>
    BY <1>1 DEF Shown
  <2>2. e \in T
    BY <1>1
  <2>3. <<e>> \in Seq(T) /\ << >> \in Seq(T)
    BY <2>2
  <2> QED
    BY <2>1, <2>3
<1>3. Shown' \o << >> = Shown'
  BY <1>2, ConcatEmptySeq
<1> QED
  BY <1>2, <1>3 DEF Listed

\* No events are a list.
LEMMA NothingListed == Listed(<< >>)
<1>1. << >> \in Seq({})
  OBVIOUS
<1> QED
  BY <1>1 DEF Listed

\* An edge without a message: the events to come are the one now shown and
\* those still to come.
LEMMA WalkSimulates ==
  ASSUME ~ReuseIds, IndInv, IndInv', FreshInv, FreshInv', BusyStep \/ Idle, ~InsFull,
         Applied(Unseen(BookLists)) = [books |-> BookLists', events |-> Shown']
  PROVE  /\ Coming = Led(Shown', Coming') /\ Listed(Coming'.events)
         /\ Orders(MappedOrders, MappedTodo) = Orders(MappedOrders', MappedTodo')
         /\ Drops(MappedOrders, MappedTodo, drop_count) =
              Drops(MappedOrders', MappedTodo', drop_count')
<1>1. PICK A, B, f, t, g, u :
        /\ A = Shown' /\ B = BookLists' /\ f = MappedOrders /\ t = MappedTodo
        /\ g = MappedOrders' /\ u = MappedTodo'
  OBVIOUS
<1>2. PICK S, U : S = [books |-> B, events |-> A] /\ U = Unseen(B)
  OBVIOUS
<1>3. Listed(A) /\ Listed(U.events) /\ S = Led(A, U)
  BY <1>1, <1>2, ShownListed, NothingListed DEF Led, Unseen
<1>4. PICK V : V = Applied(U)'
  OBVIOUS
<1>5. Applied(S)' = Led(A, V) /\ Listed(V.events)
  <2>1. Applied(Led(A, U))' = Led(A, Applied(U)') /\ Listed(Applied(U)'.events)
    BY <1>3, AppliedLed
  <2>2. Applied(S)' = Applied(Led(A, U))'
    BY <1>3 DEF Applied
  <2> QED
    BY <1>4, <2>1, <2>2
<1>6. Continues(S)
  BY RouterContinues
<1>7. Coming = Market(S, f, t)
  BY <1>1, <1>2 DEF Coming
<1>8. Coming' = Market(V, g, u)
  <2>1. Applied(Unseen(BookLists))' = V
    BY <1>1, <1>2, <1>4 DEF Applied, Unseen
  <2> QED
    BY <1>1, <2>1 DEF Coming
<1>9. Market(S, f, t) = Market(Led(A, V), g, u)
  BY <1>1, <1>5, <1>6 DEF Continues
<1>10. Market(Led(A, V), g, u) = Led(A, Market(V, g, u)) /\ Listed(Market(V, g, u).events)
  BY <1>3, <1>5, MarketLed, MarketListed
<1> QED
  BY <1>1, <1>6, <1>7, <1>8, <1>9, <1>10 DEF Continues

\* Without its events the golden model is the same.
LEMMA QuietGolden ==
  ASSUME NEW M, NEW S, NEW f, NEW c, Golden(M, S, f, c)
  PROVE  Golden(Quietly(M), Unseen(S.books), f, c)
<1>1. PICK N : N = Quietly(M)
  OBVIOUS
<1>2. N = [books |-> M.books, orders |-> M.orders, drops |-> M.drops, events |-> << >>]
  BY <1>1 DEF Quietly, Golden, Shaped
<1>3. Shaped(N) /\ GoldenBooks(N) = GoldenBooks(M)
  BY <1>2 DEF Golden, Shaped, GoldenBooks
<1>4. Unseen(S.books).books = S.books /\ Unseen(S.books).events = << >>
  BY DEF Unseen
<1>5. Golden(N, Unseen(S.books), f, c)
  BY <1>2, <1>3, <1>4 DEF Golden
<1> QED
  BY <1>1, <1>5

\* The router takes the request that the message is.
LEMMA AcceptRequests ==
  ASSUME NEW m \in Msg, m.kind # "SYSTEM", Accept(m)
  PROVE  /\ state_q = "S_IDLE" /\ MappedTodo = Nothing
         /\ MappedOrders' = MappedOrders /\ MappedTodo' = RequestOf(m)
         /\ drop_count' = Untracked(m, drop_count) /\ ~out_valid'
<1>1. state_q = "S_IDLE" /\ Swept /\ Swept' /\ mem' = mem /\ ~out_valid'
  BY DEF Accept, AcceptUntracked, AcceptAdd, AcceptLookup, StartProbe, Swept, MemWrite, WrEn,
         Quiet
<1>2. MappedOrders' = MappedOrders /\ MappedTodo = Nothing
  BY <1>1, SameOrders DEF MappedTodo
<1>3. CASE AcceptUntracked(m)
  <2>1. MappedTodo' = Nothing
    BY <1>3, NoTodoNext DEF AcceptUntracked
  <2>2. Untracks(m) /\ drop_count' = (drop_count + 1) % CountMod
    BY <1>3 DEF AcceptUntracked, Untracks, Count
  <2> QED
    BY <1>1, <1>2, <2>1, <2>2 DEF RequestOf, Untracked
<1>4. CASE AcceptAdd(m)
  <2>1. /\ state_q' = "S_INS" /\ drop_count' = drop_count
        /\ m.kind = "ADD" /\ ~Untracks(m)
        /\ req_q' = [kind |-> "ADD", oid |-> m.order_id, ins_id |-> m.order_id,
                     shares |-> m.shares, price |-> m.price,
                     idx |-> SymIdx(m.symbol), side |-> m.side]
    BY <1>4 DEF AcceptAdd, StartProbe, counters, Untracks
  <2>2. MappedTodo' = [do |-> "put", id |-> m.order_id, order |-> NewOrder(m)]
    BY <2>1 DEF MappedTodo, NewOrder
  <2> QED
    BY <1>1, <1>2, <2>1, <2>2 DEF RequestOf, Untracked
<1>5. CASE AcceptLookup(m)
  <2>1. /\ state_q' = "S_LOOK" /\ drop_count' = drop_count
        /\ m.kind \in {"EXEC", "CANCEL", "DELETE", "REPLACE"} /\ ~Untracks(m)
        /\ req_q'.kind = m.kind /\ req_q'.oid = m.order_id /\ req_q'.ins_id = m.new_order_id
        /\ req_q'.shares = m.shares /\ req_q'.price = m.price
    BY <1>5 DEF AcceptLookup, StartProbe, counters, Untracks
  <2>2. MappedTodo' = RequestOf(m)
    <3>1. CASE m.kind \in {"EXEC", "CANCEL"}
      BY <2>1, <3>1 DEF MappedTodo, RequestOf, Reduces
    <3>2. CASE m.kind = "DELETE"
      BY <2>1, <3>2 DEF MappedTodo, RequestOf, Reduces
    <3>3. CASE m.kind = "REPLACE"
      BY <2>1, <3>3 DEF MappedTodo, RequestOf, Reduces
    <3> QED
      BY <2>1, <3>1, <3>2, <3>3
  <2> QED
    BY <1>1, <1>2, <2>1, <2>2 DEF Untracked
<1> QED
  BY <1>3, <1>4, <1>5 DEF Accept

\* An edge with a message for the table: the golden model handles it at once,
\* the pipeline has it before it.
LEMMA AcceptSimulates ==
  ASSUME DistinctSymbols, NEW m \in Msg, m.kind # "SYSTEM", Accept(m), OrdersInv, GoldenInv,
         golden' = Model!OnMessage(golden, m),
         Applied(Unseen(BookLists)) = [books |-> BookLists', events |-> Shown']
  PROVE  /\ Coming.events = Shown' /\ golden'.events = Coming'.events
         /\ OrdersInv' /\ GoldenInv'
<1>1. PICK A, B, f, t, c, M, N :
        /\ A = Shown' /\ B = BookLists' /\ f = MappedOrders /\ t = RequestOf(m)
        /\ c = drop_count /\ M = golden /\ N = golden'
  OBVIOUS
<1>2. /\ MappedTodo = Nothing /\ MappedOrders' = f /\ MappedTodo' = t
      /\ drop_count' = Untracked(m, c) /\ ~out_valid'
  BY <1>1, AcceptRequests
<1>3. Coming.books = B /\ Coming.events = A
  BY <1>1, <1>2 DEF Coming, Market
<1>4. Golden([M EXCEPT !.events = << >>], Unseen(B), f, c)
  BY <1>1, <1>2, <1>3 DEF GoldenInv, Quietly, Orders, Drops
<1>5. Dictionary(f)
  BY <1>1 DEF OrdersInv
<1>6. N = Model!OnMessage(M, m)
  BY <1>1
<1>7. PICK K : K = Market(Unseen(B), f, t)
  OBVIOUS
<1>8. Golden(N, K, Orders(f, t), Drops(f, t, Untracked(m, c)))
  BY <1>1, <1>4, <1>5, <1>6, <1>7, MessageDoes
<1>9. Coming' = K
  <2>1. Applied(Unseen(BookLists))' = Unseen(B)
    BY <1>1, <1>2 DEF Applied, Unseen
  <2> QED
    BY <1>2, <1>7, <2>1 DEF Coming
<1>10. N.events = Coming'.events
  BY <1>8, <1>9 DEF Golden
<1>11. GoldenInv'
  <2>1. Golden(Quietly(N), Unseen(K.books), Orders(f, t), Drops(f, t, Untracked(m, c)))
    BY <1>8, QuietGolden
  <2>2. PICK o, d : o = Orders(f, t) /\ d = Drops(f, t, Untracked(m, c))
    OBVIOUS
  <2>3. /\ Quietly(golden)' = Quietly(N) /\ Unseen(Coming.books)' = Unseen(K.books)
        /\ Orders(MappedOrders, MappedTodo)' = o
        /\ Drops(MappedOrders, MappedTodo, drop_count)' = d
    BY <1>1, <1>2, <1>9, <2>2 DEF Quietly, Unseen, Orders, Drops
  <2> QED
    BY <2>1, <2>2, <2>3 DEF GoldenInv, Golden, Shaped, GoldenBooks, Named
<1>12. OrdersInv'
  <2>1. t # Nothing /\ t.do = "put" => t.order \in Resting
    <3>1. SUFFICES ASSUME t # Nothing, t.do = "put" PROVE t.order \in Resting
      OBVIOUS
    <3>2. m.kind = "ADD" /\ ~Untracks(m) /\ t.order = NewOrder(m)
      BY <1>1, <3>1 DEF RequestOf
    <3> QED
      BY <3>2, RequestTyped
  <2> QED
    BY <1>2, <1>5, <2>1 DEF OrdersInv, Dictionary
<1> QED
  BY <1>1, <1>3, <1>10, <1>11, <1>12

\* The first of a list and the rest.
LEMMA ShownFirst ==
  ASSUME NEW x, NEW e, Listed(e)
  PROVE  /\ <<x>> \o e # << >> /\ Head(<<x>> \o e) = x /\ Tail(<<x>> \o e) = e
         /\ << >> \o e = e /\ e \o << >> = e
<1>1. PICK T : e \in Seq(T)
  BY DEF Listed
<1>2. PICK V : V = T \cup {x}
  OBVIOUS
<1>3. e \in Seq(V) /\ x \in V
  BY <1>1, <1>2, WiderList
<1>4. <<x>> \in Seq(V)
  BY <1>3
<1>5. << >> \o e = e /\ e \o << >> = e
  BY <1>3, ConcatEmptySeq
<1>6. PICK s : s = <<x>> \o e
  OBVIOUS
<1>7. /\ s \in Seq(V) /\ Len(s) = 1 + Len(e) /\ s[1] = x
      /\ \A i \in 1 .. Len(e) : s[i + 1] = e[i]
  BY <1>3, <1>4, <1>6, ConcatProperties
<1>8. s # << >> /\ Head(s) = x
  BY <1>3, <1>7
<1>9. Tail(s) = e
  <2>1. /\ Tail(s) \in Seq(V) /\ Len(Tail(s)) = Len(e)
        /\ \A i \in 1 .. Len(Tail(s)) : Tail(s)[i] = s[i + 1]
    BY <1>3, <1>7, <1>8, HeadTailProperties
  <2>2. \A i \in 1 .. Len(Tail(s)) : Tail(s)[i] = e[i]
    BY <1>7, <2>1
  <2> QED
    BY <1>3, <2>1, <2>2, SeqEqual
<1> QED
  BY <1>5, <1>6, <1>8, <1>9

\* What the scoreboard takes off is the event shown.
LEMMA ShownTaken ==
  ASSUME PendingInv
  PROVE  /\ Listed(Coming.events)
         /\ Coming.events = IF upd_valid /\ expected # << >> THEN Tail(expected) ELSE expected
         /\ upd_valid => expected # << >> /\ <<Head(expected)>> = Shown
<1>1. PICK S, e : S = Applied(Unseen(BookLists)) /\ e = Coming.events
  OBVIOUS
<1>2. Listed(S.events)
  BY <1>1, NothingListed, DoListed DEF Applied, Unseen
<1>3. Listed(e)
  BY <1>1, <1>2, MarketListed DEF Coming
<1>4. expected = Shown \o e
  BY <1>1 DEF PendingInv
<1>5. CASE upd_valid
  <2>1. PICK x : Shown = <<x>>
    BY <1>5 DEF Shown
  <2> QED
    BY <1>1, <1>3, <1>4, <1>5, <2>1, ShownFirst
<1>6. CASE ~upd_valid
  <2>1. Shown = << >>
    BY <1>6 DEF Shown
  <2>2. expected = e
    BY <1>3, <1>4, <2>1, ShownFirst
  <2> QED
    BY <1>1, <1>3, <1>6, <2>2
<1> QED
  BY <1>5, <1>6

\* The feed vouches for the message on the port.
LEMMA PortIsFresh ==
  ASSUME IndInv, GoldenInv, FeedInv, dec_valid, Accept(dec_msg)
  PROVE  FeedAllows(dec_msg)
<1>1. state_q = "S_IDLE"
  BY DEF Accept, AcceptUntracked, AcceptAdd, AcceptLookup
<1>2. MappedTodo = Nothing /\ DOMAIN MappedOrders = LiveIds
  BY <1>1 DEF MappedTodo, MappedOrders, Swept
<1>3. Quietly(golden).orders = Named(MappedOrders)
  BY <1>2 DEF GoldenInv, Golden, Orders
<1>4. Quietly(golden).orders = golden.orders
  BY DEF GoldenInv, Golden, Shaped, Quietly
<1>5. DOMAIN golden.orders = LiveIds
  BY <1>2, <1>3, <1>4 DEF Named
<1> QED
  BY <1>5 DEF FeedInv, FreshId, FeedAllows

\* The edge of the pipeline, seen from the router.
LEMMA EdgeCases ==
  ASSUME NoMessageWhileBusy, Edge
  PROVE  \/ dec_valid /\ dec_msg.kind # "SYSTEM" /\ Accept(dec_msg)
         \/ (BusyStep \/ Idle) /\ ~(dec_valid /\ dec_msg.kind # "SYSTEM")
<1>1. BusyStep => busy
  BY DEF BusyStep, Clear, LookHit, LookMiss, LookNext, InsWrite, InsFull, InsNext, busy
<1> QED
  BY <1>1 DEF Edge, Clock, NoMessageWhileBusy

\* No edge of the pipeline leads to a second entry under one id.
LEMMA FreshEdge ==
  ASSUME PortInv, PortInv', FreshInv, GoldenInv, FeedInv, Edge
  PROVE  FreshInv'
<1>1. CASE dec_valid /\ Accept(dec_msg)
  <2>1. FeedAllows(dec_msg) /\ dec_msg \in Msg
    BY <1>1, PortIsFresh DEF PortInv, GapInv
  <2> QED
    BY <1>1, <2>1, FreshAccept DEF PortInv
<1>2. CASE BusyStep \/ Idle
  <2>1. Next
    BY <1>2 DEF Next
  <2> QED
    BY <2>1, FreshStep DEF PortInv
<1> QED
  BY <1>1, <1>2, EdgeCases DEF PortInv

\* The feed vouches for the message when it sends it, and the dictionary has not
\* moved since.
LEMMA FeedStep ==
  ASSUME PortInv, FeedInv, Edge
  PROVE  FeedInv'
<1>1. SUFFICES ASSUME dec_valid' PROVE FreshId(dec_msg)'
  BY DEF FeedInv
<1>2. PICK m \in Feed : since + 1 >= Gap(m) /\ FreshId(m) /\ dec_msg' = m
  BY <1>1 DEF Edge, DecoderIdle, DecoderMessage
<1>3. Gap(m) \in Nat /\ Gap(m) >= 2
  BY FeedAssumption DEF Gap
<1>4. ~dec_valid
  <2>1. dec_valid => since = 0
    BY DEF PortInv, GapInv
  <2> QED
    BY <1>2, <1>3, <2>1
<1>5. golden' = golden
  BY <1>4 DEF Edge, Scoreboard
<1> QED
  BY <1>2, <1>5 DEF FreshId

\* No clock edge parts the two.
LEMMA SimEdge ==
  ASSUME ~ReuseIds, DistinctSymbols, PortInv, PortInv', SimInv, SumsFit, ~InsFull, Edge
  PROVE  SimInv'
<1>1. /\ IndInv /\ IndInv' /\ NoMessageWhileBusy
      /\ FreshInv /\ BooksInv /\ OrdersInv /\ GoldenInv /\ PendingInv /\ FeedInv
  BY DEF PortInv, SimInv
<1>2. FreshInv' /\ FeedInv'
  BY <1>1, FreshEdge, FeedStep
<1>3. /\ \A i \in BookIdx : BookShaped(books'[i]) /\ BookOK(books'[i])
      /\ last_book_idx_q' \in BookIdx
      /\ Applied(Unseen(BookLists)) = [books |-> BookLists', events |-> Shown']
  BY <1>1, BooksStep DEF Edge
<1>4. (out_valid' => out_op'.book_idx \in Tracked) => BooksInv'
  BY <1>3 DEF BooksInv, BookShaped, BookOK
<1>5. /\ Listed(Coming.events)
      /\ Coming.events = IF upd_valid /\ expected # << >> THEN Tail(expected) ELSE expected
  BY <1>1, ShownTaken
<1>6. CASE dec_valid /\ dec_msg.kind # "SYSTEM" /\ Accept(dec_msg)
  <2>1. dec_msg \in Msg /\ golden' = Model!OnMessage(golden, dec_msg)
    BY <1>1, <1>6 DEF Edge, Scoreboard, PortInv, GapInv
  <2>2. /\ Coming.events = Shown' /\ golden'.events = Coming'.events
        /\ OrdersInv' /\ GoldenInv'
    BY <1>1, <1>3, <1>6, <2>1, AcceptSimulates
  <2>3. ~out_valid'
    BY <1>6, <2>1, AcceptRequests
  <2>4. expected' = Coming.events \o golden'.events
    BY <1>5, <1>6 DEF Edge, Scoreboard
  <2>5. PendingInv'
    BY <2>2, <2>4 DEF PendingInv
  <2> QED
    BY <1>2, <1>4, <2>2, <2>3, <2>5 DEF SimInv
<1>7. CASE (BusyStep \/ Idle) /\ ~(dec_valid /\ dec_msg.kind # "SYSTEM")
  <2>1. OrdersInv' /\ (out_valid' => out_op'.book_idx \in Tracked)
    BY <1>1, <1>2, <1>7, OrdersStep
  <2>2. /\ Coming = Led(Shown', Coming')
        /\ Orders(MappedOrders, MappedTodo) = Orders(MappedOrders', MappedTodo')
        /\ Drops(MappedOrders, MappedTodo, drop_count) =
             Drops(MappedOrders', MappedTodo', drop_count')
    BY <1>1, <1>2, <1>3, <1>7, WalkSimulates
  <2>3. Coming.books = Coming'.books /\ Coming.events = Shown' \o Coming'.events
    BY <2>2 DEF Led
  <2>4. Quietly(golden)' = Quietly(golden) /\ expected' = Coming.events
    <3>1. CASE ~dec_valid
      BY <1>5, <3>1 DEF Edge, Scoreboard, Quietly
    <3>2. CASE dec_valid /\ dec_msg.kind = "SYSTEM"
      <4>1. golden' = Quietly(golden)
        BY <3>2 DEF Edge, Scoreboard, Model!OnMessage, Quietly
      <4>2. golden'.events = << >>
        BY <1>1, <4>1 DEF GoldenInv, Golden, Unseen
      <4>3. expected' = Coming.events \o << >>
        BY <1>5, <3>2, <4>2 DEF Edge, Scoreboard
      <4>4. Coming.events \o << >> = Coming.events
        BY <1>5, ShownFirst
      <4>5. Quietly(golden)' = Quietly(golden)
        BY <4>1 DEF Quietly
      <4> QED
        BY <4>3, <4>4, <4>5
    <3> QED
      BY <1>7, <3>1, <3>2
  <2>5. PendingInv'
    BY <2>3, <2>4 DEF PendingInv
  <2>6. GoldenInv'
    <3>1. PICK Q, B, o, d : /\ Q = Quietly(golden) /\ B = Coming.books
                            /\ o = Orders(MappedOrders, MappedTodo)
                            /\ d = Drops(MappedOrders, MappedTodo, drop_count)
      OBVIOUS
    <3>2. Golden(Q, Unseen(B), o, d)
      BY <1>1, <3>1 DEF GoldenInv
    <3>3. /\ Quietly(golden)' = Q /\ Unseen(Coming.books)' = Unseen(B)
          /\ Orders(MappedOrders, MappedTodo)' = o
          /\ Drops(MappedOrders, MappedTodo, drop_count)' = d
      BY <2>2, <2>3, <2>4, <3>1 DEF Unseen, Orders, Drops
    <3> QED
      BY <3>2, <3>3 DEF GoldenInv, Golden, Shaped, GoldenBooks, Named
  <2> QED
    BY <1>2, <1>4, <2>1, <2>5, <2>6 DEF SimInv
<1> QED
  BY <1>1, <1>6, <1>7, EdgeCases

\* Reset books and a new golden model.
LEMMA StartOver ==
  ASSUME NEW B, B = [i \in Tracked |-> Sides(ResetBook)]
  PROVE  /\ BookShaped(ResetBook) /\ BookOK(ResetBook)
         /\ Golden(Quietly(Model!NewModel), Unseen(B), << >>, 0)
<1>1. EmptySide = PB!EmptySide
  BY DEF EmptySide, PB!EmptySide, Level, PB!Level, NoLevel, PB!NoLevel
<1>2. /\ PB!EmptySide \in PB!SideState /\ PB!ListOf(PB!EmptySide) = << >>
      /\ \A side \in {PB!Bid, PB!Ask} : PB!WellFormed(side, PB!EmptySide)
  <2>1. PB!NoLevel \in PB!LevelState
    BY BookConstants, PB!ZeroLevel
  <2>2. PB!EmptySide \in PB!SideState
    BY <2>1 DEF PB!EmptySide, PB!SideState
  <2> QED
    BY <2>2, BookConstants, PB!EmptyIsWellFormed, PB!EmptyList
<1>3. /\ ResetBook.bid = EmptySide /\ ResetBook.ask = EmptySide /\ BookShaped(ResetBook)
  BY DEF ResetBook, BookShaped
<1>4. BookOK(ResetBook) /\ Sides(ResetBook) = [bid |-> << >>, ask |-> << >>]
  BY <1>1, <1>2, <1>3, SameSides DEF BookOK, Sides
<1>5. PICK C, N : /\ C = [s \in Model!Configured |-> Model!EmptyBook]
                  /\ N = Quietly(Model!NewModel)
  OBVIOUS
<1>6. N = [books |-> C, orders |-> << >>, drops |-> 0, events |-> << >>]
  BY <1>5 DEF Quietly, Model!NewModel
<1>7. Shaped(N)
  BY <1>5, <1>6 DEF Shaped
<1>8. GoldenBooks(N) = B
  <2>1. ASSUME NEW i \in Tracked
        PROVE  [bid |-> C[SYMBOLS[i]].bid, ask |-> C[SYMBOLS[i]].ask] = Sides(ResetBook)
    <3>1. SYMBOLS[i] \in Model!Configured
      BY DEF Tracked, Model!Configured, BookIdx
    <3>2. C[SYMBOLS[i]] = Model!EmptyBook
      BY <1>5, <3>1
    <3> QED
      BY <1>4, <3>2 DEF Model!EmptyBook
  <2> QED
    BY <1>6, <2>1 DEF GoldenBooks
<1>9. Named(<< >>) = << >>
  <2>1. DOMAIN << >> = {}
    OBVIOUS
  <2> QED
    BY <2>1 DEF Named
<1> QED
  BY <1>3, <1>4, <1>5, <1>6, <1>7, <1>8, <1>9 DEF Golden, Unseen

\* The empty dictionary.
LEMMA NoOrders == Dictionary(<< >>)
  BY DEF Dictionary

\* They start together.
LEMMA SimInit == InitTop => SimInv
<1> SUFFICES ASSUME InitTop PROVE SimInv
  OBVIOUS
<1>1. /\ state_q = "S_CLEAR" /\ ~out_valid /\ drop_count = 0 /\ ~dec_valid
      /\ books = [i \in BookIdx |-> ResetBook] /\ last_book_idx_q = 0
      /\ golden = Model!NewModel /\ expected = << >>
  BY DEF InitTop, Init
<1>2. MappedTodo = Nothing /\ MappedOrders = << >>
  BY <1>1 DEF MappedTodo, MappedOrders, Swept
<1>3. FreshInv /\ OrdersInv
  BY <1>1, <1>2, NoOrders DEF FreshInv, NoDuplicateOrder, Swept, OrdersInv
<1>4. PICK B : B = [i \in Tracked |-> Sides(ResetBook)]
  OBVIOUS
<1>5. /\ BookShaped(ResetBook) /\ BookOK(ResetBook)
      /\ Golden(Quietly(Model!NewModel), Unseen(B), << >>, 0)
  BY <1>4, StartOver
<1>6. 0 \in BookIdx
  BY FilterAssumption DEF BookIdx
<1>7. BooksInv
  BY <1>1, <1>5, <1>6 DEF BooksInv
<1>8. BookLists = B
  BY <1>1, <1>4 DEF BookLists, Tracked
<1>9. Coming = Unseen(B)
  BY <1>1, <1>2, <1>8 DEF Coming, Applied, Market
<1>10. Coming.books = B /\ Coming.events = << >>
  BY <1>9 DEF Unseen
<1>11. GoldenInv
  BY <1>1, <1>2, <1>5, <1>10 DEF GoldenInv, Orders, Drops
<1>12. ~upd_valid
  BY <1>1, <1>6 DEF upd_valid, ResetBook
<1>13. PendingInv
  BY <1>1, <1>10, <1>12, NothingListed, ShownFirst DEF PendingInv, Shown
<1> QED
  BY <1>1, <1>3, <1>7, <1>11, <1>13 DEF SimInv, FeedInv

\* They start over together.
LEMMA SimReset == ASSUME ResetTop PROVE SimInv'
<1>1. /\ state_q' = "S_CLEAR" /\ ~out_valid' /\ drop_count' = 0 /\ ~dec_valid'
      /\ books' = [i \in BookIdx |-> ResetBook] /\ last_book_idx_q' = 0
      /\ golden' = Model!NewModel /\ expected' = << >>
  BY DEF ResetTop, Reset, Quiet
<1>2. MappedTodo' = Nothing /\ MappedOrders' = << >>
  BY <1>1 DEF MappedTodo, MappedOrders, Swept
<1>3. FreshInv' /\ OrdersInv'
  <2>1. FreshInv'
    BY <1>1 DEF FreshInv, NoDuplicateOrder, Swept
  <2>2. Dictionary(MappedOrders)'
    BY <1>2, NoOrders DEF Dictionary
  <2> QED
    BY <1>2, <2>1, <2>2 DEF OrdersInv
<1>4. PICK B : B = [i \in Tracked |-> Sides(ResetBook)]
  OBVIOUS
<1>5. /\ BookShaped(ResetBook) /\ BookOK(ResetBook)
      /\ Golden(Quietly(Model!NewModel), Unseen(B), << >>, 0)
  BY <1>4, StartOver
<1>6. 0 \in BookIdx
  BY FilterAssumption DEF BookIdx
<1>7. BooksInv'
  <2>1. \A i \in BookIdx : BookShaped(books'[i]) /\ BookOK(books'[i])
    BY <1>1, <1>5
  <2> QED
    BY <1>1, <1>6, <2>1 DEF BooksInv, BookShaped, BookOK
<1>8. BookLists' = B
  BY <1>1, <1>4 DEF BookLists, Tracked
<1>9. Coming' = Unseen(B)
  <2>1. Applied(Unseen(BookLists))' = Unseen(B)
    BY <1>1, <1>8 DEF Applied, Unseen
  <2> QED
    BY <1>2, <2>1 DEF Coming, Market
<1>10. Coming'.books = B /\ Coming'.events = << >>
  BY <1>9 DEF Unseen
<1>11. GoldenInv'
  <2>1. /\ Quietly(golden)' = Quietly(Model!NewModel) /\ Unseen(Coming.books)' = Unseen(B)
        /\ Orders(MappedOrders, MappedTodo)' = << >>
        /\ Drops(MappedOrders, MappedTodo, drop_count)' = 0
    BY <1>1, <1>2, <1>10 DEF Quietly, Unseen, Orders, Drops
  <2> QED
    BY <1>5, <2>1 DEF GoldenInv, Golden, Shaped, GoldenBooks, Named
<1>12. ~upd_valid'
  BY <1>1, <1>6 DEF upd_valid, ResetBook
<1>13. PendingInv'
  BY <1>1, <1>10, <1>12, NothingListed, ShownFirst DEF PendingInv, Shown
<1> QED
  BY <1>1, <1>3, <1>7, <1>11, <1>13 DEF SimInv, FeedInv

\* Nothing moves, nothing parts.
LEMMA SimStutter == ASSUME SimInv, UNCHANGED topVars PROVE SimInv'
<1>1. /\ UNCHANGED vars /\ dec_valid' = dec_valid /\ dec_msg' = dec_msg
      /\ books' = books /\ last_book_idx_q' = last_book_idx_q
      /\ golden' = golden /\ expected' = expected
  BY DEF topVars
<1>2. /\ MappedOrders' = MappedOrders /\ MappedTodo' = MappedTodo /\ out_valid' = out_valid
      /\ out_op' = out_op /\ drop_count' = drop_count
  BY <1>1 DEF vars, MappedOrders, MappedTodo, Swept, LiveIds, SlotOf, LiveAt, OrderOf, Reduces
<1>3. FreshInv'
  BY <1>1 DEF vars, SimInv, FreshInv, NoDuplicateOrder, Swept, LiveAt, LiveIds
<1>4. BooksInv' /\ OrdersInv' /\ FeedInv'
  BY <1>1, <1>2 DEF SimInv, BooksInv, BookShaped, BookOK, OrdersInv, Dictionary, FeedInv, FreshId
<1>5. Coming' = Coming
  <2>1. Applied(Unseen(BookLists))' = Applied(Unseen(BookLists))
    BY <1>1, <1>2 DEF Applied, Unseen, BookLists
  <2> QED
    BY <1>2, <2>1 DEF Coming
<1>6. GoldenInv'
  <2>1. PICK Q, B, o, d : /\ Q = Quietly(golden) /\ B = Coming.books
                          /\ o = Orders(MappedOrders, MappedTodo)
                          /\ d = Drops(MappedOrders, MappedTodo, drop_count)
    OBVIOUS
  <2>2. Golden(Q, Unseen(B), o, d)
    BY <2>1 DEF SimInv, GoldenInv
  <2>3. /\ Quietly(golden)' = Q /\ Unseen(Coming.books)' = Unseen(B)
        /\ Orders(MappedOrders, MappedTodo)' = o
        /\ Drops(MappedOrders, MappedTodo, drop_count)' = d
    BY <1>1, <1>2, <1>5, <2>1 DEF Quietly, Unseen, Orders, Drops
  <2> QED
    BY <2>2, <2>3 DEF GoldenInv, Golden, Shaped, GoldenBooks, Named
<1>7. Shown' = Shown
  BY <1>1 DEF Shown, upd_valid, upd, Values
<1>8. PendingInv'
  BY <1>1, <1>5, <1>7 DEF SimInv, PendingInv
<1> QED
  BY <1>3, <1>4, <1>6, <1>8 DEF SimInv

\* No step parts them.
LEMMA SimStep ==
  ASSUME ~ReuseIds, DistinctSymbols, PortInv, PortInv', SimInv, SumsFit, [~InsFull]_topVars,
         [NextTop]_topVars
  PROVE  SimInv'
<1>1. CASE UNCHANGED topVars
  BY <1>1, SimStutter
<1>2. CASE ~InsFull /\ Edge
  BY <1>2, SimEdge
<1>3. CASE ResetTop
  BY <1>3, SimReset
<1> QED
  BY <1>1, <1>2, <1>3 DEF NextTop

\* What is shown is then what was expected.
LEMMA SimMatches == SimInv => UpdatesMatchGolden
<1> SUFFICES ASSUME PendingInv, upd_valid PROVE UpdatesMatchGolden
  BY DEF SimInv, UpdatesMatchGolden
<1>1. expected # << >> /\ <<Head(expected)>> = Shown
  BY ShownTaken
<1> QED
  BY <1>1 DEF UpdatesMatchGolden, Shown

\* And when the pipeline has drained, nothing is left to come.
LEMMA SimLosesNothing ==
  ASSUME ~ReuseIds, IndInv, SimInv
  PROVE  NothingLost
<1> SUFFICES ASSUME Settled
             PROVE  /\ expected = << >>
                    /\ {<<mem[a].order_id, LevelOrder(mem[a])>> : a \in {b \in Addr : mem[b].vld}}
                         = {<<id, golden.orders[id]>> : id \in DOMAIN golden.orders}
                    /\ drop_count = golden.drops
  BY DEF NothingLost
<1>1. state_q = "S_IDLE" /\ ~out_valid /\ ~upd_valid
  BY DEF Settled, busy
<1>2. MappedTodo = Nothing /\ Swept /\ DOMAIN MappedOrders = LiveIds
  BY <1>1 DEF MappedTodo, MappedOrders, Swept
<1>3. expected = << >>
  <2>1. Shown = << >> /\ Coming.events = << >>
    BY <1>1, <1>2 DEF Shown, Coming, Applied, Market, Unseen
  <2> QED
    BY <2>1, NothingListed, ShownFirst DEF SimInv, PendingInv
<1>4. golden.orders = Named(MappedOrders) /\ drop_count = golden.drops
  <2>1. /\ Quietly(golden).orders = Named(MappedOrders)
        /\ Quietly(golden).drops = drop_count
    BY <1>2 DEF SimInv, GoldenInv, Golden, Orders, Drops
  <2>2. Quietly(golden).orders = golden.orders /\ Quietly(golden).drops = golden.drops
    BY DEF SimInv, GoldenInv, Golden, Shaped, Quietly
  <2> QED
    BY <2>1, <2>2
<1>5. /\ DOMAIN golden.orders = LiveIds
      /\ \A id \in LiveIds : golden.orders[id] = LevelOrder(MappedOrders[id])
  BY <1>2, <1>4 DEF Named
<1>6. ASSUME NEW a \in Addr, mem[a].vld
      PROVE  /\ mem[a].order_id \in LiveIds
             /\ golden.orders[mem[a].order_id] = LevelOrder(mem[a])
  <2>1. mem[a].order_id \in LiveIds /\ LiveAt(mem[a].order_id, a)
    BY <1>6 DEF LiveIds, LiveAt
  <2>2. MappedOrders[mem[a].order_id] = OrderOf(mem[a])
    BY <1>2, <2>1, LiveIsMapped DEF SimInv
  <2> QED
    BY <1>5, <2>1, <2>2 DEF LevelOrder, OrderOf
<1>7. \A id \in LiveIds : \E a \in Addr : mem[a].vld /\ mem[a].order_id = id
  BY DEF LiveIds
<1>8. {<<mem[a].order_id, LevelOrder(mem[a])>> : a \in {b \in Addr : mem[b].vld}}
        = {<<id, golden.orders[id]>> : id \in DOMAIN golden.orders}
  BY <1>5, <1>6, <1>7
<1> QED
  BY <1>3, <1>4, <1>8

\* The pipeline and the golden model stay together, for every number of symbols
\* and levels, table, hash and feed, as long as no insert is lost to a full
\* probe window and no sum of shares passes 2^32: those are the two divergences
\* the hardware declares.
THEOREM PipelineSimulates ==
  ASSUME ~ReuseIds, DistinctSymbols
  PROVE  SpecTop /\ []SumsFit /\ [][~InsFull]_topVars => []SimInv
<1>1. InitTop => SimInv
  BY SimInit
<1>2. PortInv /\ PortInv' /\ SimInv /\ SumsFit /\ [~InsFull]_topVars /\ [NextTop]_topVars
        => SimInv'
  BY SimStep
<1> QED
  BY <1>1, <1>2, PipelineInvariant, PTL DEF SpecTop

\* Every update the pipeline shows is the next event of the golden model, under
\* the same two conditions.
THEOREM UpdatesAreGolden ==
  ASSUME ~ReuseIds, DistinctSymbols
  PROVE  SpecTop /\ []SumsFit /\ [][~InsFull]_topVars => []UpdatesMatchGolden
  BY PipelineSimulates, SimMatches, PTL

\* When the pipeline has drained, every event was shown and the table, without
\* its hashing, is the golden dictionary.
THEOREM NothingIsLost ==
  ASSUME ~ReuseIds, DistinctSymbols
  PROVE  SpecTop /\ []SumsFit /\ [][~InsFull]_topVars => []NothingLost
<1>1. PortInv /\ SimInv => NothingLost
  BY SimLosesNothing DEF PortInv
<1> QED
  BY <1>1, PipelineSimulates, PipelineInvariant, PTL

-----------------------------------------------------------------------------
(* The ordinals of the harness.                                             *)

\* The spacing of the feed: 21 and 14 edges, for eight probes.
PacedFeed == TableGap >= 2 * MAX_PROBES + 3 /\ SystemGap >= MAX_PROBES + 3

\* Edges until all that is to come has been shown: the walk, the operation at
\* the books, the update.
EdgesLeft ==
  IF busy THEN CyclesLeft + 2 ELSE IF out_valid THEN 2 ELSE IF upd_valid THEN 1 ELSE 0

AllAre(s, x) == \A k \in DOMAIN s : s[k] = x

\* The histories have one entry for each event of expected.
ListsInv ==
  /\ Listed(overtaken) /\ Len(overtaken) = Len(expected)
  /\ Listed(owners) /\ Len(owners) = Len(expected)

\* The message on the port is the last one counted, and if it is for the table,
\* everything before it has been shown.
SeenInv ==
  dec_valid => /\ any_seen /\ last_kind = dec_msg.kind
               /\ dec_msg.kind # "SYSTEM" => EdgesLeft = 0

\* During the sweep nothing is shown.
QuietInv == ~swept_q => ~out_valid /\ ~upd_valid

\* How much is left at most, after the last message counted: after a SYSTEM
\* message, what a REPLACE before it has left over.
LeftAfter(kind) ==
  IF kind = "SYSTEM" THEN MAX_PROBES
  ELSE IF kind = "REPLACE" THEN 2 * MAX_PROBES + 3 ELSE MAX_PROBES + 3

PaceInv ==
  swept_q /\ EdgesLeft > 0 =>
    /\ any_seen /\ EdgesLeft + since <= LeftAfter(last_kind)
    /\ last_kind = "SYSTEM" => AllAre(overtaken, 1)
    /\ last_kind # "SYSTEM" => AllAre(overtaken, 0)
    /\ last_kind \in {"SYSTEM", "REPLACE"} => AllAre(owners, "REPLACE")

OrdinalInv == ListsInv /\ SeenInv /\ QuietInv /\ PaceInv

\* The edges of the harness are edges of the pipeline.
LEMMA HarnessIsTop == [NextHarness]_harnessVars => [NextTop]_topVars
  BY DEF NextHarness, Restart, harnessVars, NextTop

\* Lists stay of one length as the shown entry goes from each.
LEMMA ShownOff ==
  ASSUME NEW s, Listed(s), NEW e, Listed(e), Len(s) = Len(e),
         NEW t, t = Unshown(s), NEW f, f = Unshown(e)
  PROVE  /\ Listed(t) /\ Len(t) = Len(f)
         /\ \A x : AllAre(s, x) => AllAre(t, x)
<1>1. PICK T : s \in Seq(T)
  BY DEF Listed
<1>2. PICK U : e \in Seq(U)
  BY DEF Listed
<1>3. CASE s # << >> /\ upd_valid
  <2>1. e # << >>
    BY <1>1, <1>2, <1>3
  <2>2. /\ Tail(s) \in Seq(T) /\ Len(Tail(s)) = Len(s) - 1 /\ Len(Tail(e)) = Len(e) - 1
        /\ \A k \in 1 .. Len(Tail(s)) : Tail(s)[k] = s[k + 1] /\ k + 1 \in 1 .. Len(s)
    BY <1>1, <1>2, <1>3, <2>1
  <2>3. t = Tail(s) /\ f = Tail(e)
    BY <1>3, <2>1 DEF Unshown
  <2>4. DOMAIN s = 1 .. Len(s) /\ DOMAIN t = 1 .. Len(t)
    BY <1>1, <2>2, <2>3
  <2> QED
    BY <2>2, <2>3, <2>4 DEF AllAre, Listed
<1>4. CASE ~(s # << >> /\ upd_valid)
  <2>1. upd_valid => e = << >>
    BY <1>1, <1>2, <1>4
  <2>2. t = s /\ f = e
    BY <1>4, <2>1 DEF Unshown
  <2> QED
    BY <2>2
<1> QED
  BY <1>3, <1>4

\* A boundary raises each entry by one.
LEMMA Raised ==
  ASSUME NEW s, Listed(s), NEW d \in {0, 1}, NEW t, t = [k \in DOMAIN s |-> s[k] + d]
  PROVE  /\ Listed(t) /\ Len(t) = Len(s)
         /\ AllAre(s, 0) => AllAre(t, d)
         /\ d = 0 /\ AllAre(s, 1) => AllAre(t, 1)
<1>1. PICK T : s \in Seq(T)
  BY DEF Listed
<1>2. PICK n \in Nat : n = Len(s) /\ DOMAIN s = 1 .. n
  <2>1. Len(s) \in Nat /\ DOMAIN s = 1 .. Len(s)
    BY <1>1
  <2> QED
    BY <2>1, Zenon
<1>3. PICK U : U = {s[k] + d : k \in 1 .. n}
  OBVIOUS
<1>4. t \in [1 .. n -> U]
  BY <1>2, <1>3
<1>5. t \in Seq(U) /\ Len(t) = n
  BY <1>4
<1>6. Listed(t) /\ Len(t) = Len(s)
  BY <1>2, <1>5 DEF Listed
<1>7. DOMAIN t = 1 .. n /\ \A k \in 1 .. n : t[k] = s[k] + d
  BY <1>2
<1>8. AllAre(s, 0) => AllAre(t, d)
  BY <1>2, <1>7 DEF AllAre
<1>9. d = 0 /\ AllAre(s, 1) => AllAre(t, 1)
  BY <1>2, <1>7 DEF AllAre
<1> QED
  BY <1>6, <1>8, <1>9

\* The entries for n events of one message.
LEMMA Entries ==
  ASSUME NEW n \in Nat, NEW x, NEW s, s = [k \in 1 .. n |-> x]
  PROVE  Listed(s) /\ Len(s) = n /\ AllAre(s, x) /\ (n = 0 => s = << >>)
<1>1. s \in Seq({x}) /\ Len(s) = n
  OBVIOUS
<1>2. DOMAIN s = 1 .. n
  OBVIOUS
<1>3. Listed(s)
  BY <1>1 DEF Listed
<1>4. AllAre(s, x)
  BY <1>2 DEF AllAre
<1>5. n = 0 => s = << >>
  BY <1>1
<1> QED
  BY <1>1, <1>3, <1>4, <1>5

\* A book shows an update only on the edge after an operation.
LEMMA ShowsAfterOp ==
  ASSUME BooksInv, BooksInv', Edge, upd_valid'
  PROVE  out_valid
<1> SUFFICES ASSUME ~out_valid PROVE FALSE
  OBVIOUS
<1>1. PICK i \in BookIdx : i = last_book_idx_q'
  BY DEF BooksInv
<1>2. BookShaped(books[i]) /\ BookOK(books[i]) /\ books'[i] = HoldBook(books[i])
  BY DEF BooksInv, Edge, Books
<1>3. books'[i].upd_valid = FALSE
  BY <1>2, HoldKeeps
<1> QED
  BY <1>1, <1>3 DEF upd_valid

\* An operation comes only from a busy router.
LEMMA OpFromBusy ==
  ASSUME Edge, out_valid'
  PROVE  busy
  BY DEF Edge, Clock, Idle, Accept, AcceptUntracked, AcceptAdd, AcceptLookup, Quiet, BusyStep, Clear,
         LookHit, LookMiss, LookNext, InsWrite, InsFull, InsNext, busy

\* How much is left.
LEMMA LeftTyped ==
  ASSUME TypeInv
  PROVE  EdgesLeft \in Nat /\ (EdgesLeft = 0 => ~busy /\ ~out_valid /\ ~upd_valid)
  BY CyclesTyped DEF EdgesLeft

\* The same after an edge.
LEMMA LeftTypedNext ==
  ASSUME TypeInv'
  PROVE  EdgesLeft' \in Nat
  BY CyclesTypedNext DEF EdgesLeft

\* An edge uses up one of what is left, unless a message for the table comes.
LEMMA LeftStep ==
  ASSUME PortInv, PortInv', BooksInv, BooksInv', Edge, swept_q,
         ~(dec_valid /\ dec_msg.kind # "SYSTEM")
  PROVE  IF EdgesLeft = 0 THEN EdgesLeft' = 0 ELSE EdgesLeft' < EdgesLeft
<1>1. TypeInv /\ TypeInv' /\ AnyEdge /\ state_q # "S_CLEAR" /\ state_q' # "S_CLEAR"
  BY EdgeOfRouter, SweepIsOver DEF PortInv, IndInv, GateInv
<1>2. CyclesLeft \in Nat /\ CyclesLeft' \in Nat /\ (busy => CyclesLeft > 0)
  BY <1>1, CyclesTyped, CyclesTypedNext
<1>3. busy => CyclesLeft' < CyclesLeft
  BY <1>1, CyclesStep DEF CyclesUsed, Reset
<1>4. (out_valid' => busy) /\ (upd_valid' => out_valid)
  BY OpFromBusy, ShowsAfterOp
<1>5. ~busy => ~busy'
  <2>1. CASE ~busy /\ busy'
    <3>1. Clock(dec_valid, dec_msg)
      BY DEF Edge
    <3> QED
      BY <2>1, <3>1 DEF Clock, BusyStep, Clear, LookHit, LookMiss, LookNext, InsWrite, InsFull, InsNext,
                 Idle, busy
  <2> QED
    BY <2>1
<1>6. EdgesLeft' \in Nat
  BY <1>1, LeftTypedNext
<1>7. CASE busy
  <2>1. EdgesLeft = CyclesLeft + 2
    BY <1>7 DEF EdgesLeft
  <2>2. EdgesLeft' = CyclesLeft' + 2 \/ EdgesLeft' \in {0, 1, 2}
    BY DEF EdgesLeft
  <2> QED
    BY <1>2, <1>3, <1>7, <2>1, <2>2
<1>8. CASE ~busy /\ out_valid
  <2>1. EdgesLeft = 2
    BY <1>8 DEF EdgesLeft
  <2>2. EdgesLeft' \in {0, 1}
    BY <1>4, <1>5, <1>8 DEF EdgesLeft
  <2> QED
    BY <2>1, <2>2
<1>9. CASE ~busy /\ ~out_valid
  <2>1. EdgesLeft' = 0 /\ EdgesLeft \in {0, 1}
    BY <1>4, <1>5, <1>9 DEF EdgesLeft
  <2> QED
    BY <2>1
<1> QED
  BY <1>7, <1>8, <1>9

\* A message for the table leaves one walk to do, or two.
LEMMA LeftOnAccept ==
  ASSUME PortInv, PortInv', BooksInv, BooksInv', Edge, swept_q, dec_valid,
         dec_msg.kind # "SYSTEM", EdgesLeft = 0
  PROVE  EdgesLeft' + 1 <= LeftAfter(dec_msg.kind)
<1>1. /\ TypeInv /\ TypeInv' /\ AnyEdge /\ state_q # "S_CLEAR" /\ state_q' # "S_CLEAR"
      /\ MAX_PROBES \in Nat /\ NoMessageWhileBusy
  BY EdgeOfRouter, SweepIsOver, TableAssumption DEF PortInv, IndInv, GateInv
<1>2. ~busy /\ ~out_valid /\ ~upd_valid /\ CyclesLeft' \in Nat
  BY <1>1, LeftTyped, CyclesTypedNext
<1>3. ~out_valid' /\ ~upd_valid'
  BY <1>2, OpFromBusy, ShowsAfterOp
<1>4. CASE ~busy'
  BY <1>1, <1>3, <1>4 DEF EdgesLeft, LeftAfter
<1>5. CASE busy'
  <2>1. Accept(dec_msg)
    BY <1>1, <1>2, EdgeCases, <1>5 DEF BusyStep, Clear, LookHit, LookMiss, LookNext, InsWrite, InsFull,
        InsNext, Idle, busy
  <2>2. req_q'.kind = dec_msg.kind
    <3>1. CASE AcceptUntracked(dec_msg)
      BY <1>2, <1>5, <3>1 DEF AcceptUntracked, busy
    <3>2. CASE AcceptAdd(dec_msg)
      <4>1. dec_msg.kind = "ADD" /\ req_q'.kind = "ADD"
        BY <3>2 DEF AcceptAdd
      <4> QED
        BY <4>1
    <3>3. CASE AcceptLookup(dec_msg)
      BY <3>3 DEF AcceptLookup
    <3> QED
      BY <2>1, <3>1, <3>2, <3>3 DEF Accept
  <2>3. CyclesLeft' <= (IF dec_msg.kind = "REPLACE" THEN 2 ELSE 1) * MAX_PROBES
    BY <1>1, <1>2, <1>5, <2>2, CyclesStep DEF CyclesUsed
  <2>4. EdgesLeft' = CyclesLeft' + 2
    BY <1>5 DEF EdgesLeft
  <2>5. CASE dec_msg.kind = "REPLACE"
    <3>1. CyclesLeft' <= 2 * MAX_PROBES /\ LeftAfter(dec_msg.kind) = 2 * MAX_PROBES + 3
      BY <2>3, <2>5 DEF LeftAfter
    <3>2. \A c, m \in Nat : c <= 2 * m => (c + 2) + 1 <= 2 * m + 3
      OBVIOUS
    <3>3. (CyclesLeft' + 2) + 1 <= 2 * MAX_PROBES + 3
      BY <1>1, <1>2, <3>1, <3>2
    <3> QED
      BY <2>4, <3>1, <3>3
  <2>6. CASE dec_msg.kind # "REPLACE"
    <3>1. CyclesLeft' <= 1 * MAX_PROBES /\ LeftAfter(dec_msg.kind) = MAX_PROBES + 3
      BY <2>3, <2>6 DEF LeftAfter
    <3>2. \A c, m \in Nat : c <= 1 * m => (c + 2) + 1 <= m + 3
      OBVIOUS
    <3>3. (CyclesLeft' + 2) + 1 <= MAX_PROBES + 3
      BY <1>1, <1>2, <3>1, <3>2
    <3> QED
      BY <2>4, <3>1, <3>3
  <2> QED
    BY <2>5, <2>6
<1> QED
  BY <1>4, <1>5

\* Lists one after the other.
LEMMA ConcatListed ==
  ASSUME NEW a, NEW e, Listed(a), Listed(e)
  PROVE  Listed(a \o e)
<1>1. PICK T, U : a \in Seq(T) /\ e \in Seq(U)
  BY DEF Listed
<1>2. PICK V : V = T \cup U
  OBVIOUS
<1>3. a \in Seq(V) /\ e \in Seq(V)
  BY <1>1, <1>2, WiderList
<1>4. a \o e \in Seq(V)
  BY <1>3
<1> QED
  BY <1>4 DEF Listed

\* What is expected is a list.
LEMMA ExpectedListed ==
  ASSUME PendingInv
  PROVE  Listed(expected)
<1>1. Listed(Coming.events)
  BY ShownTaken
<1>2. Listed(Shown)
  <2>1. CASE upd_valid
    <3>1. PICK x : Shown = <<x>>
      BY <2>1 DEF Shown
    <3>2. <<x>> = Append(<< >>, x)
      OBVIOUS
    <3> QED
      BY <3>1, <3>2, NothingListed, ListedAppend
  <2>2. CASE ~upd_valid
    BY <2>2, NothingListed DEF Shown
  <2> QED
    BY <2>1, <2>2
<1> QED
  BY <1>1, <1>2, ConcatListed DEF PendingInv

\* And stays one.
LEMMA ExpectedListedNext ==
  ASSUME PendingInv'
  PROVE  Listed(expected')
<1>1. PICK v, op, B, f, t, S, C, w, n :
        /\ v = out_valid' /\ op = out_op' /\ B = BookLists' /\ f = MappedOrders' /\ t = MappedTodo'
        /\ S = (IF v THEN Do(Unseen(B), op) ELSE Unseen(B)) /\ C = Market(S, f, t)
        /\ w = Shown' /\ n = expected'
  OBVIOUS
<1>2. C = Coming'
  BY <1>1 DEF Coming, Applied
<1>3. Listed(S.events)
  BY <1>1, NothingListed, DoListed DEF Unseen
<1>4. Listed(C.events)
  BY <1>1, <1>3, MarketListed
<1>5. Listed(w)
  <2>1. CASE upd_valid'
    <3>1. PICK x : w = <<x>>
      BY <1>1, <2>1 DEF Shown
    <3>2. <<x>> = Append(<< >>, x)
      OBVIOUS
    <3> QED
      BY <3>1, <3>2, NothingListed, ListedAppend
  <2>2. CASE ~upd_valid'
    BY <1>1, <2>2, NothingListed DEF Shown
  <2> QED
    BY <2>1, <2>2
<1>6. n = w \o C.events
  BY <1>1, <1>2 DEF PendingInv
<1>7. Listed(n)
  BY <1>4, <1>5, <1>6, ConcatListed
<1> QED
  BY <1>1, <1>7

\* Nothing is expected when nothing is left to do.
LEMMA NothingDue ==
  ASSUME TypeInv, PendingInv, EdgesLeft = 0
  PROVE  expected = << >>
<1>1. ~busy /\ ~out_valid /\ ~upd_valid
  BY LeftTyped
<1>2. state_q = "S_IDLE"
  BY <1>1 DEF busy
<1>3. MappedTodo = Nothing
  BY <1>2 DEF MappedTodo
<1>4. Shown = << >> /\ Coming.events = << >>
  BY <1>1, <1>3 DEF Shown, Coming, Applied, Market, Unseen
<1> QED
  BY <1>4, NothingListed, ShownFirst DEF PendingInv

\* Without a message for the table no event is added.
LEMMA NothingAdded ==
  ASSUME SimInv, Edge, ~(dec_valid /\ dec_msg.kind # "SYSTEM")
  PROVE  expected' = Unshown(expected)
<1>1. /\ Listed(Coming.events)
      /\ Coming.events = IF upd_valid /\ expected # << >> THEN Tail(expected) ELSE expected
  BY ShownTaken DEF SimInv
<1>2. CASE ~dec_valid
  BY <1>2 DEF Edge, Scoreboard, Unshown
<1>3. CASE dec_valid /\ dec_msg.kind = "SYSTEM"
  <2>1. golden' = Quietly(golden)
    BY <1>3 DEF Edge, Scoreboard, Model!OnMessage, Quietly
  <2>2. golden'.events = << >>
    BY <2>1 DEF SimInv, GoldenInv, Golden, Unseen
  <2>3. expected' = Coming.events \o << >>
    BY <1>1, <1>3, <2>2 DEF Edge, Scoreboard
  <2>4. Coming.events \o << >> = Coming.events
    BY <1>1, ShownFirst
  <2> QED
    BY <1>1, <2>3, <2>4 DEF Unshown
<1> QED
  BY <1>2, <1>3

\* Then the histories lose the entry shown, and a boundary raises the others.
LEMMA HistoriesKept ==
  ASSUME SimInv, SimInv', ListsInv, Edge, Sample, ~(dec_valid /\ dec_msg.kind # "SYSTEM")
  PROVE  /\ ListsInv'
         /\ \A x : AllAre(owners, x) => AllAre(owners', x)
         /\ AllAre(overtaken, 0) => AllAre(overtaken', IF dec_valid' THEN 1 ELSE 0)
         /\ ~dec_valid' /\ AllAre(overtaken, 1) => AllAre(overtaken', 1)
<1>1. PICK e, f, o, w, p, u, d :
        /\ e = expected /\ f = Unshown(e)
        /\ o = overtaken /\ p = Unshown(o) /\ w = owners /\ u = Unshown(w)
        /\ d = IF dec_valid' THEN 1 ELSE 0
  OBVIOUS
<1>2. d \in {0, 1}
  BY <1>1
<1>3. /\ Listed(e) /\ Listed(o) /\ Listed(w) /\ Len(o) = Len(e) /\ Len(w) = Len(e)
  BY <1>1, ExpectedListed DEF SimInv, ListsInv
<1>5. /\ Listed(p) /\ Len(p) = Len(f) /\ \A x : AllAre(o, x) => AllAre(p, x)
      /\ Listed(u) /\ Len(u) = Len(f) /\ \A x : AllAre(w, x) => AllAre(u, x)
  BY <1>1, <1>3, ShownOff
<1>6. expected' = f /\ Listed(f)
  BY <1>1, NothingAdded, ExpectedListedNext DEF SimInv
<1>7. Len(expected') - Len(Unshown(expected)) = 0
  <2>1. PICK T : f \in Seq(T)
    BY <1>6 DEF Listed
  <2>2. Len(f) \in Nat
    BY <2>1
  <2> QED
    BY <1>1, <1>6, <2>2
<1>8. ASSUME NEW x PROVE [k \in 1 .. 0 |-> x] = << >>
  BY Entries
<1>9. Due(0) = << >> /\ Due(dec_msg.kind) = << >>
  BY <1>7, <1>8 DEF Due
<1>10. /\ p \o << >> = p /\ u \o << >> = u
  BY <1>5, ShownFirst
<1>11. owners' = u /\ overtaken' = [k \in DOMAIN p |-> p[k] + d]
  BY <1>1, <1>9, <1>10 DEF Sample, msg_boundary
<1>12. PICK q : q = [k \in DOMAIN p |-> p[k] + d]
  OBVIOUS
<1>13. /\ Listed(q) /\ Len(q) = Len(p) /\ (AllAre(p, 0) => AllAre(q, d))
       /\ (d = 0 /\ AllAre(p, 1) => AllAre(q, 1))
  BY <1>2, <1>5, <1>12, Raised
<1>14. owners' = u /\ overtaken' = q
  BY <1>11, <1>12
<1>15. ListsInv'
  BY <1>5, <1>6, <1>13, <1>14 DEF ListsInv
<1>16. \A x : AllAre(owners, x) => AllAre(owners', x)
  BY <1>1, <1>5, <1>14
<1>17. /\ AllAre(overtaken, 0) => AllAre(overtaken', d)
       /\ d = 0 /\ AllAre(overtaken, 1) => AllAre(overtaken', 1)
  BY <1>1, <1>5, <1>13, <1>14
<1> QED
  BY <1>1, <1>15, <1>16, <1>17

\* With one, all that was expected has been shown, and there is an entry for each
\* of its events.
LEMMA HistoriesBegin ==
  ASSUME SimInv, SimInv', TypeInv, ListsInv, Edge, Sample, ~dec_valid', EdgesLeft = 0
  PROVE  ListsInv' /\ AllAre(overtaken', 0) /\ AllAre(owners', dec_msg.kind)
<1>1. expected = << >> /\ overtaken = << >> /\ owners = << >>
  <2>1. expected = << >>
    BY NothingDue DEF SimInv
  <2>2. Len(overtaken) = 0 /\ Len(owners) = 0
    BY <2>1 DEF ListsInv
  <2>3. \A s : Listed(s) /\ Len(s) = 0 => s = << >>
    <3>1. ASSUME NEW s, NEW T, s \in Seq(T), Len(s) = 0 PROVE s = << >>
      BY <3>1
    <3> QED
      BY <3>1 DEF Listed
  <2> QED
    BY <2>1, <2>2, <2>3 DEF ListsInv
<1>2. Unshown(expected) = << >> /\ Unshown(overtaken) = << >> /\ Unshown(owners) = << >>
  BY <1>1 DEF Unshown
<1>3. PICK n : n = Len(expected') - Len(Unshown(expected))
  OBVIOUS
<1>4. n \in Nat /\ Len(expected') = n
  <2>1. PICK T, f : f = expected' /\ f \in Seq(T)
    BY ExpectedListedNext DEF SimInv, Listed
  <2>2. Len(f) \in Nat
    BY <2>1
  <2> QED
    BY <1>2, <1>3, <2>1, <2>2
<1>5. PICK z, k : z = [j \in 1 .. n |-> 0] /\ k = [j \in 1 .. n |-> dec_msg.kind]
  OBVIOUS
<1>6. /\ Listed(z) /\ Len(z) = n /\ AllAre(z, 0)
      /\ Listed(k) /\ Len(k) = n /\ AllAre(k, dec_msg.kind)
  <2>1. PICK x : x = dec_msg.kind
    OBVIOUS
  <2>2. k = [j \in 1 .. n |-> x]
    BY <1>5, <2>1
  <2>3. Listed(z) /\ Len(z) = n /\ AllAre(z, 0)
    BY <1>4, <1>5, Entries
  <2>4. Listed(k) /\ Len(k) = n /\ AllAre(k, x)
    BY <1>4, <2>2, Entries
  <2> QED
    BY <2>1, <2>3, <2>4
<1>7. Due(0) = z /\ Due(dec_msg.kind) = k
  BY <1>3, <1>5 DEF Due
<1>8. << >> \o z = z /\ << >> \o k = k
  BY <1>6, ShownFirst
<1>9. PICK q : q = [j \in DOMAIN z |-> z[j] + 0]
  OBVIOUS
<1>10. Listed(q) /\ Len(q) = n /\ AllAre(q, 0)
  BY <1>6, <1>9, Raised
<1>11. overtaken' = q /\ owners' = k
  BY <1>2, <1>7, <1>8, <1>9 DEF Sample, msg_boundary
<1> QED
  BY <1>4, <1>6, <1>10, <1>11 DEF ListsInv

\* What an edge does to the port and to the pace.
LEMMA PortMoves ==
  ASSUME PortInv, Edge
  PROVE  /\ since \in Nat /\ since' \in Nat /\ since' <= since + 1
         /\ dec_valid => since = 0 /\ ~dec_valid'
         /\ dec_valid' => /\ since' = 0 /\ swept_q /\ ~dec_valid
                          /\ since + 1 >= Gap(dec_msg')
         /\ swept_q => swept_q'
<1>1. /\ TableGap \in Nat /\ SystemGap \in Nat /\ SystemGap >= 2 /\ TableGap >= 2
  BY FeedAssumption
<1>2. since \in 0 .. TableGap /\ (dec_valid => since = 0) /\ dec_valid \in BOOLEAN
  BY DEF PortInv, GapInv
<1>3. swept_q => swept_q'
  BY DEF Edge, ByteGate
<1>4. CASE DecoderIdle
  BY <1>1, <1>2, <1>3, <1>4 DEF DecoderIdle
<1>5. CASE DecoderMessage
  <2>1. since' = 0 /\ swept_q /\ since + 1 >= Gap(dec_msg')
    BY <1>5 DEF DecoderMessage, in_ready
  <2>2. Gap(dec_msg') >= 2 /\ Gap(dec_msg') \in Nat
    BY <1>1 DEF Gap
  <2>3. since # 0
    BY <1>2, <2>1, <2>2
  <2> QED
    BY <1>2, <1>3, <2>1, <2>3
<1> QED
  BY <1>4, <1>5 DEF Edge

\* Where the gate opens nothing is left.
LEMMA NothingAtOpening ==
  ASSUME PortInv, BooksInv, BooksInv', QuietInv, Edge, ~swept_q
  PROVE  ~out_valid' /\ ~upd_valid' /\ (swept_q' => EdgesLeft' = 0)
<1>1. ~out_valid /\ ~dec_valid /\ state_q \in {"S_CLEAR", "S_IDLE"}
  BY DEF PortInv, GateInv, QuietInv
<1>2. ~upd_valid'
  BY <1>1, ShowsAfterOp
<1>3. ~out_valid'
  BY <1>1 DEF Edge, Clock, Idle, Quiet, BusyStep, Clear, LookHit, LookMiss, LookNext, InsWrite, InsFull,
          InsNext
<1>4. swept_q' => ~busy
  BY DEF Edge, ByteGate
<1>5. ~busy => ~busy'
  BY <1>1 DEF Edge, Clock, Idle, BusyStep, Clear, LookHit, LookMiss, LookNext, InsWrite, InsFull,
          InsNext, busy
<1> QED
  BY <1>2, <1>3, <1>4, <1>5 DEF EdgesLeft

\* At the boundary of a message for the table the last edge has come; at one of a
\* SYSTEM message only a REPLACE may have left something over.
LEMMA LeftAtBoundary ==
  ASSUME PacedFeed, PortInv, PortInv', BooksInv, BooksInv', PaceInv, Edge, dec_valid'
  PROVE  \/ EdgesLeft' = 0
         \/ /\ dec_msg'.kind = "SYSTEM" /\ last_kind = "REPLACE"
            /\ EdgesLeft > 0 /\ EdgesLeft' <= MAX_PROBES
<1>1. /\ since \in Nat /\ swept_q /\ ~dec_valid /\ since + 1 >= Gap(dec_msg')
  BY PortMoves
<1>2. /\ EdgesLeft \in Nat /\ EdgesLeft' \in Nat /\ MAX_PROBES \in Nat
      /\ TableGap \in Nat /\ SystemGap \in Nat
  BY LeftTyped, LeftTypedNext, TableAssumption, FeedAssumption DEF PortInv, IndInv
<1>3. IF EdgesLeft = 0 THEN EdgesLeft' = 0 ELSE EdgesLeft' < EdgesLeft
  BY <1>1, LeftStep
<1>4. PICK s, c, d, m, g : /\ s = since /\ c = EdgesLeft /\ d = EdgesLeft' /\ m = MAX_PROBES
                          /\ g = Gap(dec_msg')
  OBVIOUS
<1>5. CASE EdgesLeft > 0
  <2>1. /\ c + s <= LeftAfter(last_kind) /\ s + 1 >= g /\ d < c
        /\ s \in Nat /\ c \in Nat /\ d \in Nat /\ m \in Nat
    BY <1>1, <1>2, <1>3, <1>4, <1>5 DEF PaceInv
  <2>2. CASE dec_msg'.kind # "SYSTEM"
    <3>1. g \in Nat /\ g >= 2 * m + 3
      BY <1>2, <1>4, <2>2 DEF Gap, PacedFeed
    <3>2. c + s <= 2 * m + 3
      <4>1. LeftAfter(last_kind) \in {m, 2 * m + 3, m + 3}
        BY <1>4 DEF LeftAfter
      <4> QED
        BY <2>1, <4>1
    <3>3. d = 0
      BY <2>1, <3>1, <3>2
    <3>4. EdgesLeft' = 0
      BY <1>4, <3>3, Zenon
    <3> QED
      BY <3>4, Zenon
  <2>3. CASE dec_msg'.kind = "SYSTEM"
    <3>1. g \in Nat /\ g >= m + 3
      BY <1>2, <1>4, <2>3 DEF Gap, PacedFeed
    <3>2. CASE last_kind = "REPLACE"
      <4>1. c + s <= 2 * m + 3
        BY <1>4, <2>1, <3>2 DEF LeftAfter
      <4>2. d <= m
        BY <2>1, <3>1, <4>1
      <4> QED
        BY <1>4, <1>5, <2>3, <3>2, <4>2
    <3>3. CASE last_kind # "REPLACE"
      <4>1. c + s <= m + 3
        <5>1. LeftAfter(last_kind) \in {m, m + 3}
          BY <1>4, <3>3 DEF LeftAfter
        <5> QED
          BY <2>1, <5>1
      <4>2. d = 0
        BY <2>1, <3>1, <4>1
      <4>3. EdgesLeft' = 0
        BY <1>4, <4>2, Zenon
      <4> QED
        BY <4>3, Zenon
    <3> QED
      BY <3>2, <3>3
  <2> QED
    BY <2>2, <2>3
<1>6. CASE EdgesLeft = 0
  BY <1>3, <1>6, Zenon
<1>7. EdgesLeft = 0 \/ EdgesLeft > 0
  BY <1>2
<1> QED
  BY <1>5, <1>6, <1>7, Zenon

\* No edge breaks the invariant.
LEMMA OrdinalEdge ==
  ASSUME PacedFeed, PortInv, PortInv', SimInv, SimInv', OrdinalInv, Edge, Sample
  PROVE  OrdinalInv'
<1>1. /\ BooksInv /\ BooksInv' /\ ListsInv /\ SeenInv /\ QuietInv /\ PaceInv /\ TypeInv /\ TypeInv'
  BY DEF SimInv, OrdinalInv, PortInv, IndInv
<1>2. /\ since \in Nat /\ since' \in Nat /\ since' <= since + 1
      /\ dec_valid => since = 0 /\ ~dec_valid'
      /\ dec_valid' => since' = 0 /\ swept_q /\ ~dec_valid
      /\ swept_q => swept_q'
  BY PortMoves
<1>3. /\ any_seen' = (any_seen \/ dec_valid')
      /\ last_kind' = IF dec_valid' THEN dec_msg'.kind ELSE last_kind
  BY DEF Sample, msg_boundary
<1>4. /\ EdgesLeft \in Nat /\ EdgesLeft' \in Nat /\ MAX_PROBES \in Nat
  BY <1>1, LeftTyped, LeftTypedNext, TableAssumption
<1>5. SeenInv'
  <2>1. dec_valid' /\ dec_msg'.kind # "SYSTEM" => EdgesLeft' = 0
    BY <1>1, LeftAtBoundary
  <2> QED
    BY <1>3, <2>1 DEF SeenInv
<1>6. QuietInv'
  BY <1>1, <1>2, NothingAtOpening DEF QuietInv
<1>7. CASE dec_valid /\ dec_msg.kind # "SYSTEM"
  <2>1. EdgesLeft = 0 /\ any_seen /\ last_kind = dec_msg.kind /\ ~dec_valid' /\ since = 0
    BY <1>1, <1>2, <1>7 DEF SeenInv
  <2>2. swept_q
    BY <1>7 DEF PortInv, GateInv
  <2>3. ListsInv' /\ AllAre(overtaken', 0) /\ AllAre(owners', dec_msg.kind)
    BY <1>1, <2>1, HistoriesBegin
  <2>4. EdgesLeft' + since' <= LeftAfter(dec_msg.kind)
    <3>1. EdgesLeft' + 1 <= LeftAfter(dec_msg.kind)
      BY <1>1, <1>7, <2>1, <2>2, LeftOnAccept
    <3>2. LeftAfter(dec_msg.kind) \in Nat
      BY <1>4 DEF LeftAfter
    <3>3. PICK d, t, b : d = EdgesLeft' /\ t = since' /\ b = LeftAfter(dec_msg.kind)
      OBVIOUS
    <3>4. d \in Nat /\ t \in Nat /\ b \in Nat /\ t <= 1 /\ d + 1 <= b
      BY <1>2, <1>4, <2>1, <3>1, <3>2, <3>3
    <3>5. d + t <= b
      BY <3>4
    <3> QED
      BY <3>3, <3>5
  <2>5. any_seen' /\ last_kind' = dec_msg.kind
    BY <1>3, <2>1
  <2>6. PaceInv'
    BY <1>7, <2>3, <2>4, <2>5 DEF PaceInv
  <2> QED
    BY <1>5, <1>6, <2>3, <2>6 DEF OrdinalInv
<1>8. CASE ~(dec_valid /\ dec_msg.kind # "SYSTEM")
  <2>1. /\ ListsInv'
        /\ \A x : AllAre(owners, x) => AllAre(owners', x)
        /\ AllAre(overtaken, 0) => AllAre(overtaken', IF dec_valid' THEN 1 ELSE 0)
        /\ ~dec_valid' /\ AllAre(overtaken, 1) => AllAre(overtaken', 1)
    BY <1>1, <1>8, HistoriesKept
  <2>2. ASSUME swept_q', EdgesLeft' > 0
        PROVE  /\ any_seen' /\ EdgesLeft' + since' <= LeftAfter(last_kind')
               /\ last_kind' = "SYSTEM" => AllAre(overtaken', 1)
               /\ last_kind' # "SYSTEM" => AllAre(overtaken', 0)
               /\ last_kind' \in {"SYSTEM", "REPLACE"} => AllAre(owners', "REPLACE")
    <3>1. swept_q
      BY <1>1, <1>4, <2>2, NothingAtOpening
    <3>2. EdgesLeft > 0 /\ EdgesLeft' < EdgesLeft
      BY <1>1, <1>4, <1>8, <2>2, <3>1, LeftStep
    <3>3. /\ any_seen /\ EdgesLeft + since <= LeftAfter(last_kind)
          /\ last_kind = "SYSTEM" => AllAre(overtaken, 1)
          /\ last_kind # "SYSTEM" => AllAre(overtaken, 0)
          /\ last_kind \in {"SYSTEM", "REPLACE"} => AllAre(owners, "REPLACE")
      BY <1>1, <3>1, <3>2 DEF PaceInv
    <3>4. CASE ~dec_valid'
      <4>1. last_kind' = last_kind /\ any_seen'
        BY <1>3, <3>3, <3>4
      <4>2. EdgesLeft' + since' <= LeftAfter(last_kind)
        <5>1. LeftAfter(last_kind) \in Nat
          BY <1>4 DEF LeftAfter
        <5> QED
          BY <1>2, <1>4, <3>2, <3>3, <5>1, Balance
      <4> QED
        BY <2>1, <3>3, <3>4, <4>1, <4>2
    <3>5. CASE dec_valid'
      <4>1. dec_msg'.kind = "SYSTEM" /\ last_kind = "REPLACE" /\ EdgesLeft' <= MAX_PROBES
        BY <1>1, <1>4, <2>2, <3>5, LeftAtBoundary
      <4>2. last_kind' = "SYSTEM" /\ any_seen' /\ since' = 0
        BY <1>2, <1>3, <3>5, <4>1
      <4>3. AllAre(overtaken', 1) /\ AllAre(owners', "REPLACE")
        BY <2>1, <3>3, <3>5, <4>1
      <4>4. EdgesLeft' + since' <= LeftAfter(last_kind')
        <5>1. LeftAfter(last_kind') = MAX_PROBES
          BY <4>2 DEF LeftAfter
        <5>2. \A d \in Nat : d <= MAX_PROBES => d + 0 <= MAX_PROBES
          OBVIOUS
        <5>3. EdgesLeft' + 0 <= MAX_PROBES
          BY <1>4, <4>1, <5>2, Zenon
        <5> QED
          BY <4>2, <5>1, <5>3
      <4> QED
        BY <4>2, <4>3, <4>4
    <3> QED
      BY <3>4, <3>5
  <2>3. PaceInv'
    BY <2>2 DEF PaceInv
  <2> QED
    BY <1>5, <1>6, <2>1, <2>3 DEF OrdinalInv
<1> QED
  BY <1>7, <1>8

\* Nor does a stutter or a restart, and it holds at the start.
LEMMA OrdinalStart == InitHarness => OrdinalInv
<1> SUFFICES ASSUME InitHarness PROVE OrdinalInv
  OBVIOUS
<1>1. /\ expected = << >> /\ overtaken = << >> /\ owners = << >> /\ ~dec_valid /\ ~swept_q
      /\ ~out_valid /\ books = [i \in BookIdx |-> ResetBook] /\ last_book_idx_q = 0
  BY DEF InitHarness, InitTop, Init
<1>2. 0 \in BookIdx
  BY FilterAssumption DEF BookIdx
<1>3. ~upd_valid
  BY <1>1, <1>2 DEF upd_valid, ResetBook
<1> QED
  BY <1>1, <1>3, NothingListed DEF OrdinalInv, ListsInv, SeenInv, QuietInv, PaceInv

\* The same after a restart.
LEMMA OrdinalRestart == Restart => OrdinalInv'
<1> SUFFICES ASSUME Restart PROVE OrdinalInv'
  OBVIOUS
<1>1. /\ expected' = << >> /\ overtaken' = << >> /\ owners' = << >> /\ ~dec_valid' /\ ~swept_q'
      /\ ~out_valid' /\ books' = [i \in BookIdx |-> ResetBook] /\ last_book_idx_q' = 0
  BY DEF Restart, ResetTop, Reset, Quiet
<1>2. 0 \in BookIdx
  BY FilterAssumption DEF BookIdx
<1>3. ~upd_valid'
  BY <1>1, <1>2 DEF upd_valid, ResetBook
<1> QED
  BY <1>1, <1>3, NothingListed DEF OrdinalInv, ListsInv, SeenInv, QuietInv, PaceInv

\* Nothing moves, nothing is counted.
LEMMA OrdinalStutter == ASSUME OrdinalInv, UNCHANGED harnessVars PROVE OrdinalInv'
<1>1. /\ any_seen' = any_seen /\ overtaken' = overtaken /\ owners' = owners
      /\ last_kind' = last_kind
      /\ UNCHANGED vars /\ dec_valid' = dec_valid /\ dec_msg' = dec_msg /\ since' = since
      /\ swept_q' = swept_q /\ books' = books /\ last_book_idx_q' = last_book_idx_q
      /\ expected' = expected
  BY DEF harnessVars, topVars
<1>2. /\ state_q' = state_q /\ addr_q' = addr_q /\ probe_q' = probe_q /\ req_q' = req_q
      /\ out_valid' = out_valid
  BY <1>1 DEF vars
<1>3. upd_valid' = upd_valid
  BY <1>1 DEF upd_valid
<1>4. CyclesLeft' = CyclesLeft /\ busy' = busy
  BY <1>2 DEF CyclesLeft, busy
<1>5. EdgesLeft' = EdgesLeft
  BY <1>2, <1>3, <1>4 DEF EdgesLeft
<1>6. ListsInv'
  BY <1>1 DEF OrdinalInv, ListsInv
<1>7. SeenInv' /\ QuietInv'
  BY <1>1, <1>2, <1>3, <1>5 DEF OrdinalInv, SeenInv, QuietInv
<1>8. PaceInv'
  BY <1>1, <1>5 DEF OrdinalInv, PaceInv
<1> QED
  BY <1>6, <1>7, <1>8 DEF OrdinalInv

\* What is shown then has the ordinal of its message.
LEMMA OrdinalRight ==
  ASSUME PortInv, SimInv, OrdinalInv, upd_valid
  PROVE  /\ any_seen /\ overtaken # << >>
         /\ \/ Excess = 0
            \/ Excess = 1 /\ owners[1] = "REPLACE" /\ last_kind = "SYSTEM"
<1>1. expected # << >> /\ Listed(expected)
  BY SimMatches, ExpectedListed DEF UpdatesMatchGolden, SimInv
<1>2. swept_q
  BY DEF OrdinalInv, QuietInv
<1>3. EdgesLeft > 0
  BY LeftTyped DEF PortInv, IndInv
<1>4. /\ any_seen
      /\ last_kind = "SYSTEM" => AllAre(overtaken, 1) /\ AllAre(owners, "REPLACE")
      /\ last_kind # "SYSTEM" => AllAre(overtaken, 0)
  BY <1>2, <1>3 DEF OrdinalInv, PaceInv
<1>5. /\ Listed(overtaken) /\ Len(overtaken) = Len(expected)
      /\ Listed(owners) /\ Len(owners) = Len(expected)
  BY DEF OrdinalInv, ListsInv
<1>6. Len(expected) \in Nat /\ Len(expected) > 0
  <2>1. PICK T : expected \in Seq(T)
    BY <1>1 DEF Listed
  <2> QED
    BY <1>1, <2>1
<1>7. \A s : Listed(s) /\ Len(s) = Len(expected) => 1 \in DOMAIN s /\ s # << >>
  <2>1. ASSUME NEW s, NEW T, s \in Seq(T), Len(s) = Len(expected) PROVE 1 \in DOMAIN s /\ s # << >>
    BY <1>6, <2>1
  <2> QED
    BY <2>1 DEF Listed
<1>8. 1 \in DOMAIN overtaken /\ 1 \in DOMAIN owners /\ overtaken # << >>
  BY <1>5, <1>7
<1> QED
  BY <1>4, <1>8 DEF AllAre, Excess

\* For every feed with the real spacing, the ordinal the harness gives to an
\* update is that of its message, or of the message right behind a REPLACE that
\* does not reach the table.
THEOREM OrdinalsAreRight ==
  ASSUME ~ReuseIds, DistinctSymbols, PacedFeed
  PROVE  SpecHarness /\ []SumsFit /\ [][~InsFull]_topVars => OrdinalIsRight
<1>1. InitHarness => InitTop
  BY DEF InitHarness
<1>2. [NextHarness]_harnessVars => [NextTop]_topVars
  BY HarnessIsTop
<1>3. SpecHarness => SpecTop
  BY <1>1, <1>2, PTL DEF SpecHarness, SpecTop
<1>4. PortInv /\ PortInv' /\ SimInv /\ SimInv' /\ OrdinalInv /\ [NextHarness]_harnessVars => OrdinalInv'
  BY OrdinalEdge, OrdinalRestart, OrdinalStutter DEF NextHarness
<1>5. SpecHarness /\ []SumsFit /\ [][~InsFull]_topVars => [](PortInv /\ SimInv /\ OrdinalInv)
  BY <1>3, <1>4, OrdinalStart, PipelineSimulates, PipelineInvariant, PTL DEF SpecHarness
<1>6. PortInv /\ SimInv /\ OrdinalInv =>
        [upd_valid =>
           /\ any_seen /\ overtaken # << >>
           /\ \/ Excess = 0
              \/ Excess = 1 /\ owners[1] = "REPLACE" /\ last_kind = "SYSTEM"]_harnessVars
  BY OrdinalRight
<1> QED
  BY <1>5, <1>6, PTL DEF OrdinalIsRight

-----------------------------------------------------------------------------
(* The shares the levels show, and the orders they come from.               *)

\* Whatever element is taken off, the others sum up to the rest.
LEMMA SumLaw ==
  ASSUME NEW S, IsFiniteSet(S), NEW F, NEW f \in [S -> Nat], Sums(F, f, S)
  PROVE  \A s \in SUBSET S : \A x \in s : F[s] = f[x] + F[s \ {x}]
<1> DEFINE P(s) == \A x \in s : F[s] = f[x] + F[s \ {x}]
           W == {n \in Nat : \A s \in UpTo(S, n) : P(s)}
<1>1. ASSUME NEW s \in SUBSET S PROVE IsFiniteSet(s) /\ Cardinality(s) \in Nat
  BY <1>1, FS_Subset, FS_CardinalityType
<1>2. ASSUME NEW s \in SUBSET S, s = {} PROVE P(s)
  BY <1>2
<1>3. 0 \in W
  <2>1. ASSUME NEW s \in UpTo(S, 0) PROVE P(s)
    <3>1. s \in SUBSET S /\ Cardinality(s) <= 0
      BY DEF UpTo
    <3>2. Cardinality(s) = 0 /\ IsFiniteSet(s)
      BY <1>1, <3>1
    <3>3. s = {}
      BY <3>2, FS_EmptySet
    <3> QED
      BY <3>3
  <2> QED
    BY <2>1
<1>4. ASSUME NEW n \in W PROVE n + 1 \in W
  <2>1. n \in Nat /\ n + 1 \in Nat /\ \A s \in UpTo(S, n) : P(s)
    BY <1>4
  <2>2. ASSUME NEW s \in UpTo(S, n + 1), NEW x \in s PROVE F[s] = f[x] + F[s \ {x}]
    <3>1. s \in SUBSET S /\ Cardinality(s) <= n + 1 /\ s # {}
      BY <2>2 DEF UpTo
    <3>2. PICK y, r : y = First(s) /\ r = Others(s)
      OBVIOUS
    <3>3. /\ y \in s /\ r = s \ {y} /\ r \in SUBSET S /\ Cardinality(s) \in Nat
          /\ Cardinality(r) \in Nat /\ Cardinality(r) = Cardinality(s) - 1
      BY <3>1, <3>2, OneLess DEF Others
    <3>4. F[s] = f[y] + F[r]
      BY <3>1, <3>2 DEF Sums, SumsOver
    <3>5. CASE x = y
      BY <3>3, <3>4, <3>5
    <3>6. CASE x # y
      <4>1. r \in UpTo(S, n)
        BY <2>1, <3>1, <3>3 DEF UpTo
      <4>2. F[r] = f[x] + F[r \ {x}]
        BY <2>1, <3>3, <3>6, <4>1
      <4>3. PICK q : q = s \ {x}
        OBVIOUS
      <4>4. q \in SUBSET S /\ y \in q /\ q \ {y} = r \ {x} /\ r \ {x} \in SUBSET S
        BY <3>1, <3>3, <3>6, <4>3
      <4>5. q \in UpTo(S, n)
        <5>1. IsFiniteSet(s)
          BY <1>1, <3>1
        <5>2. Cardinality(q) = Cardinality(s) - 1
          BY <2>2, <4>3, <5>1, FS_RemoveElement
        <5> QED
          BY <2>1, <3>1, <3>3, <4>4, <5>2 DEF UpTo
      <4>6. F[q] = f[y] + F[q \ {y}]
        BY <2>1, <4>4, <4>5
      <4>7. F[r \ {x}] \in Nat /\ f[x] \in Nat /\ f[y] \in Nat
        BY <3>1, <3>3, <4>4 DEF Sums
      <4>8. PICK a, b, c : a = f[x] /\ b = f[y] /\ c = F[r \ {x}]
        OBVIOUS
      <4>9. F[s] = b + (a + c) /\ F[q] = b + c /\ a \in Nat /\ b \in Nat /\ c \in Nat
        BY <3>4, <4>2, <4>4, <4>6, <4>7, <4>8
      <4>10. F[s] = a + F[q]
        BY <4>9
      <4> QED
        BY <4>3, <4>8, <4>10
    <3> QED
      BY <3>5, <3>6
  <2> QED
    BY <2>1, <2>2
<1>5. W \in SUBSET Nat
  OBVIOUS
<1>6. W = Nat
  <2> HIDE DEF W
  <2> QED
    BY <1>3, <1>4, <1>5, AllNumbers
<1>7. ASSUME NEW s \in SUBSET S PROVE P(s)
  <2>1. Cardinality(s) \in Nat
    BY <1>1
  <2>2. s \in UpTo(S, Cardinality(s))
    BY <2>1 DEF UpTo
  <2>3. Cardinality(s) \in W
    BY <1>6, <2>1
  <2> QED
    BY <2>2, <2>3
<1> QED
  BY <1>7

\* The slots of table m whose orders rest at a price, and their shares.
SlotsAt(m, i, side, p) ==
  {a \in Addr : m[a].vld /\ m[a].book_idx = i /\ m[a].side = side /\ m[a].price = p}

SharesIn(m) == [a \in Addr |-> m[a].shares]

Resting0(m, i, side, p) == MapThenSumSet(LAMBDA a : m[a].shares, SlotsAt(m, i, side, p))

\* The fold of a set of slots is the sum.
LEMMA FoldIsSum ==
  ASSUME NEW m, NEW T \in SUBSET Addr, NEW F, Sums(F, SharesIn(m), Addr),
         SharesIn(m) \in [Addr -> Nat]
  PROVE  MapThenSumSet(LAMBDA a : m[a].shares, T) = F[T]
<1> DEFINE E(h, s) == IF s = {} THEN 0
                      ELSE m[CHOOSE x \in s : TRUE].shares + h[s \ {CHOOSE x \in s : TRUE}]
           iter == CHOOSE h : h = [s \in SUBSET T |-> E(h, s)]
<1>1. IsFiniteSet(Addr) /\ IsFiniteSet(T)
  <2>1. IsFiniteSet(Addr)
    <3>1. 0 \in Int /\ DEPTH - 1 \in Int
      BY TableAssumption
    <3> QED
      BY <3>1, FS_Interval DEF Addr
  <2> QED
    BY <2>1, FS_Subset
<1>2. PICK G : G = [s \in SUBSET T |-> F[s]]
  OBVIOUS
<1>3. G = [s \in SUBSET T |-> E(G, s)]
  <2>1. ASSUME NEW s \in SUBSET T PROVE F[s] = E(G, s)
    <3>1. s \in SUBSET Addr
      OBVIOUS
    <3>2. CASE s = {}
      BY <3>1, <3>2 DEF Sums, SumsOver
    <3>3. CASE s # {}
      <4>1. First(s) \in Addr /\ Others(s) \in SUBSET T /\ First(s) \in s
        BY <1>1, <3>1, <3>3, OneLess DEF Others
      <4>2. F[s] = SharesIn(m)[First(s)] + F[Others(s)]
        BY <3>1, <3>3 DEF Sums, SumsOver
      <4>3. SharesIn(m)[First(s)] = m[First(s)].shares /\ G[Others(s)] = F[Others(s)]
        BY <1>2, <4>1 DEF SharesIn
      <4>4. F[s] = m[First(s)].shares + G[Others(s)]
        BY <4>2, <4>3
      <4> QED
        BY <3>3, <4>4 DEF First, Others
    <3> QED
      BY <3>2, <3>3
  <2> QED
    BY <1>2, <2>1
<1>4. iter = [s \in SUBSET T |-> E(iter, s)]
  <2> HIDE DEF E
  <2> QED
    BY <1>3, Zenon
<1>5. PICK I : I = iter
  OBVIOUS
<1>6. SumsOver(I, SharesIn(m), SUBSET T)
  <2>1. ASSUME NEW s \in SUBSET T PROVE I[s] = E(I, s)
    <3> HIDE DEF E, iter
    <3> QED
      BY <1>4, <1>5
  <2>2. ASSUME NEW s \in SUBSET T, s # {} PROVE m[First(s)].shares = SharesIn(m)[First(s)]
    <3>1. First(s) \in Addr
      BY <1>1, <2>2, OneLess
    <3> QED
      BY <3>1 DEF SharesIn
  <2>3. ASSUME NEW s \in SUBSET T
        PROVE  I[s] = IF s = {} THEN 0 ELSE SharesIn(m)[First(s)] + I[Others(s)]
    <3>1. I[s] = IF s = {} THEN 0 ELSE m[First(s)].shares + I[Others(s)]
      BY <2>1 DEF First, Others
    <3> QED
      BY <2>2, <3>1
  <2> QED
    BY <2>3 DEF SumsOver
<1>7. \A s \in SUBSET T : I[s] = F[s]
  <2>1. \A x \in T : SharesIn(m)[x] = SharesIn(m)[x]
    OBVIOUS
  <2> QED
    BY <1>1, <1>6, <2>1, SumUnique
<1>8. MapThenSumSet(LAMBDA a : m[a].shares, T) = iter[T]
  BY DEF MapThenSumSet, MapThenFoldSet
<1> QED
  <2> HIDE DEF iter
  <2> QED
    BY <1>5, <1>7, <1>8

\* What a slot adds to what rests at a price.
Part(e, i, side, p) ==
  IF e.vld /\ e.book_idx = i /\ e.side = side /\ e.price = p THEN e.shares ELSE 0

\* The slots of the table are finite in number.
LEMMA AddrFinite == IsFiniteSet(Addr)
<1>1. 0 \in Int /\ DEPTH - 1 \in Int
  BY TableAssumption
<1> QED
  BY <1>1, FS_Interval DEF Addr

\* Shares are numbers.
LEMMA SharesTyped ==
  ASSUME NEW m \in [Addr -> Entry]
  PROVE  SharesIn(m) \in [Addr -> Nat] /\ \A a \in Addr : m[a].shares \in Nat
<1>1. ASSUME NEW a \in Addr PROVE m[a].shares \in Nat
  <2>1. m[a].shares \in Shares
    BY DEF Entry
  <2> QED
    BY <2>1, DataAssumption DEF Shares
<1> QED
  BY <1>1 DEF SharesIn

\* What rests at a price is what one slot adds and what the others do.
RestsAs(m, F, a, i, side, p) ==
  /\ SlotsAt(m, i, side, p) \ {a} \in SUBSET Addr
  /\ F[SlotsAt(m, i, side, p) \ {a}] \in Nat
  /\ Part(m[a], i, side, p) \in Nat
  /\ Resting0(m, i, side, p) = Part(m[a], i, side, p) + F[SlotsAt(m, i, side, p) \ {a}]

\* So it is, for any slot.
LEMMA RestingParts ==
  ASSUME NEW m \in [Addr -> Entry], NEW F, Sums(F, SharesIn(m), Addr), NEW a \in Addr,
         NEW i, NEW side, NEW p
  PROVE  RestsAs(m, F, a, i, side, p)
<1>1. PICK T, c : T = SlotsAt(m, i, side, p) /\ c = Part(m[a], i, side, p)
  OBVIOUS
<1>2. T \in SUBSET Addr /\ T \ {a} \in SUBSET Addr
  BY <1>1 DEF SlotsAt
<1>3. Resting0(m, i, side, p) = F[T]
  BY <1>1, <1>2, FoldIsSum, SharesTyped DEF Resting0
<1>4. F[T \ {a}] \in Nat /\ m[a].shares \in Nat
  BY <1>2, SharesTyped DEF Sums
<1>5. ASSUME a \in T PROVE c \in Nat /\ F[T] = c + F[T \ {a}]
  <2>1. F[T] = SharesIn(m)[a] + F[T \ {a}]
    BY <1>2, <1>5, AddrFinite, SharesTyped, SumLaw
  <2>2. c = m[a].shares /\ SharesIn(m)[a] = m[a].shares
    BY <1>1, <1>5 DEF SlotsAt, Part, SharesIn
  <2> QED
    BY <1>2, <1>4, <2>1, <2>2
<1>6. ASSUME a \notin T PROVE c \in Nat /\ F[T] = c + F[T \ {a}]
  <2>1. T \ {a} = T /\ c = 0
    BY <1>1, <1>6 DEF SlotsAt, Part
  <2> QED
    BY <1>2, <1>4, <2>1
<1>7. T \ {a} \in SUBSET Addr /\ F[T \ {a}] \in Nat /\ c \in Nat /\ F[T] = c + F[T \ {a}]
  BY <1>2, <1>4, <1>5, <1>6
<1> QED
  BY <1>1, <1>3, <1>7, Zenon DEF RestsAs

\* A write to slot a, seen from a price: what the slot adds changes, and not what
\* the others do.
WriteRests(m, n, a, i, side, p) ==
  \E r \in Nat : /\ Resting0(m, i, side, p) = Part(m[a], i, side, p) + r
                 /\ Resting0(n, i, side, p) = Part(n[a], i, side, p) + r
                 /\ Part(m[a], i, side, p) \in Nat
                 /\ Part(n[a], i, side, p) \in Nat

\* So it is.
LEMMA RestingChange ==
  ASSUME NEW m \in [Addr -> Entry], NEW a \in Addr, NEW e \in Entry,
         NEW n, n = [m EXCEPT ![a] = e], NEW i, NEW side, NEW p
  PROVE  WriteRests(m, n, a, i, side, p)
<1>1. n \in [Addr -> Entry] /\ n[a] = e /\ \A b \in Addr \ {a} : n[b] = m[b]
  OBVIOUS
<1>2. PICK F : Sums(F, SharesIn(m), Addr)
  BY AddrFinite, SharesTyped, SumExists
<1>3. PICK G : Sums(G, SharesIn(n), Addr)
  BY <1>1, AddrFinite, SharesTyped, SumExists
<1>4. PICK T : T = SlotsAt(m, i, side, p) \ {a}
  OBVIOUS
<1>5. SlotsAt(n, i, side, p) \ {a} = T
  BY <1>1, <1>4 DEF SlotsAt
<1>6. /\ T \in SUBSET Addr /\ F[T] \in Nat /\ Part(m[a], i, side, p) \in Nat
      /\ Resting0(m, i, side, p) = Part(m[a], i, side, p) + F[T]
  <2>1. RestsAs(m, F, a, i, side, p)
    BY <1>2, RestingParts
  <2> QED
    BY <1>4, <2>1, Zenon DEF RestsAs
<1>7. /\ Part(e, i, side, p) \in Nat
      /\ Resting0(n, i, side, p) = Part(e, i, side, p) + G[T]
  <2>1. RestsAs(n, G, a, i, side, p)
    BY <1>1, <1>3, RestingParts
  <2> QED
    BY <1>1, <1>5, <2>1, Zenon DEF RestsAs
<1>8. G[T] = F[T]
  <2>1. SumsOver(G, SharesIn(n), SUBSET T)
    <3>1. \A s \in SUBSET T : s \in SUBSET Addr
      BY <1>6
    <3> QED
      BY <1>3, <3>1 DEF Sums, SumsOver
  <2>2. \A x \in T : SharesIn(n)[x] = SharesIn(m)[x]
    BY <1>1, <1>4, <1>6 DEF SharesIn
  <2>3. PICK f, g : f = SharesIn(m) /\ g = SharesIn(n)
    OBVIOUS
  <2>4. /\ Sums(F, f, Addr) /\ SumsOver(G, g, SUBSET T) /\ \A x \in T : g[x] = f[x]
        /\ T \in SUBSET Addr
    BY <1>2, <1>6, <2>1, <2>2, <2>3
  <2>5. \A s \in SUBSET T : G[s] = F[s]
    BY <2>4, AddrFinite, SumUnique
  <2> QED
    BY <2>5
<1> QED
  BY <1>1, <1>6, <1>7, <1>8 DEF WriteRests

\* What rests is a number.
LEMMA RestingTyped ==
  ASSUME NEW m \in [Addr -> Entry], NEW i, NEW side, NEW p
  PROVE  Resting0(m, i, side, p) \in Nat
<1>1. PICK F : Sums(F, SharesIn(m), Addr)
  BY AddrFinite, SharesTyped, SumExists
<1>2. SlotsAt(m, i, side, p) \in SUBSET Addr
  BY DEF SlotsAt
<1>3. Resting0(m, i, side, p) = F[SlotsAt(m, i, side, p)]
  BY <1>1, <1>2, FoldIsSum, SharesTyped DEF Resting0
<1> QED
  BY <1>1, <1>2, <1>3 DEF Sums

\* What the table of an edge owes to the one before it: with an operation that
\* adds, the shares it adds rest at its price; with one that reduces, no more than
\* it takes are gone from there; and from no other price is anything gone.
Owes(m, n, op, i, side, p) ==
  IF i = op.book_idx /\ side = op.side /\ p = op.price
  THEN IF op.op = "OP_ADD" THEN Resting0(m, i, side, p) + op.shares <= Resting0(n, i, side, p)
       ELSE Resting0(m, i, side, p) <= Resting0(n, i, side, p) + op.shares
  ELSE Resting0(m, i, side, p) <= Resting0(n, i, side, p)

\* The levels of a side of book i hold no more than what rests at their prices.
Backed(cur, m, i, side) ==
  \A l \in Level : cur[l].shares <= Resting0(m, i, side, cur[l].price)

\* The levels of a side are numbers.
LEMMA LevelNumbers ==
  ASSUME NEW cur \in PB!SideState, NEW l \in Level
  PROVE  cur[l].shares \in Nat /\ cur[l].price \in Nat
<1>1. l \in PB!Level
  BY SameSides
<1>2. cur[l].shares \in 0 .. ShareMod - 1 /\ cur[l].price \in Nat
  BY <1>1, BookConstants, PB!LevelParts
<1> QED
  BY <1>2

\* A side that holds no operation stays backed.
LEMMA StillBacked ==
  ASSUME NEW m \in [Addr -> Entry], NEW n \in [Addr -> Entry], NEW cur \in PB!SideState,
         NEW i, NEW side, Backed(cur, m, i, side),
         \A p \in Nat : Resting0(m, i, side, p) <= Resting0(n, i, side, p)
  PROVE  Backed(cur, n, i, side)
<1>1. ASSUME NEW l \in Level PROVE cur[l].shares <= Resting0(n, i, side, cur[l].price)
  <2>1. PICK s, p : s = cur[l].shares /\ p = cur[l].price
    OBVIOUS
  <2>2. s \in Nat /\ p \in Nat
    BY <2>1, LevelNumbers
  <2>3. PICK a, b : a = Resting0(m, i, side, p) /\ b = Resting0(n, i, side, p)
    OBVIOUS
  <2>4. a \in Nat /\ b \in Nat
    BY <2>3, RestingTyped
  <2>5. s <= a /\ a <= b
    BY <2>1, <2>2, <2>3 DEF Backed
  <2>6. s <= b
    BY <2>2, <2>4, <2>5
  <2> QED
    BY <2>1, <2>3, <2>6
<1> QED
  BY <1>1 DEF Backed

\* The side an operation goes to stays backed as well.
LEMMA OpBacked ==
  ASSUME NEW m \in [Addr -> Entry], NEW n \in [Addr -> Entry], NEW cur \in PB!SideState,
         NEW op \in Op, PB!WellFormed(op.side, cur), Backed(cur, m, op.book_idx, op.side),
         \A p \in Nat : Owes(m, n, op, op.book_idx, op.side, p),
         NEW nxt, nxt = NextSide(cur, op).lvls
  PROVE  Backed(nxt, n, op.book_idx, op.side)
<1>1. PICK i, side, q, x : i = op.book_idx /\ side = op.side /\ q = op.price /\ x = op.shares
  OBVIOUS
<1>2. /\ side \in {Bid, Ask} /\ q \in Price \cup {0} /\ x \in Shares
      /\ op.op \in {"OP_ADD", "OP_REDUCE"}
  BY <1>1, SameSides DEF Op
<1>3. q \in Nat /\ x \in Nat
  BY <1>2, DataAssumption DEF Shares
<1>4. PICK o : o = [op |-> op.op, side |-> side, price |-> q, shares |-> x]
  OBVIOUS
<1>5. o \in PB!Op /\ NextSide(cur, op) = PB!NextSide(cur, o)
  <2>1. o \in PB!Op
    BY <1>2, <1>4, SameSides DEF PB!Op
  <2> QED
    BY <1>1, <1>4, <2>1, SameDatapath
<1>6. PICK R, S : /\ R = [p \in Nat |-> Resting0(m, i, side, p)]
                  /\ S = [p \in Nat |-> Resting0(n, i, side, p)]
  OBVIOUS
<1>7. \A p \in Nat : R[p] \in Nat /\ S[p] \in Nat
  BY <1>6, RestingTyped
<1>8. \A l \in Level : /\ cur[l].shares \in Nat /\ cur[l].price \in Nat
                       /\ cur[l].shares <= R[cur[l].price]
  BY <1>1, <1>6, LevelNumbers DEF Backed
<1>9. /\ \A p \in Nat : p # q => R[p] <= S[p]
      /\ op.op = "OP_ADD" => R[q] + x <= S[q]
      /\ op.op = "OP_REDUCE" => R[q] <= S[q] + x
  BY <1>1, <1>2, <1>3, <1>6 DEF Owes
<1>10. SUFFICES ASSUME NEW l \in Level
                PROVE  nxt[l].price \in Nat /\ nxt[l].shares <= S[nxt[l].price]
  BY <1>1, <1>6 DEF Backed
<1>11. PICK e : e = nxt[l]
  OBVIOUS
<1>12. nxt \in PB!SideState
  <2>1. o.side = side /\ side \in {PB!Bid, PB!Ask} /\ PB!WellFormed(side, cur)
    BY <1>1, <1>2, <1>4, SameSides
  <2> QED
    BY <1>5, <2>1, BookConstants, PB!NextSideKeeps
<1>13. e.price \in Nat /\ e.shares \in Nat
  BY <1>11, <1>12, LevelNumbers
<1>14. CASE op.op = "OP_ADD"
  <2>1. PB!Grown(cur, e, o)
    <3>1. nxt = PB!AddTo(cur, o).lvls /\ l \in PB!Level
      BY <1>4, <1>5, <1>14, SameSides DEF PB!NextSide
    <3> QED
      BY <1>5, <1>11, <3>1, BookConstants, PB!AddGrows
  <2>2. CASE \E k \in Level : e.price = cur[k].price /\ e.shares = cur[k].shares
    <3>1. PICK k \in Level : e.price = cur[k].price /\ e.shares = cur[k].shares
      BY <2>2
    <3>2. PICK p, s : p = e.price /\ s = e.shares
      OBVIOUS
    <3>3. p \in Nat /\ s \in Nat /\ s <= R[p] /\ R[p] \in Nat /\ S[p] \in Nat
      BY <1>7, <1>8, <1>13, <3>1, <3>2
    <3>4. R[p] <= S[p]
      <4>1. R[q] <= S[q]
        BY <1>3, <1>7, <1>9, <1>14
      <4> QED
        BY <1>9, <3>3, <4>1
    <3>5. s <= S[p]
      BY <3>3, <3>4
    <3> QED
      BY <1>11, <3>2, <3>3, <3>5
  <2>3. CASE e.price = q /\ e.shares = x
    <3>1. x <= S[q]
      BY <1>3, <1>7, <1>9, <1>14
    <3> QED
      BY <1>3, <1>11, <2>3, <3>1
  <2>4. CASE \E k \in Level : /\ cur[k].price = q /\ e.price = q
                              /\ e.shares <= cur[k].shares + x
    <3>1. PICK k \in Level : cur[k].price = q /\ e.price = q /\ e.shares <= cur[k].shares + x
      BY <2>4
    <3>2. PICK s, t : s = e.shares /\ t = cur[k].shares
      OBVIOUS
    <3>3. s \in Nat /\ t \in Nat /\ s <= t + x /\ t <= R[q] /\ R[q] \in Nat /\ S[q] \in Nat
      BY <1>3, <1>7, <1>8, <1>13, <3>1, <3>2
    <3>4. R[q] + x <= S[q]
      BY <1>9, <1>14
    <3>5. s <= S[q]
      BY <1>3, <3>3, <3>4
    <3> QED
      BY <1>3, <1>11, <3>1, <3>2, <3>5
  <2> QED
    BY <1>4, <2>1, <2>2, <2>3, <2>4, SameSides DEF PB!Grown
<1>15. CASE op.op = "OP_REDUCE"
  <2>1. PB!Shrunk(cur, e, o)
    <3>1. nxt = PB!ReduceFrom(cur, o).lvls /\ l \in PB!Level /\ side \in {PB!Bid, PB!Ask}
      BY <1>2, <1>4, <1>5, <1>15, SameSides DEF PB!NextSide
    <3>2. PB!WellFormed(side, cur)
      BY <1>1
    <3> QED
      BY <1>5, <1>11, <3>1, <3>2, BookConstants, PB!ReduceShrinks
  <2>2. CASE e.shares = 0
    BY <1>7, <1>11, <1>13, <2>2
  <2>3. CASE \E k \in Level : /\ e.price = cur[k].price
                              /\ cur[k].price # q /\ e.shares = cur[k].shares
    <3>1. PICK k \in Level : /\ e.price = cur[k].price /\ cur[k].price # q
                            /\ e.shares = cur[k].shares
      BY <2>3
    <3>2. PICK p, s : p = e.price /\ s = e.shares
      OBVIOUS
    <3>3. /\ p \in Nat /\ s \in Nat /\ s <= R[p] /\ R[p] \in Nat /\ S[p] \in Nat
          /\ R[p] <= S[p]
      BY <1>7, <1>8, <1>9, <1>13, <3>1, <3>2
    <3>4. s <= S[p]
      BY <3>3
    <3> QED
      BY <1>11, <3>2, <3>3, <3>4
  <2>4. CASE \E k \in Level : /\ e.price = cur[k].price
                              /\ cur[k].price = q /\ e.shares + x <= cur[k].shares
    <3>1. PICK k \in Level : /\ e.price = cur[k].price /\ cur[k].price = q
                            /\ e.shares + x <= cur[k].shares
      BY <2>4
    <3>2. PICK s, t : s = e.shares /\ t = cur[k].shares
      OBVIOUS
    <3>3. s \in Nat /\ t \in Nat /\ s + x <= t /\ t <= R[q] /\ R[q] \in Nat /\ S[q] \in Nat
      BY <1>3, <1>7, <1>8, <1>13, <3>1, <3>2
    <3>4. R[q] <= S[q] + x
      BY <1>9, <1>15
    <3>5. s <= S[q]
      BY <1>3, <3>3, <3>4
    <3> QED
      BY <1>3, <1>11, <3>1, <3>2, <3>5
  <2> QED
    BY <1>4, <2>1, <2>2, <2>3, <2>4, SameSides DEF PB!Shrunk
<1> QED
  BY <1>2, <1>14, <1>15

\* A slot that gives up at most what the operation takes.
LEMMA TakenOwes ==
  ASSUME NEW m \in [Addr -> Entry], NEW a \in Addr, NEW d, d = m[a], d.vld, NEW e \in Entry,
         NEW x \in Shares, NEW n, n = [m EXCEPT ![a] = e], NEW op,
         op = BookOp("OP_REDUCE", d.book_idx, d.side, d.price, x),
         \/ ~e.vld /\ d.shares <= x
         \/ e = [d EXCEPT !.shares = d.shares - x],
         NEW i, NEW side, NEW p
  PROVE  Owes(m, n, op, i, side, p)
<1>1. /\ op.op = "OP_REDUCE" /\ op.book_idx = d.book_idx /\ op.side = d.side
      /\ op.price = d.price /\ op.shares = x
  BY DEF BookOp
<1>2. PICK r \in Nat : /\ Resting0(m, i, side, p) = Part(m[a], i, side, p) + r
                       /\ Resting0(n, i, side, p) = Part(n[a], i, side, p) + r
                       /\ Part(m[a], i, side, p) \in Nat
                       /\ Part(n[a], i, side, p) \in Nat
  <2>1. WriteRests(m, n, a, i, side, p)
    BY RestingChange
  <2> QED
    BY <2>1, Zenon DEF WriteRests
<1>0. n[a] = e
  OBVIOUS
<1>3. x \in Nat /\ d.shares \in Nat
  BY SharesTyped, DataAssumption DEF Shares
<1>4. d \in Entry
  OBVIOUS
<1>5. PICK f, g, A, B : /\ f = Part(d, i, side, p) /\ g = Part(e, i, side, p)
                        /\ A = Resting0(m, i, side, p) /\ B = Resting0(n, i, side, p)
  OBVIOUS
<1>6. f \in Nat /\ g \in Nat /\ A = f + r /\ B = g + r
  BY <1>0, <1>2, <1>5
<1>7. CASE i = d.book_idx /\ side = d.side /\ p = d.price
  <2>1. f <= g + x
    <3>1. f = d.shares
      BY <1>5, <1>7 DEF Part
    <3>2. CASE ~e.vld /\ d.shares <= x
      <4>1. g = 0
        BY <1>5, <3>2 DEF Part
      <4> QED
        BY <1>3, <3>1, <3>2, <4>1
    <3>3. CASE e = [d EXCEPT !.shares = d.shares - x]
      <4>1. /\ e.vld /\ e.book_idx = d.book_idx /\ e.side = d.side /\ e.price = d.price
            /\ e.shares = d.shares - x
        BY <1>4, <3>3 DEF Entry
      <4>2. g = d.shares - x
        BY <1>5, <1>7, <4>1 DEF Part
      <4> QED
        BY <1>3, <3>1, <4>2
    <3> QED
      BY <3>2, <3>3
  <2>2. A <= B + x
    BY <1>3, <1>6, <2>1
  <2> QED
    BY <1>1, <1>5, <1>7, <2>2 DEF Owes
<1>8. CASE ~(i = d.book_idx /\ side = d.side /\ p = d.price)
  <2>1. f = 0
    BY <1>5, <1>8 DEF Part
  <2>2. A <= B
    BY <1>6, <2>1
  <2> QED
    BY <1>1, <1>5, <1>8, <2>2 DEF Owes
<1> QED
  BY <1>7, <1>8

\* A free slot that takes an order.
LEMMA PutOwes ==
  ASSUME NEW m \in [Addr -> Entry], NEW a \in Addr, ~m[a].vld, NEW e \in Entry, e.vld,
         NEW n, n = [m EXCEPT ![a] = e], NEW op,
         op = BookOp("OP_ADD", e.book_idx, e.side, e.price, e.shares),
         NEW i, NEW side, NEW p
  PROVE  Owes(m, n, op, i, side, p)
<1>1. /\ op.op = "OP_ADD" /\ op.book_idx = e.book_idx /\ op.side = e.side
      /\ op.price = e.price /\ op.shares = e.shares
  BY DEF BookOp
<1>2. PICK r \in Nat : /\ Resting0(m, i, side, p) = Part(m[a], i, side, p) + r
                       /\ Resting0(n, i, side, p) = Part(n[a], i, side, p) + r
                       /\ Part(m[a], i, side, p) \in Nat
                       /\ Part(n[a], i, side, p) \in Nat
  <2>1. WriteRests(m, n, a, i, side, p)
    BY RestingChange
  <2> QED
    BY <2>1, Zenon DEF WriteRests
<1>0. n[a] = e
  OBVIOUS
<1>3. Part(m[a], i, side, p) = 0
  BY DEF Part
<1>4. PICK g, A, B : /\ g = Part(e, i, side, p) /\ A = Resting0(m, i, side, p)
                     /\ B = Resting0(n, i, side, p)
  OBVIOUS
<1>5. g \in Nat /\ A = r /\ B = g + r
  BY <1>0, <1>2, <1>3, <1>4
<1>6. A <= B
  BY <1>5
<1>7. CASE i = e.book_idx /\ side = e.side /\ p = e.price
  <2>1. g = e.shares
    BY <1>4, <1>7 DEF Part
  <2>2. A + e.shares <= B
    BY <1>5, <2>1
  <2> QED
    BY <1>1, <1>4, <1>7, <2>2 DEF Owes
<1>8. CASE ~(i = e.book_idx /\ side = e.side /\ p = e.price)
  BY <1>1, <1>4, <1>6, <1>8 DEF Owes
<1> QED
  BY <1>7, <1>8

\* What a lookup frees or lowers in the table is what it takes from the book.
LEMMA HitOwes ==
  ASSUME IndInv, LookHit
  PROVE  \A i, side, p : Owes(mem, mem', out_op', i, side, p)
<1>1. PICK m, n, a, d, e, x, op :
        /\ m = mem /\ n = mem' /\ a = addr_q /\ d = rd_data /\ e = WrData /\ op = out_op'
        /\ x = IF Reduces THEN req_q.shares ELSE rd_data.shares
  OBVIOUS
<1>2. WrEn /\ TypeInv /\ rd_data = mem[addr_q] /\ rd_data.vld
  BY DEF LookHit, WrEn, IdMatch, IndInv, ReadCoherent
<1>3. m \in [Addr -> Entry] /\ a \in Addr /\ d = m[a] /\ d.vld /\ e \in Entry
  BY <1>1, <1>2, WriteTyped DEF TypeInv, TypeOK
<1>4. n = [m EXCEPT ![a] = e]
  BY <1>1, <1>2 DEF LookHit, MemWrite
<1>5. op = BookOp("OP_REDUCE", d.book_idx, d.side, d.price, x)
  BY <1>1 DEF LookHit, Emit
<1>6. x \in Shares
  BY <1>1, <1>2 DEF TypeInv, TypeOK, Entry, Request
<1>7. d.shares \in Nat /\ req_q.shares \in Nat
  BY <1>1, <1>2, DataAssumption DEF TypeInv, TypeOK, Entry, Request, Shares
<1>8. (~e.vld /\ d.shares <= x) \/ e = [d EXCEPT !.shares = d.shares - x]
  <2>1. CASE Frees
    <3>1. e = Tombstone
      BY <1>1, <2>1 DEF LookHit, WrData
    <3>2. ~e.vld
      BY <3>1 DEF Tombstone, ZeroEntry, SlotEntry
    <3>3. d.shares <= x
      BY <1>1, <1>7, <2>1 DEF Frees
    <3> QED
      BY <3>2, <3>3
  <2>2. CASE ~Frees
    <3>1. Reduces
      BY <2>2 DEF Frees
    <3> QED
      BY <1>1, <2>2, <3>1 DEF LookHit, WrData
  <2> QED
    BY <2>1, <2>2
<1>9. ASSUME NEW i, NEW side, NEW p PROVE Owes(m, n, op, i, side, p)
  <2>1. CASE ~e.vld /\ d.shares <= x
    BY <1>3, <1>4, <1>5, <1>6, <2>1, TakenOwes
  <2>2. CASE e = [d EXCEPT !.shares = d.shares - x]
    BY <1>3, <1>4, <1>5, <1>6, <2>2, TakenOwes
  <2> QED
    BY <1>8, <2>1, <2>2
<1> QED
  BY <1>1, <1>9

\* What an insert puts into the table is what it adds to the book.
LEMMA InsertOwes ==
  ASSUME ~ReuseIds, IndInv, FreshInv, InsWrite
  PROVE  \A i, side, p : Owes(mem, mem', out_op', i, side, p)
<1>1. PICK m, n, a, e, op : m = mem /\ n = mem' /\ a = addr_q /\ e = WrData /\ op = out_op'
  OBVIOUS
<1>2. WrEn /\ TypeInv /\ rd_data = mem[addr_q] /\ addr_q \in Addr
  BY DEF InsWrite, WrEn, IndInv, ReadCoherent, TypeInv, TypeOK
<1>3. ~rd_data.vld
  <2>1. SUFFICES ASSUME rd_data.vld PROVE FALSE
    OBVIOUS
  <2>2. rd_data.order_id \in LiveIds
    BY <1>2, <2>1 DEF LiveIds
  <2>3. req_q.ins_id \notin LiveIds
    BY DEF FreshInv, InsWrite
  <2> QED
    BY <2>1, <2>2, <2>3 DEF InsWrite, InsHit, SlotFree
<1>4. m \in [Addr -> Entry] /\ a \in Addr /\ ~m[a].vld /\ e \in Entry
  BY <1>1, <1>2, <1>3, WriteTyped DEF TypeInv, TypeOK
<1>5. n = [m EXCEPT ![a] = e]
  BY <1>1, <1>2 DEF InsWrite, MemWrite
<1>6. e = SlotEntry(req_q.ins_id, req_q.idx, req_q.side, req_q.price, req_q.shares)
  BY <1>1 DEF InsWrite, WrData
<1>7. e.vld /\ op = BookOp("OP_ADD", e.book_idx, e.side, e.price, e.shares)
  BY <1>1, <1>6 DEF InsWrite, Emit, SlotEntry
<1>8. \A i, side, p : Owes(m, n, op, i, side, p)
  BY <1>4, <1>5, <1>7, PutOwes
<1> QED
  BY <1>1, <1>8

\* An edge without an operation leaves the swept table alone.
LEMMA TableHeld ==
  ASSUME Swept, BusyStep \/ Idle \/ (\E m \in Msg : Accept(m)), ~(LookHit \/ InsWrite)
  PROVE  mem' = mem /\ ~out_valid' /\ Swept'
<1>1. LookMiss \/ LookNext \/ InsFull \/ InsNext \/ Idle \/ \E m \in Msg : Accept(m)
  BY DEF BusyStep, Clear, Swept
<1>2. ~WrEn
  BY <1>1 DEF LookMiss, LookNext, InsFull, InsNext, Idle, Accept, AcceptUntracked, AcceptAdd,
              AcceptLookup, WrEn, Swept
<1>3. mem' = mem
  BY <1>1, <1>2 DEF LookMiss, LookNext, InsFull, InsNext, Idle, Accept, AcceptUntracked,
                    AcceptAdd, AcceptLookup, MemWrite
<1>4. ~out_valid'
  BY <1>1 DEF LookMiss, LookNext, InsFull, InsNext, Idle, Accept, AcceptUntracked,
              AcceptAdd, AcceptLookup, Quiet
<1>5. Swept'
  BY <1>1 DEF LookMiss, LookNext, InsFull, InsNext, Idle, Accept, AcceptUntracked,
              AcceptAdd, AcceptLookup, GoIdle, NextProbe, StartProbe, Swept
<1> QED
  BY <1>3, <1>4, <1>5

\* A hit and an insert hand an operation to the books.
LEMMA TableMoved ==
  ASSUME LookHit \/ InsWrite
  PROVE  out_valid' /\ Swept'
  BY DEF LookHit, InsWrite, Emit, GoIdle, StartProbe, Swept

\* Both sides of a book.
BackedBook(b, m, i) == Backed(b.bid, m, i, Bid) /\ Backed(b.ask, m, i, Ask)

BlankBook(b) == \A l \in Level : b.bid[l].shares = 0 /\ b.ask[l].shares = 0

\* The inductive form: during the sweep, when the table holds anything, the books
\* are empty and stay so.
BackedInv ==
  IF Swept THEN \A i \in BookIdx : BackedBook(Absorbed(i), mem, i)
  ELSE ~out_valid /\ \A i \in BookIdx : BlankBook(books[i])

\* A book keeps its sides without an operation.
LEMMA HoldSides ==
  ASSUME NEW b, BookShaped(b), NEW c, c = HoldBook(b)
  PROVE  c.bid = b.bid /\ c.ask = b.ask
<1>1. PICK B, A, e, r, x, u, v :
        /\ B = b.bid /\ A = b.ask /\ e = b.evict_count /\ r = b.reduce_miss_count
        /\ x = b.crossed_count /\ u = b.upd /\ v = b.upd_valid
  OBVIOUS
<1>2. b = [bid |-> B, ask |-> A, upd |-> u, upd_valid |-> v, evict_count |-> e,
           reduce_miss_count |-> r, crossed_count |-> x]
  BY <1>1 DEF BookShaped
<1>3. c = [bid |-> B, ask |-> A, upd |-> NoSnapshot, upd_valid |-> FALSE, evict_count |-> e,
           reduce_miss_count |-> r, crossed_count |-> x]
  BY <1>2 DEF HoldBook
<1> QED
  BY <1>1, <1>3

\* The books of the next edge are those that have absorbed this one's operation.
LEMMA SidesAbsorbed ==
  ASSUME BooksInv, Books
  PROVE  \A i \in BookIdx : books'[i].bid = Absorbed(i).bid /\ books'[i].ask = Absorbed(i).ask
<1>1. ASSUME NEW i \in BookIdx
      PROVE  books'[i].bid = Absorbed(i).bid /\ books'[i].ask = Absorbed(i).ask
  <2>1. CASE out_valid /\ out_op.book_idx = i
    <3>1. books'[i] = ApplyOp(books[i], out_op)
      BY <2>1 DEF Books
    <3> QED
      BY <2>1, <3>1, Zenon DEF Absorbed
  <2>2. CASE ~(out_valid /\ out_op.book_idx = i)
    <3>1. books'[i] = HoldBook(books[i]) /\ BookShaped(books[i])
      BY <2>2 DEF Books, BooksInv
    <3>2. books'[i].bid = books[i].bid /\ books'[i].ask = books[i].ask
      BY <3>1, HoldSides
    <3>3. Absorbed(i) = books[i]
      BY <2>2 DEF Absorbed
    <3> QED
      BY <3>2, <3>3
  <2> QED
    BY <2>1, <2>2
<1> QED
  BY <1>1

\* From one table to the next, with the operation that goes with it.
LEMMA ApplyBacked ==
  ASSUME NEW m \in [Addr -> Entry], NEW n \in [Addr -> Entry], NEW b, BookOK(b),
         NEW op \in Op, NEW i, BackedBook(b, m, i), \A s, p : Owes(m, n, op, i, s, p),
         NEW c, c = IF op.book_idx = i THEN ApplyOp(b, op) ELSE b
  PROVE  BackedBook(c, n, i)
<1>1. /\ b.bid \in PB!SideState /\ b.ask \in PB!SideState
      /\ PB!WellFormed(Bid, b.bid) /\ PB!WellFormed(Ask, b.ask)
      /\ Backed(b.bid, m, i, Bid) /\ Backed(b.ask, m, i, Ask)
  BY DEF BookOK, BackedBook
<1>2. op.side \in {Bid, Ask} /\ Bid # Ask
  BY SameSides DEF Op
<1>3. ASSUME NEW s, NEW cur \in PB!SideState, Backed(cur, m, i, s),
             op.book_idx # i \/ op.side # s
      PROVE  Backed(cur, n, i, s)
  <2>1. \A p \in Nat : Resting0(m, i, s, p) <= Resting0(n, i, s, p)
    BY <1>3 DEF Owes
  <2> QED
    BY <1>3, <2>1, StillBacked
<1>4. CASE op.book_idx # i
  <2>1. c = b
    BY <1>4
  <2>2. Backed(b.bid, n, i, Bid) /\ Backed(b.ask, n, i, Ask)
    BY <1>1, <1>3, <1>4
  <2> QED
    BY <2>1, <2>2 DEF BackedBook
<1>5. CASE op.book_idx = i /\ op.side = Bid
  <2>1. PICK cur, nxt : cur = b.bid /\ nxt = NextSide(cur, op).lvls
    OBVIOUS
  <2>2. c.bid = nxt /\ c.ask = b.ask
    BY <1>5, <2>1 DEF ApplyOp
  <2>3. /\ cur \in PB!SideState /\ PB!WellFormed(op.side, cur)
        /\ Backed(cur, m, op.book_idx, op.side)
        /\ \A p \in Nat : Owes(m, n, op, op.book_idx, op.side, p)
    BY <1>1, <1>5, <2>1
  <2>4. Backed(nxt, n, op.book_idx, op.side)
    BY <2>1, <2>3, OpBacked
  <2>5. Backed(b.ask, n, i, Ask)
    BY <1>1, <1>2, <1>3, <1>5
  <2> QED
    BY <1>5, <2>2, <2>4, <2>5 DEF BackedBook
<1>6. CASE op.book_idx = i /\ op.side = Ask
  <2>1. PICK cur, nxt : cur = b.ask /\ nxt = NextSide(cur, op).lvls
    OBVIOUS
  <2>2. c.bid = b.bid /\ c.ask = nxt
    BY <1>2, <1>6, <2>1 DEF ApplyOp
  <2>3. /\ cur \in PB!SideState /\ PB!WellFormed(op.side, cur)
        /\ Backed(cur, m, op.book_idx, op.side)
        /\ \A p \in Nat : Owes(m, n, op, op.book_idx, op.side, p)
    BY <1>1, <1>6, <2>1
  <2>4. Backed(nxt, n, op.book_idx, op.side)
    BY <2>1, <2>3, OpBacked
  <2>5. Backed(b.bid, n, i, Bid)
    BY <1>1, <1>2, <1>3, <1>6
  <2> QED
    BY <1>6, <2>2, <2>4, <2>5 DEF BackedBook
<1> QED
  BY <1>2, <1>4, <1>5, <1>6

\* Whatever the table holds, an empty book shows no more.
LEMMA BlankBacked ==
  ASSUME NEW m \in [Addr -> Entry], NEW b, BlankBook(b), NEW i
  PROVE  BackedBook(b, m, i)
<1>1. ASSUME NEW l \in Level, NEW side
      PROVE  /\ b.bid[l].shares <= Resting0(m, i, side, b.bid[l].price)
             /\ b.ask[l].shares <= Resting0(m, i, side, b.ask[l].price)
  <2>1. PICK x, y : /\ x = Resting0(m, i, side, b.bid[l].price)
                    /\ y = Resting0(m, i, side, b.ask[l].price)
    OBVIOUS
  <2>2. x \in Nat /\ y \in Nat
    BY <2>1, RestingTyped
  <2> QED
    BY <2>1, <2>2 DEF BlankBook
<1> QED
  BY <1>1 DEF BackedBook, Backed

\* A book with the same sides is as well backed.
LEMMA SameBacked ==
  ASSUME NEW b, NEW c, c.bid = b.bid, c.ask = b.ask
  PROVE  /\ \A m, i : BackedBook(b, m, i) => BackedBook(c, m, i)
         /\ BlankBook(b) => BlankBook(c)
  BY DEF BackedBook, Backed, BlankBook

\* A clock edge keeps every level backed.
LEMMA BackedEdge ==
  ASSUME ~ReuseIds, PortInv, IndInv', FreshInv, BooksInv, BooksInv', BackedInv, Edge
  PROVE  BackedInv'
<1>1. /\ IndInv /\ NoMessageWhileBusy /\ GapInv
      /\ mem \in [Addr -> Entry] /\ mem' \in [Addr -> Entry]
      /\ out_valid \in BOOLEAN /\ out_valid' \in BOOLEAN /\ out_op' \in Op
  BY DEF PortInv, IndInv, TypeInv, TypeOK
<1>2. \A i \in BookIdx : books'[i].bid = Absorbed(i).bid /\ books'[i].ask = Absorbed(i).ask
  BY SidesAbsorbed DEF Edge
<1>3. BusyStep \/ Idle \/ \E m \in Msg : Accept(m)
  BY <1>1, EdgeCases DEF GapInv
<1>4. CASE ~Swept
  <2>1. ~out_valid /\ \A i \in BookIdx : BlankBook(books[i])
    BY <1>4 DEF BackedInv
  <2>2. Clear
    BY <1>3, <1>4 DEF Swept, BusyStep, LookHit, LookMiss, LookNext, InsWrite, InsFull, InsNext,
                      Idle, Accept, AcceptUntracked, AcceptAdd, AcceptLookup
  <2>3. ~out_valid'
    BY <2>2 DEF Clear, Quiet
  <2>4. \A i \in BookIdx : BlankBook(books'[i]) /\ Absorbed(i)' = books'[i]
    <3>1. \A i \in BookIdx : Absorbed(i) = books[i]
      BY <2>1 DEF Absorbed
    <3>2. \A i \in BookIdx : Absorbed(i)' = books'[i]
      BY <2>3 DEF Absorbed
    <3>3. ASSUME NEW i \in BookIdx PROVE BlankBook(books'[i])
      <4>1. PICK b, c : b = books[i] /\ c = books'[i]
        OBVIOUS
      <4>2. BlankBook(b) /\ c.bid = b.bid /\ c.ask = b.ask
        BY <1>2, <2>1, <3>1, <4>1
      <4> QED
        BY <4>1, <4>2, SameBacked
    <3> QED
      BY <3>2, <3>3
  <2>5. \A i \in BookIdx : BlankBook(books[i])'
    BY <2>4 DEF BlankBook
  <2>6. \A i \in BookIdx : BackedBook(Absorbed(i), mem, i)'
    <3>1. ASSUME NEW i \in BookIdx PROVE BackedBook(Absorbed(i)', mem', i)
      <4>1. PICK b, m : b = books'[i] /\ m = mem'
        OBVIOUS
      <4>2. BackedBook(b, m, i)
        BY <1>1, <2>4, <4>1, BlankBacked
      <4> QED
        BY <2>4, <4>1, <4>2
    <3> QED
      BY <3>1 DEF BackedBook, Backed
  <2> QED
    BY <2>3, <2>5, <2>6 DEF BackedInv
<1>5. CASE Swept
  <2>1. \A i \in BookIdx : BackedBook(books'[i], mem, i)
    <3>1. ASSUME NEW i \in BookIdx PROVE BackedBook(books'[i], mem, i)
      <4>1. PICK b, c : b = Absorbed(i) /\ c = books'[i]
        OBVIOUS
      <4>2. c.bid = b.bid /\ c.ask = b.ask
        BY <1>2, <4>1
      <4>3. BackedBook(b, mem, i)
        BY <1>5, <4>1 DEF BackedInv
      <4> QED
        BY <4>1, <4>2, <4>3, SameBacked
    <3> QED
      BY <3>1
  <2>2. CASE LookHit \/ InsWrite
    <3>1. out_valid' /\ Swept'
      BY <2>2, TableMoved
    <3>2. \A i, s, p : Owes(mem, mem', out_op', i, s, p)
      BY <1>1, <2>2, HitOwes, InsertOwes
    <3>3. ASSUME NEW i \in BookIdx PROVE BackedBook(Absorbed(i)', mem', i)
      <4>1. PICK m, n, b, op, c :
              /\ m = mem /\ n = mem' /\ b = books'[i] /\ op = out_op'
              /\ c = IF op.book_idx = i THEN ApplyOp(b, op) ELSE b
        OBVIOUS
      <4>2. Absorbed(i)' = c
        BY <3>1, <4>1 DEF Absorbed
      <4>3. BookOK(b)
        <5>1. BookOK(books[i])'
          BY DEF BooksInv
        <5> QED
          BY <4>1, <5>1 DEF BookOK
      <4>4. BackedBook(b, m, i) /\ \A s, p : Owes(m, n, op, i, s, p)
        BY <2>1, <3>2, <4>1
      <4>5. m \in [Addr -> Entry] /\ n \in [Addr -> Entry] /\ op \in Op
        BY <1>1, <4>1
      <4>6. BackedBook(c, n, i)
        BY <4>1, <4>3, <4>4, <4>5, ApplyBacked
      <4> QED
        BY <4>1, <4>2, <4>6
    <3> QED
      BY <3>1, <3>3 DEF BackedInv, BackedBook, Backed
  <2>3. CASE ~(LookHit \/ InsWrite)
    <3>1. mem' = mem /\ ~out_valid' /\ Swept'
      BY <1>3, <1>5, <2>3, TableHeld
    <3>2. \A i \in BookIdx : Absorbed(i)' = books'[i]
      BY <3>1 DEF Absorbed
    <3>3. \A i \in BookIdx : BackedBook(Absorbed(i)', mem', i)
      BY <2>1, <3>1, <3>2
    <3> QED
      BY <3>1, <3>3 DEF BackedInv, BackedBook, Backed
  <2> QED
    BY <2>2, <2>3
<1> QED
  BY <1>4, <1>5

\* Books just reset are empty.
LEMMA ResetBlank == BlankBook(ResetBook)
  BY DEF BlankBook, ResetBook, EmptySide, NoLevel

\* No step shows more than rests.
LEMMA BackedStep ==
  ASSUME ~ReuseIds, PortInv, PortInv', SimInv, SimInv', BackedInv, [NextTop]_topVars
  PROVE  BackedInv'
<1>1. /\ FreshInv /\ BooksInv /\ BooksInv' /\ IndInv'
  BY DEF SimInv, PortInv
<1>2. CASE Edge
  BY <1>1, <1>2, BackedEdge
<1>3. CASE ResetTop
  <2>1. ~Swept' /\ ~out_valid' /\ books' = [i \in BookIdx |-> ResetBook]
    BY <1>3 DEF ResetTop, Reset, Quiet, Swept
  <2>2. \A i \in BookIdx : BlankBook(books'[i])
    BY <2>1, ResetBlank
  <2> QED
    BY <2>1, <2>2 DEF BackedInv, BlankBook
<1>4. CASE UNCHANGED topVars
  <2>1. /\ state_q' = state_q /\ out_valid' = out_valid /\ out_op' = out_op /\ mem' = mem
        /\ books' = books
    BY <1>4 DEF topVars, vars
  <2>2. Swept' = Swept /\ \A i : Absorbed(i)' = Absorbed(i)
    BY <2>1 DEF Swept, Absorbed
  <2> QED
    BY <2>1, <2>2 DEF BackedInv, BackedBook, Backed, BlankBook
<1> QED
  BY <1>2, <1>3, <1>4 DEF NextTop

\* So it is from power-up on.
LEMMA BackedInit == InitTop => BackedInv
<1> SUFFICES ASSUME InitTop PROVE BackedInv
  OBVIOUS
<1>1. ~Swept /\ ~out_valid /\ books = [i \in BookIdx |-> ResetBook]
  BY DEF InitTop, Init, Swept
<1>2. \A i \in BookIdx : BlankBook(books[i])
  BY <1>1, ResetBlank
<1> QED
  BY <1>1, <1>2 DEF BackedInv

\* The fold of the property is the one of the proof.
LEMMA BackedShows == BackedInv => NoPhantomLiquidity
<1> SUFFICES ASSUME BackedInv, Swept PROVE NoPhantomLiquidity
  BY DEF NoPhantomLiquidity
<1>1. \A i, side, p : RestingAt(i, side, p) = Resting0(mem, i, side, p)
  BY DEF RestingAt, Resting0, SlotsAt
<1>2. \A i \in BookIdx, l \in Level :
        /\ Absorbed(i).bid[l].shares <= RestingAt(i, Bid, Absorbed(i).bid[l].price)
        /\ Absorbed(i).ask[l].shares <= RestingAt(i, Ask, Absorbed(i).ask[l].price)
  BY <1>1 DEF BackedInv, BackedBook, Backed
<1> QED
  BY <1>2 DEF NoPhantomLiquidity

\* No level of any book, once the operation on its way to it is applied, ever
\* shows more shares than the orders resting at its price hold, for every number of levels, table, hash and feed, under the two
\* conditions of the simulation.
THEOREM LiquidityIsReal ==
  ASSUME ~ReuseIds, DistinctSymbols
  PROVE  SpecTop /\ []SumsFit /\ [][~InsFull]_topVars => []NoPhantomLiquidity
<1>1. InitTop => BackedInv
  BY BackedInit
<1>2. PortInv /\ PortInv' /\ SimInv /\ SimInv' /\ BackedInv /\ [NextTop]_topVars => BackedInv'
  BY BackedStep
<1>3. BackedInv => NoPhantomLiquidity
  BY BackedShows
<1> QED
  BY <1>1, <1>2, <1>3, PipelineInvariant, PipelineSimulates, PTL DEF SpecTop
================================================================================
