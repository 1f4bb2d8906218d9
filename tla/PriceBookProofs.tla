--------------------------- MODULE PriceBookProofs ---------------------------
(***************************************************************************)
(* Proofs about PriceBook: whatever is added and reduced, both sides stay  *)
(* gapless, strictly sorted and zero beyond the last level, and are the    *)
(* lists the golden PriceBook holds after the same calls.                  *)
(***************************************************************************)
EXTENDS MCPriceBook, SequenceTheorems, FiniteSetTheorems, WellFoundedInduction, TLAPS

\* A priority encoder returns a set bit, and none before it is set.
LEMMA LowestSet ==
  ASSUME NEW S \in SUBSET Level, S # {}
  PROVE  /\ Lowest(S) \in S /\ Lowest(S) \in Level
         /\ \A j \in Level : j < Lowest(S) => j \notin S
<1>1. S \subseteq Nat /\ N_LEVELS \in Nat \ {0}
  BY DatapathAssumption DEF Level
<1>2. PICK i \in S : \A j \in S : <<j, i>> \notin OpToRel(<, Nat)
  BY <1>1, NatLessThanWellFounded, WFMin
<1>3. \A j \in S : ~(j < i)
  BY <1>1, <1>2, Zenon DEF OpToRel
<1>4. \A j \in S : i <= j
  BY <1>1, <1>3
<1>5. PICK k : k = Lowest(S)
  OBVIOUS
<1>6. k \in S /\ \A j \in S : k <= j
  BY <1>4, <1>5 DEF Lowest
<1>7. ASSUME NEW j \in Level, j < k
      PROVE  j \notin S
  BY <1>1, <1>6, <1>7 DEF Level
<1> QED
  BY <1>5, <1>6, <1>7

\* The slots of a side are numbers, with a first and a last one.
LEMMA Boundary ==
  /\ N_LEVELS \in Nat \ {0}
  /\ 0 \in Level /\ N_LEVELS - 1 \in Level
  /\ \A i \in Level : /\ i \in Nat
                      /\ i > 0 => i - 1 \in Level
                      /\ i # N_LEVELS - 1 => i + 1 \in Level
  BY DatapathAssumption DEF Level

\* An empty level and an empty side are of their types.
LEMMA ZeroLevel ==
  NoLevel \in LevelState /\ EmptySide \in SideState
  BY DatapathAssumption DEF NoLevel, LevelState, EmptySide, SideState

-----------------------------------------------------------------------------
(* What one operation does to one side.                                     *)

\* Of two prices that differ one is better; better than better is better.
LEMMA BetterOrder ==
  ASSUME NEW side \in {Bid, Ask}, NEW p \in Nat, NEW q \in Nat, NEW r \in Nat
  PROVE  /\ p # q /\ ~Better(side, p, q) => Better(side, q, p)
         /\ Better(side, p, q) /\ Better(side, q, r) => Better(side, p, r)
  BY DEF Better, Bid, Ask

\* The fields of a level of a typed side.
LEMMA LevelParts ==
  ASSUME NEW cur \in SideState, NEW i \in Level
  PROVE  /\ cur[i] \in LevelState /\ cur[i].vld \in BOOLEAN /\ cur[i].price \in Nat
         /\ cur[i].shares \in 0 .. ShareMod - 1
<1>1. cur[i] \in LevelState
  BY DEF SideState
<1>2. \A x \in Price \cup {0} : x \in Nat
  BY DatapathAssumption
<1> QED
  BY <1>1, <1>2 DEF LevelState

\* A level is inserted where the lowest candidate is.
LEMMA ShiftDownKeeps ==
  ASSUME NEW side \in {Bid, Ask}, NEW cur \in SideState, WellFormed(side, cur),
         NEW op \in Op, op.side = side, Match(cur, op) = {}, Cand(cur, op) # {},
         NEW k, k = Lowest(Cand(cur, op)),
         NEW level, level = [vld |-> TRUE, price |-> op.price, shares |-> op.shares]
  PROVE  /\ ShiftDown(cur, k, level) \in SideState
         /\ WellFormed(side, ShiftDown(cur, k, level))
<1> DEFINE new == ShiftDown(cur, k, level)
<1>1. /\ k \in Level /\ k \in Cand(cur, op)
      /\ \A j \in Level : j < k => j \notin Cand(cur, op)
  BY LowestSet DEF Cand
<1>2. level \in LevelState
  BY QuantityAssumption DEF Op, LevelState
<1>3. op.price \in Nat
  BY DatapathAssumption DEF Op
<1>4. /\ \A i \in Level : new[i] = IF i < k THEN cur[i]
                                  ELSE IF i = k THEN level ELSE cur[i - 1]
      /\ (\A i \in Level : new[i] \in LevelState) => new \in SideState
  BY DEF ShiftDown, SideState
<1> HIDE DEF new
<1>5. ASSUME NEW i \in Level
      PROVE  new[i] \in LevelState
  <2>1. k < i => i - 1 \in Level
    BY <1>1, Boundary
  <2>2. i < k \/ i = k \/ k < i
    <3>1. i \in Nat /\ k \in Nat
      BY <1>1, Boundary
    <3> QED
      BY <3>1
  <2>3. i < k => new[i] = cur[i]
    BY <1>4
  <2>4. i = k => new[i] = level
    BY <1>1, <1>4, Boundary
  <2>5. k < i => new[i] = cur[i - 1]
    BY <1>1, <1>4, Boundary
  <2> QED
    BY <1>2, <2>1, <2>2, <2>3, <2>4, <2>5, LevelParts
<1>6. new \in SideState
  BY <1>4, <1>5
<1>7. ASSUME NEW i \in Level, i < k
      PROVE  cur[i].vld /\ Better(side, cur[i].price, op.price)
  <2>1. cur[i].vld /\ ~Better(side, op.price, cur[i].price)
    BY <1>1, <1>7 DEF Cand
  <2>2. cur[i].price # op.price
    BY <2>1 DEF Match
  <2> QED
    BY <1>3, <2>1, <2>2, BetterOrder, LevelParts
<1>8. ASSUME NEW i \in Level, i > 0, new[i].vld
      PROVE  new[i - 1].vld /\ Better(side, new[i - 1].price, new[i].price)
  <2>1. i \in Nat /\ i - 1 \in Level /\ k \in Nat /\ i - 1 \in Nat
    BY <1>1, <1>8, Boundary
  <2>2. CASE i < k
    <3>1. new[i] = cur[i] /\ new[i - 1] = cur[i - 1]
      BY <1>4, <2>1, <2>2
    <3> QED
      BY <1>8, <3>1 DEF WellFormed, Contiguous, SortedStrictly
  <2>3. CASE i = k
    <3>1. new[i] = level /\ new[i - 1] = cur[i - 1]
      <4>1. ~(i < k) /\ i - 1 < k
        BY <2>1, <2>3
      <4> QED
        BY <1>4, <2>1, <2>3, <4>1
    <3> QED
      BY <1>7, <2>1, <2>3, <3>1
  <2>4. CASE i = k + 1
    <3>1. new[i] = cur[k] /\ new[i - 1] = level
      <4>1. ~(i < k) /\ i # k /\ i - 1 = k /\ ~(i - 1 < k)
        BY <2>1, <2>4
      <4> QED
        BY <1>4, <2>1, <4>1
    <3>2. Better(side, op.price, cur[k].price)
      BY <1>1, <1>8, <3>1 DEF Cand
    <3> QED
      BY <3>1, <3>2
  <2>5. CASE i > k + 1
    <3>1. new[i] = cur[i - 1] /\ new[i - 1] = cur[(i - 1) - 1] /\ i - 1 > 0
      BY <1>4, <2>1, <2>5
    <3> QED
      BY <1>8, <2>1, <3>1 DEF WellFormed, Contiguous, SortedStrictly
  <2> QED
    BY <2>1, <2>2, <2>3, <2>4, <2>5
<1>9. ASSUME NEW i \in Level, ~new[i].vld
      PROVE  new[i] = NoLevel
  <2>1. CASE i < k
    BY <1>4, <1>9, <2>1 DEF WellFormed, ZeroedBeyond
  <2>2. CASE i = k
    BY <1>1, <1>4, <1>9, <2>2, Boundary
  <2>3. CASE k < i
    <3>1. i - 1 \in Level /\ new[i] = cur[i - 1]
      BY <1>1, <1>4, <2>3, Boundary
    <3> QED
      BY <1>9, <3>1 DEF WellFormed, ZeroedBeyond
  <2> QED
    BY <1>1, <2>1, <2>2, <2>3, Boundary
<1> QED
  BY <1>6, <1>8, <1>9 DEF new, WellFormed, Contiguous, SortedStrictly, ZeroedBeyond

\* Removing a level closes the gap.
LEMMA ShiftUpKeeps ==
  ASSUME NEW side \in {Bid, Ask}, NEW cur \in SideState, WellFormed(side, cur),
         NEW k \in Level, cur[k].vld
  PROVE  ShiftUp(cur, k) \in SideState /\ WellFormed(side, ShiftUp(cur, k))
<1> DEFINE new == ShiftUp(cur, k)
<1>1. /\ \A i \in Level : new[i] = IF i < k THEN cur[i]
                                  ELSE IF i = N_LEVELS - 1 THEN NoLevel ELSE cur[i + 1]
      /\ (\A i \in Level : new[i] \in LevelState) => new \in SideState
  BY DEF ShiftUp, SideState
<1> HIDE DEF new
<1>2. ASSUME NEW i \in Level
      PROVE  new[i] \in LevelState
  BY <1>1, LevelParts, Boundary, ZeroLevel
<1>3. new \in SideState
  BY <1>1, <1>2
<1>4. \A i \in Level : ~new[i].vld => new[i] = NoLevel
  BY <1>1, Boundary DEF WellFormed, ZeroedBeyond
<1>5. ASSUME NEW i \in Level, i > 0, new[i].vld
      PROVE  new[i - 1].vld /\ Better(side, new[i - 1].price, new[i].price)
  <2>1. i \in Nat /\ i - 1 \in Level /\ i - 1 \in Nat /\ k \in Nat /\ N_LEVELS \in Nat
    BY <1>5, Boundary
  <2>2. CASE i < k
    <3>1. new[i] = cur[i] /\ new[i - 1] = cur[i - 1]
      BY <1>1, <2>1, <2>2
    <3> QED
      BY <1>5, <3>1 DEF WellFormed, Contiguous, SortedStrictly
  <2>3. CASE i >= k
    <3>1. i # N_LEVELS - 1
      BY <1>1, <1>5, <2>1, <2>3 DEF NoLevel
    <3>2. i + 1 \in Level /\ i + 1 > 0 /\ (i + 1) - 1 = i
      BY <2>1, <3>1, Boundary
    <3>3. new[i] = cur[i + 1]
      BY <1>1, <2>1, <2>3, <3>1
    <3>4. cur[i].vld /\ Better(side, cur[i].price, cur[i + 1].price)
      BY <1>5, <3>2, <3>3 DEF WellFormed, Contiguous, SortedStrictly
    <3>5. cur[i - 1].vld /\ Better(side, cur[i - 1].price, cur[i].price)
      BY <1>5, <2>1, <3>4 DEF WellFormed, Contiguous, SortedStrictly
    <3>6. CASE i = k
      <4>1. new[i - 1] = cur[i - 1]
        BY <1>1, <2>1, <3>6
      <4>2. Better(side, cur[i - 1].price, cur[i + 1].price)
        BY <2>1, <3>2, <3>4, <3>5, BetterOrder, LevelParts
      <4> QED
        BY <3>3, <3>5, <4>1, <4>2
    <3>7. CASE i > k
      <4>1. new[i - 1] = cur[i]
        <5>1. ~(i - 1 < k) /\ i - 1 # N_LEVELS - 1 /\ (i - 1) + 1 = i
          BY <2>1, <3>2, <3>7 DEF Level
        <5> QED
          BY <1>1, <2>1, <5>1
      <4> QED
        BY <3>3, <3>4, <4>1
    <3> QED
      BY <2>1, <2>3, <3>6, <3>7
  <2> QED
    BY <2>1, <2>2, <2>3
<1> QED
  BY <1>3, <1>4, <1>5 DEF new, WellFormed, Contiguous, SortedStrictly, ZeroedBeyond

\* A share count plays no part in the shape.
LEMMA SharesKeep ==
  ASSUME NEW side \in {Bid, Ask}, NEW cur \in SideState, WellFormed(side, cur),
         NEW k \in Level, cur[k].vld, NEW n \in 0 .. ShareMod - 1
  PROVE  LET new == [cur EXCEPT ![k].shares = n]
         IN  new \in SideState /\ WellFormed(side, new)
<1> DEFINE new == [cur EXCEPT ![k].shares = n]
<1>1. \A i \in Level : /\ new[i].vld = cur[i].vld /\ new[i].price = cur[i].price
                       /\ i # k => new[i] = cur[i]
                       /\ new[i] \in LevelState
  BY LevelParts DEF SideState, LevelState
<1>2. new \in SideState
  BY <1>1 DEF SideState
<1> QED
  BY <1>1, <1>2, Boundary DEF WellFormed, Contiguous, SortedStrictly, ZeroedBeyond

\* The next state of the addressed side.
LEMMA NextSideKeeps ==
  ASSUME NEW side \in {Bid, Ask}, NEW cur \in SideState, WellFormed(side, cur),
         NEW op \in Op, op.side = side
  PROVE  /\ NextSide(cur, op).lvls \in SideState
         /\ WellFormed(side, NextSide(cur, op).lvls)
         /\ NextSide(cur, op).changed \in BOOLEAN
<1>1. op.shares \in Nat /\ ShareMod \in Nat \ {0}
  <2>1. ShareMod \in Nat \ {0}
    BY DatapathAssumption
  <2>2. op.shares \in 0 .. ShareMod - 1
    BY QuantityAssumption DEF Op
  <2> QED
    BY <2>1, <2>2
<1>2. Match(cur, op) \in SUBSET Level /\ Cand(cur, op) \in SUBSET Level
  BY DEF Match, Cand
<1>3. ASSUME Match(cur, op) # {}, NEW k, k = Lowest(Match(cur, op))
      PROVE  k \in Level /\ cur[k].vld /\ cur[k].shares \in 0 .. ShareMod - 1
  <2>1. k \in Match(cur, op) /\ k \in Level
    BY <1>2, <1>3, LowestSet
  <2> QED
    BY <2>1, LevelParts DEF Match
<1>4. CASE op.op = "OP_ADD"
  <2>1. CASE Match(cur, op) # {}
    <3> DEFINE k == Lowest(Match(cur, op))
               n == (cur[k].shares + op.shares) % ShareMod
    <3>1. k \in Level /\ cur[k].vld /\ cur[k].shares \in 0 .. ShareMod - 1
      BY <1>3, <2>1
    <3>2. n \in 0 .. ShareMod - 1
      BY <1>1, <3>1
    <3>3. NextSide(cur, op) = Result([cur EXCEPT ![k].shares = n], TRUE, FALSE, FALSE)
      BY <1>4, <2>1 DEF NextSide, AddTo
    <3> HIDE DEF k, n
    <3>4. /\ NextSide(cur, op).lvls = [cur EXCEPT ![k].shares = n]
          /\ NextSide(cur, op).changed
      BY <3>3 DEF Result
    <3>5. /\ [cur EXCEPT ![k].shares = n] \in SideState
          /\ WellFormed(side, [cur EXCEPT ![k].shares = n])
      BY <3>1, <3>2, SharesKeep
    <3> QED
      BY <3>3, <3>4, <3>5 DEF Result
  <2>2. CASE Match(cur, op) = {} /\ Cand(cur, op) = {}
    BY <1>4, <2>2 DEF NextSide, AddTo, Result
  <2>3. CASE Match(cur, op) = {} /\ Cand(cur, op) # {}
    <3> DEFINE level == [vld |-> TRUE, price |-> op.price, shares |-> op.shares]
               k     == Lowest(Cand(cur, op))
    <3>1. NextSide(cur, op) = Result(ShiftDown(cur, k, level), TRUE,
                                     cur[N_LEVELS - 1].vld, FALSE)
      BY <1>4, <2>3 DEF NextSide, AddTo
    <3>2. /\ ShiftDown(cur, k, level) \in SideState
          /\ WellFormed(side, ShiftDown(cur, k, level))
      BY <2>3, ShiftDownKeeps
    <3> QED
      BY <3>1, <3>2 DEF Result
  <2> QED
    BY <2>1, <2>2, <2>3
<1>5. CASE op.op # "OP_ADD"
  <2> DEFINE k == Lowest(Match(cur, op))
             n == cur[k].shares - op.shares
  <2>1. NextSide(cur, op) = ReduceFrom(cur, op)
    BY <1>5 DEF NextSide
  <2>2. CASE Match(cur, op) = {}
    BY <2>1, <2>2 DEF ReduceFrom, Result
  <2>3. CASE Match(cur, op) # {} /\ cur[k].shares <= op.shares
    <3>1. NextSide(cur, op) = Result(ShiftUp(cur, k), TRUE, FALSE, FALSE)
      BY <2>1, <2>3 DEF ReduceFrom
    <3>2. k \in Level /\ cur[k].vld
      BY <1>3, <2>3
    <3>3. ShiftUp(cur, k) \in SideState /\ WellFormed(side, ShiftUp(cur, k))
      BY <3>2, ShiftUpKeeps
    <3> QED
      BY <3>1, <3>3 DEF Result
  <2>4. CASE Match(cur, op) # {} /\ ~(cur[k].shares <= op.shares)
    <3>1. k \in Level /\ cur[k].vld /\ cur[k].shares \in 0 .. ShareMod - 1
      BY <1>3, <2>4
    <3>2. n \in 0 .. ShareMod - 1
      BY <1>1, <2>4, <3>1
    <3>3. NextSide(cur, op) = Result([cur EXCEPT ![k].shares = n], TRUE, FALSE, FALSE)
      BY <2>1, <2>4 DEF ReduceFrom
    <3> HIDE DEF k, n
    <3>4. /\ NextSide(cur, op).lvls = [cur EXCEPT ![k].shares = n]
          /\ NextSide(cur, op).changed
      BY <3>3 DEF Result
    <3>5. /\ [cur EXCEPT ![k].shares = n] \in SideState
          /\ WellFormed(side, [cur EXCEPT ![k].shares = n])
      BY <3>1, <3>2, SharesKeep
    <3> QED
      BY <3>3, <3>4, <3>5 DEF Result
  <2> QED
    BY <2>2, <2>3, <2>4
<1> QED
  BY <1>4, <1>5

-----------------------------------------------------------------------------
(* The book.                                                                *)

\* An empty side is well formed.
LEMMA EmptyIsWellFormed ==
  ASSUME NEW side \in {Bid, Ask}
  PROVE  WellFormed(side, EmptySide)
  BY Boundary DEF WellFormed, Contiguous, SortedStrictly, ZeroedBeyond, EmptySide, NoLevel

BookInv == TypeOK /\ BookWellFormed

\* Reset leaves two empty sides.
LEMMA ResetInv ==
  ASSUME book' = ResetBook
  PROVE  BookInv'
<1>1. 0 \in 0 .. CountMod - 1
  BY DatapathAssumption
<1> QED
  BY <1>1, ZeroLevel, EmptyIsWellFormed
     DEF ResetBook, BookInv, TypeOK, BookWellFormed, NoSnapshot, Snapshot

\* An edge without an operation keeps the invariant.
LEMMA HoldStep ==
  ASSUME BookInv, NoOperation
  PROVE  BookInv'
<1>1. NoSnapshot \in [bid : SideState, ask : SideState]
  BY ZeroLevel DEF NoSnapshot, Snapshot
<1> QED
  BY <1>1 DEF NoOperation, HoldBook, BookInv, TypeOK, BookWellFormed

\* An edge with one keeps it as well.
LEMMA ApplyStep ==
  ASSUME BookInv, NEW op \in Op, Apply(op)
  PROVE  BookInv'
<1> DEFINE nxt == NextSide(IF op.side = Bid THEN book.bid ELSE book.ask, op)
           nb  == IF op.side = Bid THEN nxt.lvls ELSE book.bid
           na  == IF op.side = Bid THEN book.ask ELSE nxt.lvls
           Count(c, by) == IF by THEN (c + 1) % CountMod ELSE c
<1>1. book' = [bid |-> nb, ask |-> na,
               upd |-> IF nxt.changed THEN Snapshot(nb, na) ELSE NoSnapshot,
               upd_valid |-> nxt.changed,
               evict_count |-> Count(book.evict_count, nxt.evict),
               reduce_miss_count |-> Count(book.reduce_miss_count, nxt.miss),
               crossed_count |-> Count(book.crossed_count, nxt.changed /\ Crossed(nb, na))]
  BY DEF Apply, ApplyOp
<1>2. /\ nb \in SideState /\ na \in SideState
      /\ WellFormed(Bid, nb) /\ WellFormed(Ask, na)
      /\ nxt.changed \in BOOLEAN
  <2>1. CASE op.side = Bid
    BY <2>1, NextSideKeeps DEF BookInv, TypeOK, BookWellFormed
  <2>2. CASE op.side = Ask
    BY <2>2, NextSideKeeps DEF BookInv, TypeOK, BookWellFormed, Bid, Ask
  <2> QED
    BY <2>1, <2>2 DEF Op
<1>3. ASSUME NEW c \in 0 .. CountMod - 1, NEW by
      PROVE  Count(c, by) \in 0 .. CountMod - 1
  BY DatapathAssumption
<1>4. (IF nxt.changed THEN Snapshot(nb, na) ELSE NoSnapshot)
        \in [bid : SideState, ask : SideState]
  BY <1>2, ZeroLevel DEF Snapshot, NoSnapshot
<1>5. /\ book.evict_count \in 0 .. CountMod - 1 /\ book.reduce_miss_count \in 0 .. CountMod - 1
      /\ book.crossed_count \in 0 .. CountMod - 1
  BY DEF BookInv, TypeOK
<1> HIDE DEF nxt, nb, na, Count
<1>6. TypeOK'
  BY <1>1, <1>2, <1>3, <1>4, <1>5 DEF TypeOK
<1>7. BookWellFormed'
  BY <1>1, <1>2 DEF BookWellFormed
<1> QED
  BY <1>6, <1>7 DEF BookInv

\* Types and shape of the book together are inductive.
THEOREM BookInvariant == Spec => []BookInv
<1>1. Init => BookInv
  <2>1. 0 \in 0 .. CountMod - 1
    BY DatapathAssumption
  <2> QED
    BY <2>1, ZeroLevel, EmptyIsWellFormed
       DEF Init, ResetBook, BookInv, TypeOK, BookWellFormed, NoSnapshot, Snapshot
<1>2. ASSUME BookInv, [Next]_book
      PROVE  BookInv'
  <2>1. CASE Reset
    BY <2>1, ResetInv DEF Reset
  <2>2. CASE NoOperation
    BY <1>2, <2>2, HoldStep
  <2>3. ASSUME NEW op \in Op, Apply(op)
        PROVE  BookInv'
    BY <1>2, <2>3, ApplyStep
  <2>4. CASE UNCHANGED book
    BY <1>2, <2>4 DEF BookInv, TypeOK, BookWellFormed
  <2> QED
    BY <1>2, <2>1, <2>2, <2>3, <2>4 DEF Next
<1> QED
  BY <1>1, <1>2, PTL DEF Spec

\* Both sides stay gapless, strictly sorted and zero beyond the last level, for
\* any number of levels, any prices and share counts (price_book.sv, assertions
\* of lines 242-273).
THEOREM BookStaysWellFormed == Spec => []BookWellFormed
<1>1. BookInv => BookWellFormed
  BY DEF BookInv
<1> QED
  BY <1>1, BookInvariant, PTL

\* Every register of the book keeps its type.
THEOREM TypeCorrect == Spec => []TypeOK
<1>1. BookInv => TypeOK
  BY DEF BookInv
<1> QED
  BY <1>1, BookInvariant, PTL

-----------------------------------------------------------------------------
(* The slots of a side and the list of model/book.py's PriceBook.           *)

\* What the list has for slot i.
Entry(cur, i) == [price |-> cur[i].price, shares |-> cur[i].shares]

Entries == [price : Nat, shares : Nat]

\* An entry is a price and a share count.
LEMMA EntryTyped ==
  ASSUME NEW cur \in SideState, NEW i \in Level
  PROVE  Entry(cur, i) \in Entries
<1>1. cur[i].price \in Nat /\ cur[i].shares \in Nat
  BY LevelParts, DatapathAssumption
<1> QED
  BY <1>1 DEF Entry, Entries

\* As many levels as there are slots before the first free one.
LEMMA DepthIs ==
  ASSUME NEW cur, NEW d \in 0 .. N_LEVELS, \A i \in Level : cur[i].vld <=> i < d
  PROVE  Levels(cur) = d
<1>1. d \in Nat /\ N_LEVELS \in Nat /\ d <= N_LEVELS
  BY Boundary
<1>2. {i \in Level : cur[i].vld} = 0 .. d - 1
  BY <1>1 DEF Level
<1>3. Cardinality(0 .. d - 1) = d
  <2>1. 0 \in Int /\ d - 1 \in Int
    BY <1>1
  <2>2. Cardinality(0 .. d - 1) = IF 0 > d - 1 THEN 0 ELSE (d - 1) - 0 + 1
    BY <2>1, FS_Interval
  <2> QED
    BY <1>1, <2>2
<1> QED
  BY <1>2, <1>3 DEF Levels

\* On a side without gaps the valid slots are the first ones.
LEMMA Depth ==
  ASSUME NEW side, NEW cur \in SideState, WellFormed(side, cur)
  PROVE  Levels(cur) \in 0 .. N_LEVELS /\ \A i \in Level : cur[i].vld <=> i < Levels(cur)
<1>1. PICK free : free = {i \in Level : ~cur[i].vld}
  OBVIOUS
<1>2. PICK d \in 0 .. N_LEVELS : \A i \in Level : cur[i].vld <=> i < d
  <2>1. CASE free = {}
    <3>1. \A i \in Level : cur[i].vld <=> i < N_LEVELS
      BY <1>1, <2>1, Boundary DEF Level
    <3> QED
      BY <3>1, Boundary
  <2>2. CASE free # {}
    <3>1. PICK d : d = Lowest(free)
      OBVIOUS
    <3>2. d \in free /\ d \in Level /\ \A j \in Level : j < d => j \notin free
      BY <1>1, <2>2, <3>1, LowestSet
    <3>3. PICK over : over = {i \in Level : d < i /\ cur[i].vld}
      OBVIOUS
    <3>4. over = {}
      <4>1. SUFFICES ASSUME over # {} PROVE FALSE
        OBVIOUS
      <4>2. PICK m : m = Lowest(over)
        OBVIOUS
      <4>3. m \in over /\ m \in Level /\ \A j \in Level : j < m => j \notin over
        BY <3>3, <4>1, <4>2, LowestSet
      <4>4. d < m /\ cur[m].vld /\ d \in Nat /\ m \in Nat
        BY <3>2, <3>3, <4>3, Boundary
      <4>5. m - 1 \in Level /\ m > 0 /\ m - 1 < m /\ (d < m - 1 \/ d = m - 1)
        BY <4>3, <4>4, Boundary
      <4>6. cur[m - 1].vld
        BY <4>3, <4>4, <4>5 DEF WellFormed, Contiguous
      <4> QED
        BY <1>1, <3>2, <3>3, <4>3, <4>5, <4>6
    <3>5. ASSUME NEW i \in Level PROVE cur[i].vld <=> i < d
      <4>1. i \in Nat /\ d \in Nat
        BY <3>2, Boundary
      <4>2. i < d => cur[i].vld
        BY <1>1, <3>2
      <4>3. cur[i].vld => i < d
        BY <1>1, <3>2, <3>3, <3>4, <4>1
      <4> QED
        BY <4>2, <4>3
    <3>6. d \in 0 .. N_LEVELS
      BY <3>2, Boundary DEF Level
    <3> QED
      BY <3>5, <3>6
  <2> QED
    BY <2>1, <2>2
<1> QED
  BY <1>2, DepthIs

\* The list of a side, element by element.
LEMMA ListParts ==
  ASSUME NEW side, NEW cur \in SideState, WellFormed(side, cur),
         NEW l, l = ListOf(cur), NEW d, d = Levels(cur)
  PROVE  /\ d \in 0 .. N_LEVELS /\ l \in Seq(Entries) /\ Len(l) = d
         /\ \A i \in Level : cur[i].vld <=> i < d
         /\ \A k \in 1 .. d : k - 1 \in Level /\ l[k] = Entry(cur, k - 1)
<1>1. d \in 0 .. N_LEVELS /\ \A i \in Level : cur[i].vld <=> i < d
  BY Depth
<1>2. ASSUME NEW k \in 1 .. d PROVE k - 1 \in Level /\ l[k] = Entry(cur, k - 1)
  <2>1. k - 1 \in Level
    BY <1>1, Boundary DEF Level
  <2> QED
    BY <2>1 DEF ListOf, Values, Entry
<1>3. l = [k \in 1 .. d |-> Entry(cur, k - 1)]
  <2>1. l = [k \in 1 .. d |-> Values(cur)[k - 1]]
    BY DEF ListOf
  <2>2. \A k \in 1 .. d : Values(cur)[k - 1] = Entry(cur, k - 1)
    BY <1>2, <2>1
  <2> QED
    BY <2>1, <2>2
<1>4. l \in Seq(Entries) /\ Len(l) = d
  <2>1. d \in Nat /\ \A k \in 1 .. d : Entry(cur, k - 1) \in Entries
    BY <1>1, <1>2, EntryTyped
  <2> QED
    BY <1>3, <2>1
<1> QED
  BY <1>1, <1>2, <1>4

\* A list that agrees with the side is its list.
LEMMA ListIs ==
  ASSUME NEW cur \in SideState, NEW l \in Seq(Entries), Len(l) \in 0 .. N_LEVELS,
         \A i \in Level : cur[i].vld <=> i < Len(l),
         \A k \in 1 .. Len(l) : l[k] = Entry(cur, k - 1)
  PROVE  ListOf(cur) = l
<1>1. PICK d : d = Len(l)
  OBVIOUS
<1>2. Levels(cur) = d
  BY <1>1, DepthIs
<1>3. ASSUME NEW k \in 1 .. d PROVE Values(cur)[k - 1] = l[k]
  <2>1. k - 1 \in Level
    BY <1>1, Boundary DEF Level
  <2> QED
    BY <1>1, <2>1 DEF Values, Entry
<1>4. l = [k \in 1 .. d |-> l[k]]
  BY <1>1
<1> QED
  BY <1>2, <1>3, <1>4 DEF ListOf

\* The first index of a set.
LEMMA Minimum ==
  ASSUME NEW I \in SUBSET Nat, NEW x \in I, \A y \in I : x <= y
  PROVE  Contract!Min(I) = x
<1>1. PICK m : m = Contract!Min(I)
  OBVIOUS
<1>2. m \in I /\ \A y \in I : m <= y
  BY <1>1 DEF Contract!Min
<1> QED
  BY <1>1, <1>2

\* The level the model finds at a price is the slot the comparators match.
LEMMA IndexIs ==
  ASSUME NEW side, NEW cur \in SideState, WellFormed(side, cur), NEW op \in Op
  PROVE  Contract!IndexOf(ListOf(cur), op.price) =
           IF Match(cur, op) = {} THEN 0 ELSE Lowest(Match(cur, op)) + 1
<1>1. PICK l, d : l = ListOf(cur) /\ d = Levels(cur)
  OBVIOUS
<1>2. /\ d \in 0 .. N_LEVELS /\ l \in Seq(Entries) /\ Len(l) = d
      /\ \A i \in Level : cur[i].vld <=> i < d
      /\ \A k \in 1 .. d : k - 1 \in Level /\ l[k] = Entry(cur, k - 1)
  BY <1>1, ListParts
<1>3. PICK I : I = {i \in 1 .. Len(l) : l[i].price = op.price}
  OBVIOUS
<1>4. Contract!IndexOf(l, op.price) = IF I # {} THEN Contract!Min(I) ELSE 0
  BY <1>3 DEF Contract!IndexOf, Contract!SelectInSeq
<1>5. ASSUME NEW i \in Level PROVE i \in Match(cur, op) <=> i + 1 \in I
  <2>1. i \in Nat /\ d \in Nat /\ (i + 1) - 1 = i
    BY <1>2, Boundary
  <2>2. cur[i].vld <=> i + 1 \in 1 .. d
    BY <1>2, <2>1
  <2>3. i + 1 \in 1 .. d => l[i + 1].price = cur[i].price
    BY <1>2, <2>1 DEF Entry
  <2> QED
    BY <1>2, <1>3, <2>2, <2>3 DEF Match
<1>6. \A k \in I : k \in Nat /\ k - 1 \in Level /\ (k - 1) + 1 = k
  BY <1>2, <1>3
<1>7. CASE Match(cur, op) = {}
  <2>1. I = {}
    BY <1>5, <1>6, <1>7
  <2> QED
    BY <1>1, <1>4, <1>7, <2>1
<1>8. CASE Match(cur, op) # {}
  <2>1. PICK k : k = Lowest(Match(cur, op))
    OBVIOUS
  <2>2. k \in Match(cur, op) /\ k \in Level /\ \A j \in Level : j < k => j \notin Match(cur, op)
    <3>1. Match(cur, op) \in SUBSET Level
      BY DEF Match
    <3> QED
      BY <1>8, <2>1, <3>1, LowestSet
  <2>3. k + 1 \in I
    BY <1>5, <2>2
  <2>4. ASSUME NEW y \in I PROVE k + 1 <= y
    <3>1. y - 1 \in Match(cur, op) /\ y - 1 \in Level /\ y \in Nat
      BY <1>5, <1>6
    <3>2. ~(y - 1 < k) /\ k \in Nat
      BY <2>2, <3>1, Boundary
    <3> QED
      BY <3>1, <3>2
  <2>5. Contract!Min(I) = k + 1
    BY <1>6, <2>3, <2>4, Minimum
  <2> QED
    BY <1>1, <1>4, <1>8, <2>1, <2>3, <2>5
<1> QED
  BY <1>7, <1>8

\* A share count that changes, in the slot and in the list.
LEMMA SharesInList ==
  ASSUME NEW side \in {Bid, Ask}, NEW cur \in SideState, WellFormed(side, cur),
         NEW k \in Level, cur[k].vld, NEW n \in 0 .. ShareMod - 1
  PROVE  ListOf([cur EXCEPT ![k].shares = n]) = [ListOf(cur) EXCEPT ![k + 1].shares = n]
<1>1. PICK l, d, new : /\ l = ListOf(cur) /\ d = Levels(cur)
                       /\ new = [cur EXCEPT ![k].shares = n]
  OBVIOUS
<1>2. /\ d \in 0 .. N_LEVELS /\ l \in Seq(Entries) /\ Len(l) = d
      /\ \A i \in Level : cur[i].vld <=> i < d
      /\ \A j \in 1 .. d : j - 1 \in Level /\ l[j] = Entry(cur, j - 1)
  BY <1>1, ListParts
<1>3. new \in SideState
  BY <1>1, SharesKeep
<1>4. \A i \in Level : /\ new[i].vld = cur[i].vld /\ new[i].price = cur[i].price
                       /\ new[i].shares = IF i = k THEN n ELSE cur[i].shares
  BY <1>1, LevelParts DEF SideState, LevelState
<1>5. k \in Nat /\ d \in Nat /\ k + 1 \in 1 .. d /\ n \in Nat
  <2>1. k \in Nat /\ k < d /\ d \in Nat
    BY <1>2, Boundary
  <2> QED
    BY <2>1, DatapathAssumption
<1>6. PICK m : m = [l EXCEPT ![k + 1].shares = n]
  OBVIOUS
<1>7. \A j \in 1 .. d : m[j] = [price |-> l[j].price,
                                shares |-> IF j = k + 1 THEN n ELSE l[j].shares]
  <2>1. TAKE j \in 1 .. d
  <2>2. l[j] \in Entries
    BY <1>2
  <2>3. l[j] = [price |-> l[j].price, shares |-> l[j].shares]
    BY <2>2 DEF Entries
  <2>4. CASE j = k + 1
    <3>1. m[j] = [l[j] EXCEPT !.shares = n]
      BY <1>2, <1>5, <1>6, <2>4
    <3> QED
      BY <2>3, <2>4, <3>1
  <2>5. CASE j # k + 1
    BY <1>2, <1>6, <2>3, <2>5
  <2> QED
    BY <2>4, <2>5
<1>8. m \in Seq(Entries) /\ Len(m) = d
  <2>1. ASSUME NEW j \in 1 .. d PROVE m[j] \in Entries
    <3>1. l[j].price \in Nat /\ l[j].shares \in Nat
      <4>1. l[j] \in Entries
        BY <1>2
      <4> QED
        BY <4>1 DEF Entries
    <3>2. PICK v : v = IF j = k + 1 THEN n ELSE l[j].shares
      OBVIOUS
    <3>3. m[j] = [price |-> l[j].price, shares |-> v] /\ v \in Nat
      BY <1>5, <1>7, <3>1, <3>2
    <3> QED
      BY <3>1, <3>3 DEF Entries
  <2>2. m = [j \in 1 .. d |-> m[j]]
    <3>1. l = [j \in 1 .. d |-> l[j]]
      BY <1>2
    <3>2. DOMAIN m = 1 .. d
      BY <1>6, <3>1
    <3> QED
      BY <1>6, <3>1, <3>2
  <2> QED
    BY <1>5, <2>1, <2>2
<1>9. \A j \in 1 .. d : m[j] = Entry(new, j - 1)
  <2>1. TAKE j \in 1 .. d
  <2>2. j - 1 \in Level /\ l[j] = Entry(cur, j - 1) /\ (j - 1 = k <=> j = k + 1)
    BY <1>2, <1>5
  <2>3. l[j].price = cur[j - 1].price /\ l[j].shares = cur[j - 1].shares
    BY <2>2 DEF Entry
  <2> QED
    BY <1>4, <1>7, <2>2, <2>3 DEF Entry
<1>10. ListOf(new) = m
  BY <1>2, <1>3, <1>4, <1>8, <1>9, ListIs
<1> QED
  BY <1>1, <1>6, <1>10

\* A level that goes, in the slots and in the list.
LEMMA RemovedFromList ==
  ASSUME NEW side \in {Bid, Ask}, NEW cur \in SideState, WellFormed(side, cur),
         NEW k \in Level, cur[k].vld
  PROVE  ListOf(ShiftUp(cur, k)) = Contract!RemoveAt(ListOf(cur), k + 1)
<1>1. PICK l, d, new : l = ListOf(cur) /\ d = Levels(cur) /\ new = ShiftUp(cur, k)
  OBVIOUS
<1>2. /\ d \in 0 .. N_LEVELS /\ l \in Seq(Entries) /\ Len(l) = d
      /\ \A i \in Level : cur[i].vld <=> i < d
      /\ \A j \in 1 .. d : j - 1 \in Level /\ l[j] = Entry(cur, j - 1)
  BY <1>1, ListParts
<1>3. new \in SideState
  BY <1>1, ShiftUpKeeps
<1>4. \A i \in Level : new[i] = IF i < k THEN cur[i]
                                ELSE IF i = N_LEVELS - 1 THEN NoLevel ELSE cur[i + 1]
  BY <1>1 DEF ShiftUp
<1>5. k \in Nat /\ d \in Nat /\ k < d /\ N_LEVELS \in Nat /\ d <= N_LEVELS
      /\ d - 1 \in 0 .. N_LEVELS /\ k + 1 \in 1 .. d
  BY <1>2, Boundary
<1>6. PICK m : m = Contract!RemoveAt(l, k + 1)
  OBVIOUS
<1>7. /\ m \in Seq(Entries) /\ Len(m) = d - 1
      /\ \A j \in 1 .. d - 1 : m[j] = IF j <= k THEN l[j] ELSE l[j + 1]
  <2>1. PICK a, b : a = SubSeq(l, 1, k) /\ b = SubSeq(l, k + 2, d)
    OBVIOUS
  <2>2. m = a \o b
    <3>1. (k + 1) - 1 = k /\ (k + 1) + 1 = k + 2
      BY <1>5
    <3> QED
      BY <1>2, <1>6, <2>1, <3>1 DEF Contract!RemoveAt
  <2>3. a \in Seq(Entries) /\ Len(a) = k /\ \A j \in 1 .. k : a[j] = l[j]
    BY <1>2, <1>5, <2>1
  <2>4. /\ b \in Seq(Entries) /\ Len(b) = d - k - 1
        /\ \A j \in 1 .. d - k - 1 : b[j] = l[k + 1 + j]
    <3>1. PICK f : f = k + 2
      OBVIOUS
    <3>2. f \in 1 .. d + 1 /\ b = SubSeq(l, f, d) /\ d \in 0 .. Len(l)
      BY <1>2, <1>5, <2>1, <3>1
    <3>3. /\ b \in Seq(Entries) /\ Len(b) = d - f + 1
          /\ \A j \in 1 .. d - f + 1 : b[j] = l[f + j - 1]
      BY <1>2, <1>5, <3>2
    <3>4. d - f + 1 = d - k - 1 /\ \A j \in 1 .. d - k - 1 : f + j - 1 = k + 1 + j
      BY <1>5, <3>1
    <3> QED
      BY <3>3, <3>4
  <2>5. m \in Seq(Entries) /\ Len(m) = d - 1
    <3>1. m \in Seq(Entries) /\ Len(m) = Len(a) + Len(b)
      BY <2>2, <2>3, <2>4, ConcatProperties
    <3> QED
      BY <1>5, <2>3, <2>4, <3>1
  <2>6. \A j \in 1 .. d - 1 : m[j] = IF j <= k THEN l[j] ELSE l[j + 1]
    <3>1. TAKE j \in 1 .. d - 1
    <3>2. m[j] = IF j <= Len(a) THEN a[j] ELSE b[j - Len(a)]
      <4>1. j \in 1 .. Len(a) + Len(b)
        BY <1>5, <2>3, <2>4
      <4> QED
        BY <2>2, <2>3, <2>4, <4>1, ConcatProperties
    <3>3. CASE j <= k
      <4>1. j \in 1 .. k
        BY <1>5, <3>3
      <4> QED
        BY <2>3, <3>2, <3>3, <4>1
    <3>4. CASE ~(j <= k)
      <4>1. j - k \in 1 .. d - k - 1 /\ k + 1 + (j - k) = j + 1
        BY <1>5, <3>4
      <4> QED
        BY <2>3, <2>4, <3>2, <3>4, <4>1
    <3> QED
      BY <3>3, <3>4
  <2> QED
    BY <2>5, <2>6
<1>8. ASSUME NEW i \in Level PROVE new[i].vld <=> i < d - 1
  <2>1. i \in Nat /\ i < N_LEVELS
    BY Boundary DEF Level
  <2>2. CASE i < k
    BY <1>2, <1>4, <1>5, <2>1, <2>2
  <2>3. CASE ~(i < k) /\ i = N_LEVELS - 1
    <3>1. ~(i < d - 1) /\ ~new[i].vld
      BY <1>4, <1>5, <2>1, <2>3 DEF NoLevel
    <3> QED
      BY <3>1
  <2>4. CASE ~(i < k) /\ i # N_LEVELS - 1
    <3>1. i + 1 \in Level /\ new[i] = cur[i + 1]
      BY <1>4, <2>4, Boundary
    <3>2. cur[i + 1].vld <=> i + 1 < d
      BY <1>2, <3>1
    <3> QED
      BY <1>5, <2>1, <3>1, <3>2
  <2> QED
    BY <2>2, <2>3, <2>4
<1>9. \A j \in 1 .. d - 1 : m[j] = Entry(new, j - 1)
  <2>1. TAKE j \in 1 .. d - 1
  <2>2. j \in 1 .. d /\ j + 1 \in 1 .. d /\ (j + 1) - 1 = j /\ j - 1 # N_LEVELS - 1
        /\ (j - 1) + 1 = j
    BY <1>5
  <2>3. /\ j - 1 \in Level /\ l[j] = Entry(cur, j - 1) /\ l[j + 1] = Entry(cur, j)
    BY <1>2, <2>2
  <2>4. new[j - 1] = IF j - 1 < k THEN cur[j - 1] ELSE cur[j]
    BY <1>4, <2>2, <2>3
  <2>5. j <= k <=> j - 1 < k
    BY <1>5
  <2> QED
    BY <1>7, <2>3, <2>4, <2>5 DEF Entry
<1>10. ListOf(new) = m
  BY <1>3, <1>5, <1>7, <1>8, <1>9, ListIs
<1> QED
  BY <1>1, <1>6, <1>10

\* The level, as the golden model has it.
NewEntry(op) == [price |-> op.price, shares |-> op.shares]

OpParts(op) == op.price \in Nat /\ op.shares \in 0 .. ShareMod - 1 /\ op.shares \in Nat

\* The fields of an operation.
LEMMA OpTyped ==
  ASSUME NEW op \in Op
  PROVE  /\ OpParts(op) /\ NewEntry(op) \in Entries /\ op.price \in Price
         /\ op.side \in {Bid, Ask} /\ op.op \in {"OP_ADD", "OP_REDUCE"}
<1>1. op.shares \in 0 .. ShareMod - 1 /\ op.price \in Price /\ op.side \in {Bid, Ask}
      /\ op.op \in {"OP_ADD", "OP_REDUCE"}
  BY QuantityAssumption DEF Op
<1>2. op.price \in Nat
  BY <1>1, DatapathAssumption
<1>3. op.shares \in Nat
  BY <1>1, DatapathAssumption
<1> QED
  BY <1>1, <1>2, <1>3 DEF OpParts, NewEntry, Entries

\* m is l with e at a place, and what was there or behind it one place further.
Insertion(m, l, at, e) ==
  /\ m \in Seq(Entries) /\ Len(m) = Len(l) + 1
  /\ \A j \in 1 .. Len(l) + 1 :
       m[j] = IF j < at THEN l[j] ELSE IF j = at THEN e ELSE l[j - 1]

\* InsertAt, place by place.
LEMMA InsertedAt ==
  ASSUME NEW l \in Seq(Entries), NEW at \in 1 .. Len(l) + 1, NEW e \in Entries,
         NEW m, m = Contract!InsertAt(l, at, e)
  PROVE  Insertion(m, l, at, e)
<1>1. PICK d, k, a, b, c : /\ d = Len(l) /\ k = at - 1
                           /\ a = SubSeq(l, 1, k) /\ b = <<e>> /\ c = SubSeq(l, at, d)
  OBVIOUS
<1>2. d \in Nat /\ k \in Nat /\ k <= d /\ at = k + 1
  BY <1>1
<1>3. m = a \o b \o c
  <2>1. at - 1 = k
    BY <1>1
  <2> QED
    BY <1>1, <2>1 DEF Contract!InsertAt
<1>4. a \in Seq(Entries) /\ Len(a) = k /\ \A j \in 1 .. k : a[j] = l[j]
  BY <1>1, <1>2
<1>5. b \in Seq(Entries) /\ Len(b) = 1 /\ b[1] = e
  BY <1>1
<1>6. /\ c \in Seq(Entries) /\ Len(c) = d - k
      /\ \A j \in 1 .. d - k : c[j] = l[k + j]
  <2>1. PICK f : f = at
    OBVIOUS
  <2>2. f \in 1 .. d + 1 /\ c = SubSeq(l, f, d) /\ d = Len(l) /\ d \in 0 .. Len(l)
    BY <1>1, <1>2, <2>1
  <2>3. /\ c \in Seq(Entries) /\ Len(c) = d - f + 1
        /\ \A j \in 1 .. d - f + 1 : c[j] = l[f + j - 1]
    BY <1>2, <2>2
  <2>4. d - f + 1 = d - k /\ \A j \in 1 .. d - k : f + j - 1 = k + j
    BY <1>2, <2>1
  <2> QED
    BY <2>3, <2>4
<1>7. PICK ab : ab = a \o b
  OBVIOUS
<1>8. /\ ab \in Seq(Entries) /\ Len(ab) = k + 1
      /\ \A j \in 1 .. k + 1 : ab[j] = IF j <= k THEN l[j] ELSE e
  <2>1. /\ ab \in Seq(Entries) /\ Len(ab) = k + 1
        /\ \A j \in 1 .. k + 1 : ab[j] = IF j <= k THEN a[j] ELSE b[j - k]
    <3>1. /\ ab \in Seq(Entries) /\ Len(ab) = Len(a) + Len(b)
          /\ \A j \in 1 .. Len(a) + Len(b) :
               ab[j] = IF j <= Len(a) THEN a[j] ELSE b[j - Len(a)]
      BY <1>4, <1>5, <1>7, ConcatProperties
    <3> QED
      BY <1>4, <1>5, <3>1
  <2>2. ASSUME NEW j \in 1 .. k + 1 PROVE ab[j] = IF j <= k THEN l[j] ELSE e
    <3>1. CASE j <= k
      <4>1. j \in 1 .. k
        BY <1>2, <3>1
      <4> QED
        BY <1>4, <2>1, <3>1, <4>1
    <3>2. CASE ~(j <= k)
      <4>1. j - k = 1
        BY <1>2, <3>2
      <4> QED
        BY <1>5, <2>1, <3>2, <4>1
    <3> QED
      BY <3>1, <3>2
  <2> QED
    BY <2>1, <2>2
<1>9. /\ m \in Seq(Entries) /\ Len(m) = d + 1
      /\ \A j \in 1 .. d + 1 : m[j] = IF j <= k + 1 THEN ab[j] ELSE c[j - (k + 1)]
  <2>1. /\ m \in Seq(Entries) /\ Len(m) = Len(ab) + Len(c)
        /\ \A j \in 1 .. Len(ab) + Len(c) :
             m[j] = IF j <= Len(ab) THEN ab[j] ELSE c[j - Len(ab)]
    <3>1. m = ab \o c /\ ab \in Seq(Entries) /\ c \in Seq(Entries)
      BY <1>3, <1>6, <1>7, <1>8
    <3> QED
      BY <3>1, ConcatProperties
  <2>2. Len(ab) + Len(c) = d + 1
    BY <1>2, <1>6, <1>8
  <2> QED
    BY <1>8, <2>1, <2>2
<1>10. ASSUME NEW j \in 1 .. d + 1
       PROVE  m[j] = IF j <= k THEN l[j] ELSE IF j = k + 1 THEN e ELSE l[j - 1]
  <2>1. CASE j <= k + 1
    <3>1. j \in 1 .. k + 1 /\ (~(j <= k) => j = k + 1)
      BY <1>2, <2>1
    <3> QED
      BY <1>8, <1>9, <2>1, <3>1
  <2>2. CASE ~(j <= k + 1)
    <3>1. j - (k + 1) \in 1 .. d - k /\ k + (j - (k + 1)) = j - 1 /\ ~(j <= k) /\ j # k + 1
      BY <1>2, <2>2
    <3> QED
      BY <1>6, <1>9, <2>2, <3>1
  <2> QED
    BY <2>1, <2>2
<1>11. \A j \in 1 .. d + 1 : j <= k <=> j < at
  BY <1>2
<1> QED
  BY <1>1, <1>2, <1>9, <1>10, <1>11 DEF Insertion

\* The place of the first level that the price beats, 0 if there is none.
FirstBeaten(l, side, p) ==
  Contract!SelectInSeq(l, LAMBDA level : Contract!Beats(side, p, level.price))

\* Where the model inserts is where the priority encoder points: before the first
\* level that the price beats, which on a side with none is behind the last.
LEMMA PlaceIs ==
  ASSUME NEW side \in {Bid, Ask}, NEW cur \in SideState, WellFormed(side, cur),
         NEW op \in Op, op.side = side, Cand(cur, op) # {},
         NEW k, k = Lowest(Cand(cur, op)), NEW l, l = ListOf(cur),
         NEW at, at = FirstBeaten(l, side, op.price)
  PROVE  /\ k \in Level /\ k \in 0 .. Len(l)
         /\ (IF at = 0 THEN Len(l) + 1 ELSE at) = k + 1
<1>1. PICK d, beaten :
        /\ d = Levels(cur)
        /\ beaten = {i \in 1 .. Len(l) : Contract!Beats(side, op.price, l[i].price)}
  OBVIOUS
<1>2. at = IF beaten # {} THEN Contract!Min(beaten) ELSE 0
  BY <1>1 DEF FirstBeaten, Contract!SelectInSeq
<1>3. /\ d \in 0 .. N_LEVELS /\ l \in Seq(Entries) /\ Len(l) = d
      /\ \A i \in Level : cur[i].vld <=> i < d
      /\ \A j \in 1 .. d : j - 1 \in Level /\ l[j] = Entry(cur, j - 1)
  BY <1>1, ListParts
<1>4. k \in Cand(cur, op) /\ k \in Level /\ \A j \in Level : j < k => j \notin Cand(cur, op)
  <2>1. Cand(cur, op) \in SUBSET Level
    BY DEF Cand
  <2> QED
    BY <2>1, LowestSet
<1>5. d \in Nat /\ d <= N_LEVELS /\ N_LEVELS \in Nat /\ k \in Nat /\ k < N_LEVELS
  BY <1>3, <1>4, Boundary DEF Level
<1>6. \A p, q : Contract!Beats(side, p, q) <=> Better(side, p, q)
  BY DEF Contract!Beats, Contract!Bid, Better, Bid
<1>7. ASSUME NEW j \in 1 .. d PROVE j \in beaten <=> j - 1 \in Cand(cur, op)
  <2>1. j - 1 \in Level /\ l[j].price = cur[j - 1].price /\ j - 1 < d
    BY <1>3, <1>5 DEF Entry
  <2>2. cur[j - 1].vld
    BY <1>3, <2>1
  <2> QED
    BY <1>1, <1>3, <1>6, <2>1, <2>2 DEF Cand
<1>8. k <= d
  <2>1. SUFFICES ASSUME d < k PROVE FALSE
    BY <1>5
  <2>2. d \in Level /\ ~cur[d].vld
    BY <1>3, <1>5, <2>1 DEF Level
  <2> QED
    BY <1>4, <2>1, <2>2 DEF Cand
<1>9. beaten \subseteq 1 .. d
  BY <1>1, <1>3
<1>10. CASE k = d
  <2>1. beaten = {}
    <3>1. SUFFICES ASSUME NEW j \in beaten PROVE FALSE
      OBVIOUS
    <3>2. j \in 1 .. d /\ j - 1 < k /\ j - 1 \in Level
      BY <1>3, <1>5, <1>9, <1>10
    <3> QED
      BY <1>4, <1>7, <3>2
  <2> QED
    BY <1>3, <1>4, <1>5, <1>10, <1>2, <2>1
<1>11. CASE k < d
  <2>1. k + 1 \in 1 .. d /\ (k + 1) - 1 = k
    BY <1>5, <1>11
  <2>2. k + 1 \in beaten
    BY <1>4, <1>7, <2>1
  <2>3. ASSUME NEW j \in beaten PROVE k + 1 <= j
    <3>1. j \in 1 .. d /\ j - 1 \in Level /\ j - 1 \in Cand(cur, op)
      BY <1>3, <1>7, <1>9
    <3>2. ~(j - 1 < k)
      BY <1>4, <3>1
    <3> QED
      BY <1>5, <3>1, <3>2
  <2>4. beaten \in SUBSET Nat
    BY <1>5, <1>9
  <2>5. Contract!Min(beaten) = k + 1
    BY <2>2, <2>3, <2>4, Minimum
  <2>6. at = k + 1 /\ at # 0
    BY <1>5, <1>2, <2>2, <2>5
  <2> QED
    BY <1>3, <1>4, <1>5, <1>8, <2>6
<1> QED
  BY <1>5, <1>8, <1>10, <1>11

\* A level inserted at slot k, in the list and in the slots.
Placed(side, cur, op, k, level) ==
  Contract!Inserted(ListOf(cur), side, op.price, op.shares) =
    Contract!Outcome(ListOf(ShiftDown(cur, k, level)), TRUE,
                     IF cur[N_LEVELS - 1].vld THEN 1 ELSE 0, 0)

\* A level inserted, in the slots and in the list, which loses its last level when
\* it was full.
LEMMA InsertedInList ==
  ASSUME NEW side \in {Bid, Ask}, NEW cur \in SideState, WellFormed(side, cur),
         NEW op \in Op, op.side = side, Match(cur, op) = {}, Cand(cur, op) # {},
         NEW k, k = Lowest(Cand(cur, op)),
         NEW level, level = [vld |-> TRUE, price |-> op.price, shares |-> op.shares]
  PROVE  Placed(side, cur, op, k, level)
<1>1. PICK l, d, e, long, new, out :
        /\ l = ListOf(cur) /\ d = Levels(cur) /\ e = NewEntry(op)
        /\ long = Contract!InsertAt(l, k + 1, e) /\ new = ShiftDown(cur, k, level)
        /\ out = Contract!Inserted(l, side, op.price, op.shares)
  OBVIOUS
<1>2. /\ d \in 0 .. N_LEVELS /\ l \in Seq(Entries) /\ Len(l) = d
      /\ \A i \in Level : cur[i].vld <=> i < d
      /\ \A j \in 1 .. d : j - 1 \in Level /\ l[j] = Entry(cur, j - 1)
  BY <1>1, ListParts
<1>3. PICK at : at = FirstBeaten(l, side, op.price)
  OBVIOUS
<1>4. k \in Level /\ k \in 0 .. Len(l) /\ (IF at = 0 THEN Len(l) + 1 ELSE at) = k + 1
  BY <1>1, <1>3, PlaceIs
<1>5. k \in Level /\ k \in 0 .. d /\ (IF at = 0 THEN Len(l) + 1 ELSE at) = k + 1
  BY <1>2, <1>4
<1>6. d \in Nat /\ N_LEVELS \in Nat /\ d <= N_LEVELS /\ k \in Nat /\ k < N_LEVELS /\ k <= d
      /\ N_LEVELS - 1 \in Level /\ e \in Entries
  BY <1>1, <1>2, <1>5, OpTyped, Boundary DEF Level
<1>7. out = IF Len(long) > N_LEVELS
            THEN Contract!Outcome(Contract!Front(long), TRUE, 1, 0)
            ELSE Contract!Outcome(long, TRUE, 0, 0)
  <2>1. e = Contract!PriceLevel(op.price, op.shares)
    BY <1>1 DEF NewEntry, Contract!PriceLevel
  <2> QED
    BY <1>1, <1>3, <1>5, <2>1 DEF Contract!Inserted, FirstBeaten
<1>8. /\ long \in Seq(Entries) /\ Len(long) = d + 1
      /\ \A j \in 1 .. d + 1 :
           long[j] = IF j <= k THEN l[j] ELSE IF j = k + 1 THEN e ELSE l[j - 1]
  <2>1. PICK x : x = k + 1
    OBVIOUS
  <2>2. l \in Seq(Entries) /\ x \in 1 .. Len(l) + 1 /\ e \in Entries
    BY <1>2, <1>5, <1>6, <2>1
  <2>3. long = Contract!InsertAt(l, x, e)
    BY <1>1, <2>1
  <2>4. /\ long \in Seq(Entries) /\ Len(long) = Len(l) + 1
        /\ \A j \in 1 .. Len(l) + 1 :
             long[j] = IF j < x THEN l[j] ELSE IF j = x THEN e ELSE l[j - 1]
    <3>1. Insertion(long, l, x, e)
      BY <2>2, <2>3, InsertedAt
    <3> QED
      BY <3>1 DEF Insertion
  <2>5. \A j \in 1 .. Len(l) + 1 : j < x <=> j <= k
    BY <1>2, <1>6, <2>1
  <2> QED
    BY <1>2, <2>1, <2>4, <2>5
<1>9. PICK m, size : /\ m = IF d = N_LEVELS THEN Contract!Front(long) ELSE long
                     /\ size = IF d = N_LEVELS THEN d ELSE d + 1
  OBVIOUS
<1>10. /\ m \in Seq(Entries) /\ Len(m) = size
       /\ \A j \in 1 .. size : m[j] = long[j]
  <2>1. CASE d = N_LEVELS
    <3>1. m = SubSeq(long, 1, (d + 1) - 1) /\ (d + 1) - 1 = d /\ d <= Len(long)
      BY <1>6, <1>8, <1>9, <2>1 DEF Contract!Front
    <3>2. m = SubSeq(long, 1, d)
      BY <3>1
    <3> QED
      BY <1>6, <1>8, <1>9, <2>1, <3>1, <3>2
  <2>2. CASE d # N_LEVELS
    BY <1>8, <1>9, <2>2
  <2> QED
    BY <2>1, <2>2
<1>11. size \in 0 .. N_LEVELS /\ size \in Nat /\ k < size
  BY <1>6, <1>9
<1>12. out = Contract!Outcome(m, TRUE, IF cur[N_LEVELS - 1].vld THEN 1 ELSE 0, 0)
  <2>1. CASE d = N_LEVELS
    <3>1. Len(long) > N_LEVELS /\ cur[N_LEVELS - 1].vld
      BY <1>2, <1>6, <1>8, <2>1
    <3> QED
      BY <1>7, <1>9, <2>1, <3>1
  <2>2. CASE d # N_LEVELS
    <3>1. ~(Len(long) > N_LEVELS) /\ ~cur[N_LEVELS - 1].vld
      BY <1>2, <1>6, <1>8, <2>2
    <3> QED
      BY <1>7, <1>9, <2>2, <3>1
  <2> QED
    BY <2>1, <2>2
<1>13. new \in SideState
  BY <1>1, ShiftDownKeeps
<1>14. \A i \in Level : new[i] = IF i < k THEN cur[i] ELSE IF i = k THEN level ELSE cur[i - 1]
  BY <1>1 DEF ShiftDown
<1>15. ASSUME NEW i \in Level PROVE new[i].vld <=> i < size
  <2>1. i \in Nat /\ i < N_LEVELS
    BY Boundary DEF Level
  <2>2. CASE i < k
    <3>1. new[i] = cur[i] /\ i < d /\ i < size
      BY <1>6, <1>11, <1>14, <2>1, <2>2
    <3> QED
      BY <1>2, <3>1
  <2>3. CASE i = k
    BY <1>6, <1>11, <1>14, <2>1, <2>3
  <2>4. CASE i > k
    <3>1. i - 1 \in Level /\ new[i] = cur[i - 1]
      BY <1>6, <1>14, <2>1, <2>4, Boundary
    <3>2. cur[i - 1].vld <=> i - 1 < d
      BY <1>2, <3>1
    <3> QED
      BY <1>6, <1>9, <2>1, <3>1, <3>2
  <2> QED
    BY <1>6, <2>1, <2>2, <2>3, <2>4
<1>16. ASSUME NEW j \in 1 .. size PROVE m[j] = Entry(new, j - 1)
  <2>1. j \in 1 .. d + 1 /\ j \in Nat /\ j - 1 \in Level /\ j - 1 \in Nat
    BY <1>6, <1>9, <1>11 DEF Level
  <2>2. m[j] = IF j <= k THEN l[j] ELSE IF j = k + 1 THEN e ELSE l[j - 1]
    BY <1>8, <1>10, <2>1
  <2>3. CASE j <= k
    <3>1. j \in 1 .. d /\ j - 1 < k
      BY <1>6, <2>1, <2>3
    <3> QED
      BY <1>2, <1>14, <2>1, <2>2, <2>3, <3>1 DEF Entry
  <2>4. CASE j = k + 1
    <3>1. j - 1 = k /\ ~(j <= k) /\ ~(j - 1 < k)
      BY <1>6, <2>4
    <3>2. new[j - 1] = level
      BY <1>14, <2>1, <3>1
    <3> QED
      BY <1>1, <2>2, <2>4, <3>1, <3>2 DEF Entry, NewEntry
  <2>5. CASE j > k + 1
    <3>1. j - 1 \in 1 .. d /\ ~(j <= k) /\ j # k + 1 /\ ~(j - 1 < k) /\ j - 1 # k
      BY <1>6, <2>1, <2>5
    <3>2. new[j - 1] = cur[(j - 1) - 1]
      BY <1>14, <2>1, <3>1
    <3>3. l[j - 1] = Entry(cur, (j - 1) - 1)
      BY <1>2, <3>1
    <3> QED
      BY <2>2, <3>1, <3>2, <3>3 DEF Entry
  <2> QED
    BY <1>6, <2>1, <2>3, <2>4, <2>5
<1>17. ListOf(new) = m
  BY <1>10, <1>11, <1>13, <1>15, <1>16, ListIs
<1>18. Contract!Inserted(ListOf(cur), side, op.price, op.shares) =
         Contract!Outcome(ListOf(ShiftDown(cur, k, level)), TRUE,
                          IF cur[N_LEVELS - 1].vld THEN 1 ELSE 0, 0)
  BY <1>1, <1>12, <1>17
<1> QED
  BY <1>18 DEF Placed

\* Strictly sorted from level to level is strictly sorted throughout.
LEMMA SortedThroughout ==
  ASSUME NEW side \in {Bid, Ask}, NEW cur \in SideState, WellFormed(side, cur),
         NEW i \in Level, NEW m \in Level, i < m, cur[m].vld
  PROVE  Better(side, cur[i].price, cur[m].price)
<1>1. PICK bad : bad = {j \in Level : /\ i < j /\ cur[j].vld
                                      /\ ~Better(side, cur[i].price, cur[j].price)}
  OBVIOUS
<1>2. bad = {}
  <2>1. SUFFICES ASSUME bad # {} PROVE FALSE
    OBVIOUS
  <2>2. PICK j : j = Lowest(bad)
    OBVIOUS
  <2>3. j \in bad /\ j \in Level /\ \A x \in Level : x < j => x \notin bad
    BY <1>1, <2>1, <2>2, LowestSet
  <2>4. i < j /\ cur[j].vld /\ ~Better(side, cur[i].price, cur[j].price)
        /\ i \in Nat /\ j \in Nat
    BY <1>1, <2>3, Boundary
  <2>5. j > 0 /\ j - 1 \in Level /\ j - 1 < j /\ (i < j - 1 \/ i = j - 1)
    BY <2>3, <2>4, Boundary
  <2>6. cur[j - 1].vld /\ Better(side, cur[j - 1].price, cur[j].price)
    BY <2>3, <2>4, <2>5 DEF WellFormed, Contiguous, SortedStrictly
  <2>7. CASE i = j - 1
    BY <2>4, <2>6, <2>7
  <2>8. CASE i < j - 1
    <3>1. Better(side, cur[i].price, cur[j - 1].price)
      BY <1>1, <2>3, <2>5, <2>6, <2>8
    <3>2. cur[i].price \in Nat /\ cur[j - 1].price \in Nat /\ cur[j].price \in Nat
      BY <2>3, <2>5, LevelParts
    <3> QED
      BY <2>4, <2>6, <3>1, <3>2, BetterOrder
  <2> QED
    BY <2>5, <2>7, <2>8
<1> QED
  BY <1>1, <1>2

\* The outcome of the model for the next side of the datapath.
Agrees(out, nxt) ==
  out = Contract!Outcome(ListOf(nxt.lvls), nxt.changed,
                         IF nxt.evict THEN 1 ELSE 0, IF nxt.miss THEN 1 ELSE 0)

\* The outcomes that Result stands for.
LEMMA AgreesIf ==
  ASSUME NEW lvls, NEW out
  PROVE  /\ \A c \in BOOLEAN :
              /\ out = Contract!Outcome(ListOf(lvls), c, 0, 0)
                 => Agrees(out, Result(lvls, c, FALSE, FALSE))
              /\ out = Contract!Outcome(ListOf(lvls), c, 0, 1)
                 => Agrees(out, Result(lvls, c, FALSE, TRUE))
              /\ \A e \in BOOLEAN : out = Contract!Outcome(ListOf(lvls), c,
                                                           IF e THEN 1 ELSE 0, 0)
                 => Agrees(out, Result(lvls, c, e, FALSE))
  BY DEF Agrees, Result

\* The slot of a price, and what the list has for it.
LEMMA Matched ==
  ASSUME NEW side \in {Bid, Ask}, NEW cur \in SideState, WellFormed(side, cur),
         NEW op \in Op, Match(cur, op) # {}, NEW k, k = Lowest(Match(cur, op)),
         NEW l, l = ListOf(cur)
  PROVE  /\ k \in Level /\ cur[k].vld /\ cur[k].price = op.price /\ k \in Nat
         /\ cur[k].shares \in 0 .. ShareMod - 1 /\ cur[k].shares \in Nat
         /\ Contract!IndexOf(l, op.price) = k + 1 /\ k + 1 # 0
         /\ l[k + 1].shares = cur[k].shares
<1>1. k \in Match(cur, op) /\ k \in Level
  <2>1. Match(cur, op) \in SUBSET Level
    BY DEF Match
  <2> QED
    BY <2>1, LowestSet
<1>2. cur[k].vld /\ cur[k].price = op.price /\ k \in Nat
  BY <1>1, Boundary DEF Match
<1>3. cur[k].shares \in 0 .. ShareMod - 1 /\ cur[k].shares \in Nat
  BY <1>1, LevelParts, DatapathAssumption
<1>4. Contract!IndexOf(l, op.price) = k + 1
  BY IndexIs
<1>5. l[k + 1].shares = cur[k].shares
  <2>1. PICK d, j : d = Levels(cur) /\ j = k + 1
    OBVIOUS
  <2>2. /\ d \in 0 .. N_LEVELS /\ \A i \in Level : cur[i].vld <=> i < d
        /\ \A x \in 1 .. d : x - 1 \in Level /\ l[x] = Entry(cur, x - 1)
    BY <2>1, ListParts
  <2>3. j \in 1 .. d /\ j - 1 = k
    BY <1>1, <1>2, <2>1, <2>2
  <2>4. l[j] = Entry(cur, k)
    BY <2>2, <2>3
  <2> QED
    BY <2>1, <2>4 DEF Entry
<1> QED
  BY <1>1, <1>2, <1>3, <1>4, <1>5

\* The share count of the level at the price of op does not wrap.
Fits(cur, op) ==
  \A i \in Level : cur[i].price = op.price => cur[i].shares + op.shares < ShareMod

\* AddTo is PriceBook.add.
LEMMA AddAgrees ==
  ASSUME NEW side \in {Bid, Ask}, NEW cur \in SideState, WellFormed(side, cur),
         NEW op \in Op, op.side = side, Fits(cur, op)
  PROVE  Agrees(Contract!Add(ListOf(cur), side, op.price, op.shares), AddTo(cur, op))
<1>1. PICK l, d, p, n, out, nxt :
        /\ l = ListOf(cur) /\ d = Levels(cur) /\ p = op.price /\ n = op.shares
        /\ out = Contract!Add(l, side, p, n) /\ nxt = AddTo(cur, op)
  OBVIOUS
<1>2. /\ d \in 0 .. N_LEVELS /\ l \in Seq(Entries) /\ Len(l) = d
      /\ \A i \in Level : cur[i].vld <=> i < d
      /\ \A j \in 1 .. d : j - 1 \in Level /\ l[j] = Entry(cur, j - 1)
  BY <1>1, ListParts
<1>3. n \in Nat /\ p \in Nat /\ d \in Nat /\ N_LEVELS \in Nat /\ N_LEVELS > 0
      /\ N_LEVELS - 1 \in Level /\ ShareMod \in Nat
  BY <1>1, <1>2, OpTyped, Boundary, DatapathAssumption DEF OpParts
\* A level that exists grows.
<1>4. CASE Match(cur, op) # {}
  <2>1. PICK k : k = Lowest(Match(cur, op))
    OBVIOUS
  <2>2. /\ k \in Level /\ cur[k].vld /\ cur[k].price = p /\ k \in Nat
        /\ cur[k].shares \in Nat
        /\ Contract!IndexOf(l, p) = k + 1 /\ k + 1 # 0 /\ l[k + 1].shares = cur[k].shares
    BY <1>1, <1>4, <2>1, Matched
  <2>3. PICK v : v = cur[k].shares + n
    OBVIOUS
  <2>4. v \in 0 .. ShareMod - 1 /\ (cur[k].shares + n) % ShareMod = v
    <3>1. v < ShareMod /\ v \in Nat
      BY <1>1, <1>3, <2>2, <2>3 DEF Fits
    <3>2. v % ShareMod = v
      BY <1>3, <3>1
    <3> QED
      BY <1>3, <2>3, <3>1, <3>2
  <2>5. nxt = Result([cur EXCEPT ![k].shares = v], TRUE, FALSE, FALSE)
    BY <1>1, <1>4, <2>1, <2>4 DEF AddTo
  <2>6. out = Contract!Outcome([l EXCEPT ![k + 1].shares = v], TRUE, 0, 0)
    BY <1>1, <2>2, <2>3 DEF Contract!Add
  <2>7. ListOf([cur EXCEPT ![k].shares = v]) = [l EXCEPT ![k + 1].shares = v]
    BY <1>1, <2>2, <2>4, SharesInList
  <2>8. PICK new : new = [cur EXCEPT ![k].shares = v]
    OBVIOUS
  <2>9. Agrees(out, Result(new, TRUE, FALSE, FALSE))
    BY <2>6, <2>7, <2>8, AgreesIf
  <2> QED
    BY <1>1, <2>5, <2>8, <2>9
<1>5. CASE Match(cur, op) = {}
  <2>1. Contract!IndexOf(l, p) = 0
    BY <1>1, <1>5, IndexIs
  <2>2. PICK worst : worst = cur[N_LEVELS - 1].price
    OBVIOUS
  <2>3. d = N_LEVELS => Contract!Last(l).price = worst /\ cur[N_LEVELS - 1].vld
                        /\ worst \in Nat /\ worst # p
    <3>1. SUFFICES ASSUME d = N_LEVELS
                   PROVE  Contract!Last(l).price = worst /\ cur[N_LEVELS - 1].vld
                          /\ worst \in Nat /\ worst # p
      OBVIOUS
    <3>2. l[d] = Entry(cur, N_LEVELS - 1) /\ cur[N_LEVELS - 1].vld
      BY <1>2, <1>3, <3>1
    <3>3. Contract!Last(l) = Entry(cur, N_LEVELS - 1)
      BY <1>2, <3>2 DEF Contract!Last
    <3>4. worst \in Nat
      BY <1>3, <2>2, LevelParts
    <3> QED
      BY <1>1, <1>3, <1>5, <2>2, <3>2, <3>3, <3>4 DEF Entry, Match
  <2>4. \A x, y : Contract!Beats(side, x, y) <=> Better(side, x, y)
    BY DEF Contract!Beats, Contract!Bid, Better, Bid
\* A full side whose levels are all better drops the new one.
  <2>5. CASE Cand(cur, op) = {}
    <3>1. \A i \in Level : cur[i].vld /\ ~Better(side, p, cur[i].price)
      BY <1>1, <2>5 DEF Cand
    <3>2. d = N_LEVELS
      <4>1. SUFFICES ASSUME d # N_LEVELS PROVE FALSE
        OBVIOUS
      <4>2. d \in Level /\ ~(d < d)
        BY <1>2, <1>3, <4>1 DEF Level
      <4> QED
        BY <1>2, <3>1, <4>2
    <3>3. Better(side, worst, p)
      BY <1>3, <2>2, <2>3, <3>1, <3>2, BetterOrder
    <3>4. out = Contract!Outcome(l, FALSE, 1, 0)
      <4>1. Len(l) >= N_LEVELS /\ Contract!Beats(side, Contract!Last(l).price, p)
        BY <1>2, <1>3, <2>3, <2>4, <3>2, <3>3
      <4> QED
        BY <1>1, <2>1, <4>1 DEF Contract!Add
    <3>5. nxt = Result(cur, FALSE, TRUE, FALSE)
      BY <1>1, <1>5, <2>5 DEF AddTo
    <3> QED
      BY <1>1, <3>4, <3>5, AgreesIf
\* Otherwise it is inserted.
  <2>6. CASE Cand(cur, op) # {}
    <3>1. PICK k, level : /\ k = Lowest(Cand(cur, op))
                          /\ level = [vld |-> TRUE, price |-> op.price, shares |-> op.shares]
      OBVIOUS
    <3>2. k \in Cand(cur, op) /\ k \in Level
      <4>1. Cand(cur, op) \in SUBSET Level
        BY DEF Cand
      <4> QED
        BY <2>6, <3>1, <4>1, LowestSet
    <3>3. ~(d >= N_LEVELS /\ Contract!Beats(side, Contract!Last(l).price, p))
      <4>1. SUFFICES ASSUME d >= N_LEVELS, Better(side, Contract!Last(l).price, p)
                     PROVE  FALSE
        BY <2>4
      <4>2. d = N_LEVELS /\ Better(side, worst, p)
        BY <1>2, <1>3, <2>3, <4>1
      <4>3. PICK q : q = cur[k].price
        OBVIOUS
      <4>4. cur[k].vld /\ q \in Nat
        BY <1>2, <1>3, <3>2, <4>2, <4>3, LevelParts DEF Level
      <4>5. Better(side, p, q)
        BY <1>1, <3>2, <4>3, <4>4 DEF Cand
      <4>6. k = N_LEVELS - 1 \/ k < N_LEVELS - 1
        BY <1>3, <3>2 DEF Level
      <4>7. q = worst \/ Better(side, q, worst)
        BY <1>3, <2>2, <2>3, <3>2, <4>2, <4>3, <4>6, SortedThroughout
      <4>8. worst \in Nat
        BY <2>3, <4>2
      <4> QED
        BY <1>3, <4>2, <4>4, <4>5, <4>7, <4>8 DEF Better
    <3>4. out = Contract!Inserted(l, side, p, n)
      BY <1>1, <1>2, <2>1, <3>3 DEF Contract!Add
    <3>5. out = Contract!Outcome(ListOf(ShiftDown(cur, k, level)), TRUE,
                                 IF cur[N_LEVELS - 1].vld THEN 1 ELSE 0, 0)
      <4>1. Contract!Inserted(ListOf(cur), side, op.price, op.shares) =
              Contract!Outcome(ListOf(ShiftDown(cur, k, level)), TRUE,
                               IF cur[N_LEVELS - 1].vld THEN 1 ELSE 0, 0)
        <5>1. Placed(side, cur, op, k, level)
          BY <1>5, <2>6, <3>1, InsertedInList
        <5> QED
          BY <5>1 DEF Placed
      <4>2. Contract!Inserted(ListOf(cur), side, op.price, op.shares) =
              Contract!Inserted(l, side, p, n)
        BY <1>1, Zenon
      <4> QED
        BY <3>4, <4>1, <4>2, Zenon
    <3>6. nxt = Result(ShiftDown(cur, k, level), TRUE, cur[N_LEVELS - 1].vld, FALSE)
      BY <1>1, <1>5, <2>6, <3>1 DEF AddTo
    <3>7. cur[N_LEVELS - 1].vld \in BOOLEAN
      BY <1>3, LevelParts
    <3> QED
      BY <1>1, <3>5, <3>6, <3>7, AgreesIf
  <2> QED
    BY <2>5, <2>6
<1> QED
  BY <1>4, <1>5

\* ReduceFrom is PriceBook.reduce.
LEMMA ReduceAgrees ==
  ASSUME NEW side \in {Bid, Ask}, NEW cur \in SideState, WellFormed(side, cur),
         NEW op \in Op
  PROVE  Agrees(Contract!Reduce(ListOf(cur), op.price, op.shares), ReduceFrom(cur, op))
<1>1. PICK l, p, n, out, nxt :
        /\ l = ListOf(cur) /\ p = op.price /\ n = op.shares
        /\ out = Contract!Reduce(l, p, n) /\ nxt = ReduceFrom(cur, op)
  OBVIOUS
<1>2. n \in Nat
  BY <1>1, OpTyped DEF OpParts
<1>3. CASE Match(cur, op) = {}
  <2>1. Contract!IndexOf(l, p) = 0
    BY <1>1, <1>3, IndexIs
  <2>2. out = Contract!Outcome(l, FALSE, 0, 1)
    BY <1>1, <2>1 DEF Contract!Reduce
  <2>3. nxt = Result(cur, FALSE, FALSE, TRUE)
    BY <1>1, <1>3 DEF ReduceFrom
  <2> QED
    BY <1>1, <2>2, <2>3, AgreesIf
<1>4. CASE Match(cur, op) # {}
  <2>1. PICK k : k = Lowest(Match(cur, op))
    OBVIOUS
  <2>2. /\ k \in Level /\ cur[k].vld /\ k \in Nat
        /\ cur[k].shares \in 0 .. ShareMod - 1 /\ cur[k].shares \in Nat
        /\ Contract!IndexOf(l, p) = k + 1 /\ k + 1 # 0 /\ l[k + 1].shares = cur[k].shares
    BY <1>1, <1>4, <2>1, Matched
  <2>3. PICK v : v = cur[k].shares - n
    OBVIOUS
  <2>4. v <= 0 <=> cur[k].shares <= n
    BY <1>2, <2>2, <2>3
  <2>5. CASE cur[k].shares <= n
    <3>1. nxt = Result(ShiftUp(cur, k), TRUE, FALSE, FALSE)
      BY <1>1, <1>4, <2>1, <2>5 DEF ReduceFrom
    <3>2. out = Contract!Outcome(Contract!RemoveAt(l, k + 1), TRUE, 0, 0)
      BY <1>1, <2>2, <2>3, <2>4, <2>5 DEF Contract!Reduce
    <3>3. ListOf(ShiftUp(cur, k)) = Contract!RemoveAt(l, k + 1)
      BY <1>1, <2>2, RemovedFromList
    <3> QED
      BY <1>1, <3>1, <3>2, <3>3, AgreesIf
  <2>6. CASE ~(cur[k].shares <= n)
    <3>1. nxt = Result([cur EXCEPT ![k].shares = v], TRUE, FALSE, FALSE)
      BY <1>1, <1>4, <2>1, <2>3, <2>6 DEF ReduceFrom
    <3>2. out = Contract!Outcome([l EXCEPT ![k + 1].shares = v], TRUE, 0, 0)
      BY <1>1, <2>2, <2>3, <2>4, <2>6 DEF Contract!Reduce
    <3>3. v \in 0 .. ShareMod - 1
      BY <1>2, <2>2, <2>3, <2>6, DatapathAssumption
    <3>4. ListOf([cur EXCEPT ![k].shares = v]) = [l EXCEPT ![k + 1].shares = v]
      BY <1>1, <2>2, <3>3, SharesInList
    <3>5. PICK new : new = [cur EXCEPT ![k].shares = v]
      OBVIOUS
    <3>6. Agrees(out, Result(new, TRUE, FALSE, FALSE))
      BY <3>2, <3>4, <3>5, AgreesIf
    <3> QED
      BY <1>1, <3>1, <3>5, <3>6
  <2> QED
    BY <2>5, <2>6
<1> QED
  BY <1>3, <1>4

\* An operation is the call of its kind.
LEMMA NextSideAgrees ==
  ASSUME NEW side \in {Bid, Ask}, NEW cur \in SideState, WellFormed(side, cur),
         NEW op \in Op, op.side = side, op.op = "OP_ADD" => Fits(cur, op)
  PROVE  Agrees(IF op.op = "OP_ADD"
                THEN Contract!Add(ListOf(cur), side, op.price, op.shares)
                ELSE Contract!Reduce(ListOf(cur), op.price, op.shares),
                NextSide(cur, op))
<1>1. CASE op.op = "OP_ADD"
  <2>1. Agrees(Contract!Add(ListOf(cur), side, op.price, op.shares), AddTo(cur, op))
    BY <1>1, AddAgrees
  <2> QED
    BY <1>1, <2>1 DEF NextSide
<1>2. CASE op.op # "OP_ADD"
  <2>1. Agrees(Contract!Reduce(ListOf(cur), op.price, op.shares), ReduceFrom(cur, op))
    BY ReduceAgrees
  <2> QED
    BY <1>2, <2>1 DEF NextSide
<1> QED
  BY <1>1, <1>2

\* The snapshot of a side is its list, zero-padded.
LEMMA PaddedIs ==
  ASSUME NEW side \in {Bid, Ask}, NEW cur \in SideState, WellFormed(side, cur)
  PROVE  Contract!Padded(ListOf(cur)) = Values(cur)
<1>1. PICK l, d : l = ListOf(cur) /\ d = Levels(cur)
  OBVIOUS
<1>2. /\ d \in 0 .. N_LEVELS /\ l \in Seq(Entries) /\ Len(l) = d
      /\ \A i \in Level : cur[i].vld <=> i < d
      /\ \A j \in 1 .. d : j - 1 \in Level /\ l[j] = Entry(cur, j - 1)
  BY <1>1, ListParts
<1>3. ASSUME NEW i \in Level
      PROVE  (IF i < Len(l) THEN l[i + 1] ELSE Contract!PriceLevel(0, 0)) =
               [price |-> cur[i].price, shares |-> cur[i].shares]
  <2>1. i \in Nat /\ d \in Nat
    BY <1>2, Boundary
  <2>2. CASE i < d
    <3>1. PICK j : j = i + 1
      OBVIOUS
    <3>2. j \in 1 .. d /\ j - 1 = i
      BY <2>1, <2>2, <3>1
    <3>3. l[j] = Entry(cur, i)
      BY <1>2, <3>2
    <3> QED
      BY <1>2, <2>2, <3>1, <3>3 DEF Entry
  <2>3. CASE ~(i < d)
    <3>1. cur[i] = NoLevel
      BY <1>2, <2>3 DEF WellFormed, ZeroedBeyond
    <3> QED
      BY <1>2, <2>3, <3>1 DEF NoLevel, Contract!PriceLevel
  <2> QED
    BY <2>2, <2>3
<1> QED
  BY <1>1, <1>3 DEF Contract!Padded, Values, Level

\* A side after reset is the empty list.
LEMMA EmptyList == ListOf(EmptySide) = << >>
<1>1. PICK cur, l : cur = EmptySide /\ l = << >>
  OBVIOUS
<1>2. l \in Seq(Entries) /\ Len(l) = 0 /\ Len(l) \in 0 .. N_LEVELS /\ cur \in SideState
  BY <1>1, Boundary, ZeroLevel
<1>3. \A i \in Level : cur[i].vld = FALSE /\ ~(i < Len(l))
  <2>1. \A i \in Level : cur[i] = NoLevel
    BY <1>1 DEF EmptySide
  <2>2. NoLevel.vld = FALSE
    BY DEF NoLevel
  <2>3. \A i \in Level : ~(i < Len(l))
    <3>1. \A i \in Level : i \in Nat
      BY Boundary
    <3>2. PICK z : z = Len(l)
      OBVIOUS
    <3>3. z = 0
      BY <1>2, <3>2
    <3>4. \A i \in Nat : ~(i < z)
      BY <3>3
    <3> QED
      BY <3>1, <3>2, <3>4
  <2> QED
    BY <2>1, <2>2, <2>3
<1>4. \A i \in Level : cur[i].vld <=> i < Len(l)
  BY <1>3
<1>5. \A k \in 1 .. Len(l) : l[k] = Entry(cur, k - 1)
  BY <1>2
<1>6. ListOf(cur) = l
  BY <1>2, <1>4, <1>5, ListIs
<1> QED
  BY <1>1, <1>6

\* A reset is a new PriceBook.
LEMMA ResetIsRestart ==
  ASSUME Reset
  PROVE  Contract!Restart
<1>1. book' = ResetBook
  BY DEF Reset
<1> QED
  BY <1>1, EmptyList DEF Contract!Restart, ResetBook

\* An edge without an operation is no call.
LEMMA HoldIsQuiet ==
  ASSUME BookInv, NoOperation
  PROVE  Contract!Quiet
<1>1. /\ book'.bid = book.bid /\ book'.ask = book.ask /\ book'.upd_valid = FALSE
      /\ book'.evict_count = book.evict_count
      /\ book'.reduce_miss_count = book.reduce_miss_count
  BY DEF NoOperation, HoldBook, BookInv, TypeOK
<1> QED
  BY <1>1 DEF Contract!Quiet

\* A counter that is not moved.
LEMMA CountsOn ==
  ASSUME NEW c \in 0 .. CountMod - 1
  PROVE  (c + 0) % CountMod = c
  BY DatapathAssumption

\* An operation is the call it encodes.
LEMMA ApplyIsCall ==
  ASSUME BookInv, BookInv', NEW op \in Op, FitsLevel(op), Apply(op)
  PROVE  Contract!Next
<1>1. PICK side, p, n, cur, nxt, out :
        /\ side = op.side /\ p = op.price /\ n = op.shares
        /\ cur = (IF op.side = Bid THEN book.bid ELSE book.ask)
        /\ nxt = NextSide(cur, op)
        /\ out = (IF op.op = "OP_ADD" THEN Contract!Add(ListOf(cur), side, p, n)
                  ELSE Contract!Reduce(ListOf(cur), p, n))
  OBVIOUS
<1>2. side \in {Bid, Ask} /\ op.op \in {"OP_ADD", "OP_REDUCE"} /\ p \in Price
      /\ n \in 0 .. ShareMod - 1
  BY <1>1, OpTyped, QuantityAssumption DEF Op
<1>3. cur \in SideState /\ WellFormed(side, cur)
  BY <1>1, <1>2 DEF BookInv, TypeOK, BookWellFormed
<1>4. op.op = "OP_ADD" => Fits(cur, op)
  BY <1>1 DEF FitsLevel, Fits
<1>5. Agrees(out, nxt)
  BY <1>1, <1>2, <1>3, <1>4, NextSideAgrees
<1>6. /\ out.levels = ListOf(nxt.lvls) /\ out.changed = nxt.changed
      /\ out.evicts = (IF nxt.evict THEN 1 ELSE 0)
      /\ out.misses = (IF nxt.miss THEN 1 ELSE 0)
  BY <1>5 DEF Agrees, Contract!Outcome
<1>7. /\ book'.bid = (IF side = Bid THEN nxt.lvls ELSE book.bid)
      /\ book'.ask = (IF side = Bid THEN book.ask ELSE nxt.lvls)
      /\ book'.upd_valid = nxt.changed
      /\ nxt.changed => book'.upd.bid = book'.bid /\ book'.upd.ask = book'.ask
      /\ book'.evict_count =
           IF nxt.evict THEN (book.evict_count + 1) % CountMod ELSE book.evict_count
      /\ book'.reduce_miss_count =
           IF nxt.miss THEN (book.reduce_miss_count + 1) % CountMod
           ELSE book.reduce_miss_count
  BY <1>1 DEF Apply, ApplyOp, Snapshot
<1>8. /\ book'.evict_count = (book.evict_count + out.evicts) % CountMod
      /\ book'.reduce_miss_count = (book.reduce_miss_count + out.misses) % CountMod
  <2>1. /\ book.evict_count \in 0 .. CountMod - 1
        /\ book.reduce_miss_count \in 0 .. CountMod - 1
    BY DEF BookInv, TypeOK
  <2> QED
    BY <1>6, <1>7, <2>1, CountsOn
<1>9. /\ ListOf(book'.bid) = (IF side = Bid THEN out.levels ELSE ListOf(book.bid))
      /\ ListOf(book'.ask) = (IF side = Bid THEN ListOf(book.ask) ELSE out.levels)
  BY <1>6, <1>7
<1>10. /\ Contract!Padded(ListOf(book'.bid)) = Values(book'.bid)
       /\ Contract!Padded(ListOf(book'.ask)) = Values(book'.ask)
  <2>1. /\ book'.bid \in SideState /\ WellFormed(Bid, book'.bid)
        /\ book'.ask \in SideState /\ WellFormed(Ask, book'.ask)
    BY DEF BookInv, TypeOK, BookWellFormed
  <2> QED
    BY <2>1, PaddedIs
<1>11. (IF book'.upd_valid
        THEN [bid |-> Values(book'.upd.bid), ask |-> Values(book'.upd.ask)] ELSE NoEvent) =
       IF out.changed
       THEN [bid |-> Contract!Padded(ListOf(book'.bid)),
             ask |-> Contract!Padded(ListOf(book'.ask))]
       ELSE NoEvent
  BY <1>6, <1>7, <1>10
<1>12. Contract!Effect(side, out)
  BY <1>8, <1>9, <1>11 DEF Contract!Effect, Bid, Contract!Bid
<1>13. ListOf(cur) = IF side = Bid THEN ListOf(book.bid) ELSE ListOf(book.ask)
  BY <1>1
<1>14. Contract!AddCall(side, p, n) \/ Contract!ReduceCall(side, p, n)
  BY <1>1, <1>2, <1>12, <1>13 DEF Contract!AddCall, Contract!ReduceCall, Bid, Contract!Bid
<1> QED
  BY <1>2, <1>14 DEF Contract!Next, Bid, Ask, Contract!Bid, Contract!Ask

\* price_book holds the lists of model/book.py's PriceBook, at every edge, and
\* registers the events it returns ("bit-matching", header of price_book.sv).
THEOREM BookIsPriceBook == Spec => ImplementsContract
<1>1. Init => Contract!Init
  BY EmptyList DEF Init, ResetBook, Contract!Init
<1>2. BookInv /\ BookInv' /\ [Next]_book => [Contract!Next]_Contract!vars
  <2>1. SUFFICES ASSUME BookInv, BookInv', [Next]_book
                 PROVE  [Contract!Next]_Contract!vars
    OBVIOUS
  <2>2. CASE Reset
    BY <2>2, ResetIsRestart DEF Contract!Next
  <2>3. CASE NoOperation
    BY <2>1, <2>3, HoldIsQuiet DEF Contract!Next
  <2>4. ASSUME NEW op \in Op, FitsLevel(op), Apply(op)
        PROVE  Contract!Next
    BY <2>1, <2>4, ApplyIsCall
  <2>5. CASE UNCHANGED book
    BY <2>5 DEF Contract!vars
  <2> QED
    BY <2>1, <2>2, <2>3, <2>4, <2>5 DEF Next
<1> QED
  BY <1>1, <1>2, BookInvariant, PTL DEF Spec, ImplementsContract, Contract!Spec

-----------------------------------------------------------------------------
(* Where the shares of a level come from.                                   *)

\* A level after an add: one there was, or the one of the price added to, which
\* holds at most what it held and what was added.
Grown(cur, e, op) ==
  \/ \E k \in Level : e.price = cur[k].price /\ e.shares = cur[k].shares
  \/ e.price = op.price /\ e.shares = op.shares
  \/ \E k \in Level : /\ cur[k].price = op.price /\ e.price = op.price
                      /\ e.shares <= cur[k].shares + op.shares

\* A level after a reduce: an empty one, one of another price as it was, or the
\* one of the price with what is left.
Shrunk(cur, e, op) ==
  \/ e.shares = 0
  \/ \E k \in Level :
       /\ e.price = cur[k].price
       /\ \/ cur[k].price # op.price /\ e.shares = cur[k].shares
          \/ cur[k].price = op.price /\ e.shares + op.shares <= cur[k].shares

\* A count that wraps does not grow by it.
LEMMA WrapsDown == ASSUME NEW x \in Nat, NEW m \in Nat \ {0} PROVE x % m <= x
<1>1. x % m \in 0 .. m - 1
  OBVIOUS
<1>2. CASE x < m
  <2>1. x % m = x
    BY <1>2
  <2> QED
    BY <2>1
<1>3. CASE ~(x < m)
  BY <1>1, <1>3
<1> QED
  BY <1>2, <1>3

\* An add makes shares from nothing but itself.
LEMMA AddGrows ==
  ASSUME NEW cur \in SideState, NEW op \in Op, NEW n, n = AddTo(cur, op).lvls
  PROVE  \A i \in Level : Grown(cur, n[i], op)
<1>1. Match(cur, op) \in SUBSET Level /\ Cand(cur, op) \in SUBSET Level
  BY DEF Match, Cand
<1>2. op.shares \in Nat /\ ShareMod \in Nat \ {0}
  <2>1. ShareMod \in Nat \ {0}
    BY DatapathAssumption
  <2>2. op.shares \in 0 .. ShareMod - 1
    BY QuantityAssumption DEF Op
  <2> QED
    BY <2>1, <2>2
<1>3. CASE Match(cur, op) # {}
  <2>1. PICK k : k = Lowest(Match(cur, op))
    OBVIOUS
  <2>2. k \in Level /\ k \in Match(cur, op)
    BY <1>1, <1>3, <2>1, LowestSet
  <2>3. cur[k].price = op.price /\ cur[k].shares \in Nat
    BY <2>2, LevelParts, DatapathAssumption DEF Match
  <2>4. PICK v : v = (cur[k].shares + op.shares) % ShareMod
    OBVIOUS
  <2>5. v <= cur[k].shares + op.shares
    BY <1>2, <2>3, <2>4, WrapsDown
  <2>6. n = [cur EXCEPT ![k].shares = v]
    BY <1>3, <2>1, <2>4 DEF AddTo, Result
  <2>7. cur \in [Level -> LevelState] /\ cur[k] \in LevelState
    BY <2>2 DEF SideState
  <2>8. n[k].price = cur[k].price /\ n[k].shares = v /\ \A i \in Level \ {k} : n[i] = cur[i]
    BY <2>2, <2>6, <2>7 DEF LevelState
  <2>9. ASSUME NEW i \in Level PROVE Grown(cur, n[i], op)
    <3>1. CASE i = k
      BY <2>2, <2>3, <2>5, <2>8, <3>1 DEF Grown
    <3>2. CASE i # k
      BY <2>8, <3>2 DEF Grown
    <3> QED
      BY <3>1, <3>2
  <2> QED
    BY <2>9
<1>4. CASE Match(cur, op) = {} /\ Cand(cur, op) = {}
  <2>1. n = cur
    BY <1>4 DEF AddTo, Result
  <2> QED
    BY <2>1 DEF Grown
<1>5. CASE Match(cur, op) = {} /\ Cand(cur, op) # {}
  <2>1. PICK k, new : /\ k = Lowest(Cand(cur, op))
                      /\ new = [vld |-> TRUE, price |-> op.price, shares |-> op.shares]
    OBVIOUS
  <2>2. k \in Level
    BY <1>1, <1>5, <2>1, LowestSet
  <2>3. n = ShiftDown(cur, k, new)
    BY <1>5, <2>1 DEF AddTo, Result
  <2>4. ASSUME NEW i \in Level PROVE Grown(cur, n[i], op)
    <3>0. i \in Nat /\ k \in Nat
      BY <2>2, Boundary
    <3>1. n[i] = IF i < k THEN cur[i] ELSE IF i = k THEN new ELSE cur[i - 1]
      BY <2>3 DEF ShiftDown
    <3>2. i > k => i - 1 \in Level
      BY <3>0, Boundary
    <3>3. CASE i < k
      BY <3>1, <3>3 DEF Grown
    <3>4. CASE i = k
      <4>1. n[i] = new
        BY <3>0, <3>1, <3>4
      <4> QED
        BY <2>1, <4>1 DEF Grown
    <3>5. CASE i > k
      <4>1. n[i] = cur[i - 1] /\ i - 1 \in Level
        BY <3>0, <3>1, <3>2, <3>5
      <4> QED
        BY <4>1 DEF Grown
    <3> QED
      BY <3>0, <3>3, <3>4, <3>5
  <2> QED
    BY <2>4
<1> QED
  BY <1>3, <1>4, <1>5

\* A reduce takes what it says from the level of its price, or all there is.
LEMMA ReduceShrinks ==
  ASSUME NEW side \in {Bid, Ask}, NEW cur \in SideState, WellFormed(side, cur),
         NEW op \in Op, NEW n, n = ReduceFrom(cur, op).lvls
  PROVE  \A i \in Level : Shrunk(cur, n[i], op)
<1>1. op.shares \in Nat
  <2>1. op.shares \in 0 .. ShareMod - 1
    BY QuantityAssumption DEF Op
  <2> QED
    BY <2>1
<1>2. ASSUME NEW i \in Level, i \notin Match(cur, op)
      PROVE  cur[i].price # op.price \/ cur[i].shares = 0
  <2>1. cur[i].price = op.price => cur[i] = NoLevel
    BY <1>2 DEF Match, WellFormed, ZeroedBeyond
  <2> QED
    BY <2>1 DEF NoLevel
<1>3. ASSUME NEW i \in Level, i \notin Match(cur, op) PROVE Shrunk(cur, cur[i], op)
  BY <1>2, <1>3 DEF Shrunk
<1>4. CASE Match(cur, op) = {}
  <2>1. n = cur
    BY <1>4 DEF ReduceFrom, Result
  <2> QED
    BY <1>3, <1>4, <2>1
<1>5. CASE Match(cur, op) # {}
  <2>1. PICK k : k = Lowest(Match(cur, op))
    OBVIOUS
  <2>2. k \in Level /\ k \in Match(cur, op) /\ Match(cur, op) \in SUBSET Level
    BY <1>5, <2>1, LowestSet DEF Match
  <2>3. cur[k].vld /\ cur[k].price = op.price /\ cur[k].shares \in Nat
    BY <2>2, LevelParts, DatapathAssumption DEF Match
  <2>4. ASSUME NEW i \in Level, i # k PROVE i \notin Match(cur, op)
    <3>1. SUFFICES ASSUME i \in Match(cur, op) PROVE FALSE
      OBVIOUS
    <3>2. cur[i].vld /\ cur[i].price = op.price
      BY <3>1 DEF Match
    <3>3. i < k \/ k < i
      <4>1. i \in Nat /\ k \in Nat
        BY <2>2, Boundary
      <4> QED
        BY <2>4, <4>1
    <3>4. Better(side, op.price, op.price)
      BY <2>2, <2>3, <3>2, <3>3, SortedThroughout
    <3>5. op.price \in Nat
      BY <2>2, <2>3, LevelParts
    <3> QED
      BY <3>4, <3>5 DEF Better
  <2>5. CASE cur[k].shares <= op.shares
    <3>1. n = ShiftUp(cur, k)
      BY <1>5, <2>1, <2>5 DEF ReduceFrom, Result
    <3>2. ASSUME NEW i \in Level PROVE Shrunk(cur, n[i], op)
      <4>1. n[i] = IF i < k THEN cur[i] ELSE IF i = N_LEVELS - 1 THEN NoLevel ELSE cur[i + 1]
        BY <3>1 DEF ShiftUp
      <4>2. CASE i < k
        <5>1. i # k /\ n[i] = cur[i]
          BY <2>2, <4>1, <4>2, Boundary
        <5> QED
          BY <1>3, <2>4, <5>1
      <4>3. CASE ~(i < k) /\ i = N_LEVELS - 1
        BY <4>1, <4>3 DEF NoLevel, Shrunk
      <4>4. CASE ~(i < k) /\ i # N_LEVELS - 1
        <5>1. PICK j : j = i + 1
          OBVIOUS
        <5>2. j \in Level /\ j # k /\ n[i] = cur[j]
          BY <2>2, <4>1, <4>4, <5>1, Boundary
        <5> QED
          BY <1>3, <2>4, <5>2
      <4> QED
        BY <4>2, <4>3, <4>4
    <3> QED
      BY <3>2
  <2>6. CASE ~(cur[k].shares <= op.shares)
    <3>1. PICK v : v = cur[k].shares - op.shares
      OBVIOUS
    <3>2. n = [cur EXCEPT ![k].shares = v]
      BY <1>5, <2>1, <2>6, <3>1 DEF ReduceFrom, Result
    <3>3. cur \in [Level -> LevelState] /\ cur[k] \in LevelState
      BY <2>2 DEF SideState
    <3>4. n[k].price = cur[k].price /\ n[k].shares = v /\ \A i \in Level \ {k} : n[i] = cur[i]
      BY <2>2, <3>2, <3>3 DEF LevelState
    <3>5. v + op.shares <= cur[k].shares
      BY <1>1, <2>3, <3>1
    <3>6. Shrunk(cur, n[k], op)
      BY <2>2, <2>3, <3>4, <3>5 DEF Shrunk
    <3>7. ASSUME NEW i \in Level, i # k PROVE Shrunk(cur, n[i], op)
      BY <1>3, <2>4, <3>4, <3>7
    <3> QED
      BY <3>6, <3>7
  <2> QED
    BY <2>5, <2>6
<1> QED
  BY <1>4, <1>5
=============================================================================
