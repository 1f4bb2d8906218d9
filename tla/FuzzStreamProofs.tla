---------------------------- MODULE FuzzStreamProofs ----------------------------
(***************************************************************************)
(* Proofs about the fuzzing of the whole datapath, for every stream that   *)
(* build_fuzz_stream makes: any number of damaged messages of any legal    *)
(* length, any cut, any tail.  The invariant joins                         *)
(*   Layout     what the stream is: the packets, the messages and bytes in *)
(*              front of each, and where the damaged session was cut,      *)
(*   PlaceInv   where the next byte stands, and the framer with it,        *)
(*   CountInv   messages framed or counted as empty are those taken,       *)
(*   GapsInv    the sequence numbers judged, with the one gap at the cut,  *)
(*   LateInv    an update under way is of the last message, and comes out  *)
(*              before the next one ends,                                  *)
(*   IdleInv    the watchdog counts no more cycles than bytes since then,  *)
(*   SumInv     the updates counted on either side of the cut.             *)
(* What the framer does with one packet is taken over from MoldLinkProofs, *)
(* whose Sound packets and Place these are.  That the stream is so laid    *)
(* out when it is built is half of the work: PackPackets and SubSeq make   *)
(* the packets, and Layout says it of every one of them.                   *)
(***************************************************************************)
EXTENDS FuzzStream, WellFoundedInduction, SequenceTheorems, FiniteSetTheorems, TLAPS

-----------------------------------------------------------------------------
(* Sums of effects.                                                         *)

\* A set that has zero and, up to n, every successor has all numbers up to n.
LEMMA UpTo ==
  ASSUME NEW n \in Nat, NEW W, 0 \in W, \A m \in 0 .. n - 1 : m \in W => m + 1 \in W
  PROVE  \A m \in 0 .. n : m \in W
<1>1. SUFFICES ASSUME {m \in 0 .. n : m \notin W} # {} PROVE FALSE
  OBVIOUS
<1>2. PICK V : V = {m \in 0 .. n : m \notin W}
  OBVIOUS
<1>3. PICK m \in V : \A k \in V : <<k, m>> \notin OpToRel(<, Nat)
  <2>1. V \subseteq Nat /\ V # {}
    BY <1>1, <1>2
  <2> QED
    BY <2>1, WFMin, NatLessThanWellFounded
<1>4. \A k \in V : ~(k < m)
  <2>1. \A k \in V : k \in Nat
    BY <1>2
  <2> QED
    BY <1>3, <2>1, Zenon DEF OpToRel
<1>5. m \in 1 .. n /\ m - 1 \in 0 .. n - 1 /\ m - 1 < m /\ (m - 1) + 1 = m
  <2>1. m \in 0 .. n /\ m \notin W
    BY <1>2
  <2>2. m # 0
    BY <2>1
  <2> QED
    BY <2>1, <2>2
<1>6. m - 1 \in W
  BY <1>2, <1>4, <1>5
<1> QED
  BY <1>2, <1>3, <1>5, <1>6

\* s[n] is the sum of the effects of the first n messages.
Sums(ms, s) ==
  /\ s \in [0 .. Len(ms) -> Nat] /\ s[0] = 0
  /\ \A n \in 1 .. Len(ms) : s[n] = s[n - 1] + ms[n].effect

\* SumOf is the last of the sums, whatever sums they are.
LEMMA SumIs ==
  ASSUME NEW n \in Nat, NEW ms, Len(ms) = n, NEW s, Sums(ms, s)
  PROVE  SumOf(ms) = s[n]
<1> DEFINE sum == CHOOSE f : f = [m \in 0 .. Len(ms) |->
                    IF m = 0 THEN 0 ELSE f[m - 1] + ms[m].effect]
<1>1. SumOf(ms) = sum[n]
  BY DEF SumOf
<1>2. s = [m \in 0 .. Len(ms) |-> IF m = 0 THEN 0 ELSE s[m - 1] + ms[m].effect]
  <2>1. \A m \in 0 .. n : s[m] = IF m = 0 THEN 0 ELSE s[m - 1] + ms[m].effect
    BY DEF Sums
  <2> QED
    BY <2>1 DEF Sums
<1>3. sum = [m \in 0 .. Len(ms) |-> IF m = 0 THEN 0 ELSE sum[m - 1] + ms[m].effect]
  BY <1>2
<1> HIDE DEF sum
<1>4. PICK W : W = {m \in 0 .. n : sum[m] = s[m]}
  OBVIOUS
<1>5. 0 \in W
  <2>1. sum[0] = 0 /\ s[0] = 0
    BY <1>2, <1>3
  <2> QED
    BY <1>4, <2>1
<1>6. ASSUME NEW m \in 0 .. n - 1, m \in W PROVE m + 1 \in W
  <2>1. m + 1 \in 0 .. n /\ m + 1 # 0 /\ (m + 1) - 1 = m
    BY <1>6
  <2>2. sum[m + 1] = sum[m] + ms[m + 1].effect /\ s[m + 1] = s[m] + ms[m + 1].effect
    BY <1>2, <1>3, <2>1
  <2> QED
    BY <1>4, <1>6, <2>1, <2>2
<1>7. n \in W
  <2>1. \A m \in 0 .. n : m \in W
    BY <1>5, <1>6, UpTo
  <2> QED
    BY <2>1
<1> QED
  BY <1>1, <1>4, <1>7

\* There are such sums.
LEMMA SumsExist ==
  ASSUME NEW ms \in Seq([len : Word, effect : Nat])
  PROVE  \E s : Sums(ms, s)
<1>1. PICK n : n = Len(ms) /\ n \in Nat
  OBVIOUS
<1> DEFINE From(m) == {g \in [0 .. m -> Nat] :
                        g[0] = 0 /\ \A i \in 1 .. m : g[i] = g[i - 1] + ms[i].effect}
<1>2. PICK W : W = {m \in 0 .. n : From(m) # {}}
  OBVIOUS
<1>3. 0 \in W
  <2>1. [m \in 0 .. 0 |-> 0] \in From(0)
    OBVIOUS
  <2> QED
    BY <1>1, <1>2, <2>1
<1>4. ASSUME NEW m \in 0 .. n - 1, m \in W PROVE m + 1 \in W
  <2>1. PICK g \in From(m) : TRUE
    BY <1>2, <1>4
  <2>2. PICK e \in Nat : e = ms[m + 1].effect
    <3>1. m + 1 \in 1 .. n
      BY <1>1, <1>4
    <3>2. ms[m + 1] \in [len : Word, effect : Nat]
      BY <1>1, <3>1, ElementOfSeq
    <3> QED
      BY <3>2
  <2>3. PICK h : h = [i \in 0 .. m + 1 |-> IF i <= m THEN g[i] ELSE g[m] + e]
    OBVIOUS
  <2>4. h \in [0 .. m + 1 -> Nat] /\ h[0] = 0
    <3>1. m \in 0 .. m /\ g[m] \in Nat
      BY <1>4, <2>1
    <3> QED
      BY <1>4, <2>1, <2>2, <2>3, <3>1
  <2>5. ASSUME NEW i \in 1 .. m + 1 PROVE h[i] = h[i - 1] + ms[i].effect
    <3>1. i - 1 \in 0 .. m + 1 /\ i - 1 <= m /\ i \in 0 .. m + 1 /\ m \in Nat
      BY <1>4
    <3>2. h[i - 1] = g[i - 1]
      BY <2>3, <3>1
    <3>3. CASE i <= m
      BY <2>1, <2>3, <3>1, <3>2, <3>3
    <3>4. CASE i = m + 1
      <4>1. h[i] = g[m] + e /\ i - 1 = m
        BY <2>3, <3>1, <3>4
      <4> QED
        BY <2>2, <3>2, <3>4, <4>1
    <3> QED
      BY <3>1, <3>3, <3>4
  <2>6. h \in From(m + 1)
    BY <2>4, <2>5
  <2>7. m + 1 \in 0 .. n
    BY <1>1, <1>4
  <2> HIDE DEF From
  <2> QED
    BY <1>2, <2>6, <2>7
<1> HIDE DEF From
<1>5. n \in W
  <2>1. n \in Nat /\ \A m \in 0 .. n : m \in W
    BY <1>1, <1>3, <1>4, UpTo
  <2> QED
    BY <2>1
<1>6. PICK g \in From(n) : TRUE
  BY <1>2, <1>5
<1> QED
  BY <1>1, <1>6 DEF From, Sums

\* The sum of the messages behind the first m is what these leave of the sum of all.
LEMMA SumBehind ==
  ASSUME NEW ms \in Seq([len : Word, effect : Nat]), NEW s, Sums(ms, s), NEW m \in 0 .. Len(ms)
  PROVE  SumOf(SubSeq(ms, m + 1, Len(ms))) = s[Len(ms)] - s[m]
<1>1. PICK n \in Nat : n = Len(ms)
  OBVIOUS
<1>2. PICK rest : rest = SubSeq(ms, m + 1, n)
  OBVIOUS
<1>3. /\ n - m \in Nat /\ m \in Nat /\ Len(rest) = n - m
      /\ \A i \in 1 .. n - m : rest[i] = ms[m + i]
  BY <1>1, <1>2
<1>4. \A i \in 0 .. n : s[i] \in Nat
  BY <1>1 DEF Sums
<1>5. PICK W : W = {i \in 0 .. n - m : s[m] <= s[m + i]}
  OBVIOUS
<1>6. 0 \in W
  BY <1>3, <1>4, <1>5
<1>7. ASSUME NEW i \in 0 .. (n - m) - 1, i \in W PROVE i + 1 \in W
  <2>1. m + (i + 1) \in 1 .. n /\ m + i \in 0 .. n /\ (m + (i + 1)) - 1 = m + i /\ i + 1 \in 0 .. n - m
    <3>1. i \in Nat /\ i + 1 <= n - m
      BY <1>3, <1>7
    <3> QED
      BY <1>3, <3>1
  <2>2. s[m + (i + 1)] = s[m + i] + ms[m + (i + 1)].effect
    BY <1>1, <2>1 DEF Sums
  <2>3. ms[m + (i + 1)] \in [len : Word, effect : Nat]
    BY <1>1, <2>1, ElementOfSeq
  <2>4. ms[m + (i + 1)].effect \in Nat
    BY <2>3
  <2>5. s[m] \in Nat /\ s[m + i] \in Nat /\ s[m] <= s[m + i]
    BY <1>1, <1>4, <1>5, <1>7, <2>1
  <2> QED
    BY <1>5, <2>1, <2>2, <2>4, <2>5
<1>8. \A i \in 0 .. n - m : i \in W
  BY <1>3, <1>6, <1>7, UpTo
<1>9. PICK t : t = [i \in 0 .. n - m |-> s[m + i] - s[m]]
  OBVIOUS
<1>10. Sums(rest, t)
  <2>1. ASSUME NEW i \in 0 .. n - m PROVE t[i] \in Nat
    <3>1. s[m] <= s[m + i] /\ m + i \in 0 .. n /\ m \in 0 .. n
      BY <1>1, <1>3, <1>5, <1>8
    <3> QED
      BY <1>4, <1>9, <3>1
  <2>2. t[0] = 0
    <3>1. m + 0 = m /\ s[m] \in Nat /\ 0 \in 0 .. n - m
      BY <1>1, <1>3, <1>4
    <3> QED
      BY <1>9, <3>1
  <2>3. ASSUME NEW i \in 1 .. n - m PROVE t[i] = t[i - 1] + rest[i].effect
    <3>1. /\ m + i \in 1 .. n /\ i - 1 \in 0 .. n - m /\ i \in 0 .. n - m
          /\ (m + i) - 1 = m + (i - 1) /\ m + (i - 1) \in 0 .. n /\ m + i \in 0 .. n
      BY <1>1, <1>3
    <3>2. s[m + i] = s[m + (i - 1)] + ms[m + i].effect
      BY <1>1, <3>1 DEF Sums
    <3>3. ms[m + i] \in [len : Word, effect : Nat]
      BY <1>1, <3>1, ElementOfSeq
    <3>4. PICK e \in Nat : e = ms[m + i].effect
      BY <3>3
    <3>5. PICK a, b, c \in Nat : a = s[m + i] /\ b = s[m + (i - 1)] /\ c = s[m]
      BY <1>1, <1>4, <3>1
    <3>6. t[i] = a - c /\ t[i - 1] = b - c /\ rest[i].effect = e
      BY <1>3, <1>9, <3>1, <3>4, <3>5
    <3>7. a = b + e
      BY <3>2, <3>4, <3>5
    <3>8. a - c = (b - c) + e
      BY <3>7
    <3> QED
      BY <3>6, <3>8, Zenon
  <2> QED
    BY <1>3, <1>9, <2>1, <2>2, <2>3 DEF Sums
<1>11. SumOf(rest) = t[n - m]
  BY <1>3, <1>10, SumIs
<1>12. t[n - m] = s[n] - s[m]
  <2>1. n - m \in 0 .. n - m /\ m + (n - m) = n
    BY <1>3
  <2> QED
    BY <1>9, <2>1
<1> QED
  BY <1>1, <1>2, <1>11, <1>12
-----------------------------------------------------------------------------
(* What MoldLinkProofs shows of the framer holds here: its packets are those *)
(* of a writer whose messages have any length, and the framer is the same.  *)

Longer == IF MaxDirty < MaxTail THEN MaxTail ELSE MaxDirty

Link == INSTANCE MoldLinkProofs
          WITH Length <- Word, start_seq <- 1, MaxMessages <- Longer,
               MaxInFlight <- 1, MaxFaults <- 0, NoSeq <- 0 - 1,
               batch <- << >>, seq <- 1, closed <- FALSE, faults <- 0,
               due_number <- 0, in_order <- TRUE, run <- 0

LEMMA SamePower == Link!Power = Power
  BY DEF Link!Power, Power

LEMMA SameConstants ==
  /\ Link!SeqWrap = SeqWrap /\ Link!EndCount = EndCount /\ Link!Word = Word
  /\ Link!Byte = Byte
  /\ Link!COUNT_LEN = 2 /\ Link!LEN_LEN = 2 /\ COUNT_LEN = 2 /\ LEN_LEN = 2
  /\ Link!HeaderLen = SESSION_LEN + SEQ_LEN + COUNT_LEN
  BY SamePower DEF Link!SeqWrap, SeqWrap, Link!EndCount, EndCount, Link!COUNT_LEN, COUNT_LEN,
    Link!LEN_LEN, LEN_LEN, Link!Word, Word, Link!Byte, Byte, Link!HeaderLen

\* What the writer of the link needs of its constants holds.
LEMMA SameAssumptions ==
  Link!FramerAssumption /\ Link!LinkAssumption /\ Link!NoSeqAssumption
<1>1. Link!FramerAssumption
  BY FramerAssumption DEF Link!FramerAssumption
<1>2. Longer \in Nat /\ 1 + Longer < SeqWrap
  BY FuzzAssumption DEF Longer
<1>3. Link!LinkAssumption
  BY <1>2, SameConstants, FuzzAssumption, FramerAssumption DEF Link!LinkAssumption
<1> QED
  BY <1>1, <1>3 DEF Link!NoSeqAssumption

\* The widths of the fields are positive, and a word has two bytes.
LEMMA Widths ==
  /\ SESSION_LEN \in Nat \ {0} /\ SEQ_LEN \in Nat \ {0} /\ COUNT_LEN = 2 /\ LEN_LEN = 2
  /\ SeqWrap \in Nat \ {0} /\ Power[2] \in Nat \ {0} /\ Word = 0 .. Power[2] - 1
  /\ EndCount \in Nat /\ EndCount > 1 /\ EndCount = Power[2] - 1 /\ 0 \in Byte
<1>1. /\ Link!SeqWrap \in Nat \ {0} /\ Link!Power[2] \in Nat \ {0} /\ Link!EndCount \in Nat
      /\ Link!EndCount > 1 /\ 0 \in Link!Byte
  BY SameAssumptions, Link!Sizes
<1> QED
  BY <1>1, SamePower, SameConstants, FramerAssumption DEF Word, EndCount

\* The bounds of the streams.
LEMMA Constants ==
  /\ ORDER_LEN \in Nat \ {0} /\ ORDER_LEN \in Word
  /\ SYSTEM_LEN \in Nat \ {0, ORDER_LEN} /\ SYSTEM_LEN \in Word
  /\ MAX_BOGUS_LEN \in Nat /\ 0 .. MAX_BOGUS_LEN \subseteq Word
  /\ Effect \subseteq Nat
  /\ MinLatency \in Nat \ {0} /\ MaxLatency \in Nat /\ MaxLatency <= ORDER_LEN + 1
  /\ MaxLatency <= SESSION_LEN + SEQ_LEN + COUNT_LEN
  /\ msgs_per_packet \in Nat \ {0} /\ msgs_per_packet < EndCount
  /\ watchdog_limit \in Nat
<1>1. \A n \in Word : n \in Nat
  BY Widths
<1>2. ORDER_LEN \in Nat \ {0} /\ SYSTEM_LEN \in Nat \ {0, ORDER_LEN} /\ MAX_BOGUS_LEN \in Nat
      /\ ORDER_LEN \in Word /\ SYSTEM_LEN \in Word
  BY <1>1, FuzzAssumption
<1>3. 0 .. MAX_BOGUS_LEN \subseteq Word
  BY Widths, FuzzAssumption
<1>4. MinLatency \in Nat \ {0} /\ MaxLatency \in Nat /\ MaxLatency <= ORDER_LEN + 1
      /\ MaxLatency <= SESSION_LEN + SEQ_LEN + COUNT_LEN
  BY <1>2, FuzzAssumption
<1>5. msgs_per_packet \in Nat \ {0} /\ msgs_per_packet < EndCount
  BY Widths, FuzzAssumption
<1> QED
  BY <1>2, <1>3, <1>4, <1>5, FuzzAssumption

LEMMA SameFlatten == ASSUME NEW s PROVE Link!FlattenSeq(s) = FlattenSeq(s)
  BY DEF Link!FlattenSeq, FlattenSeq

LEMMA SameDigits == ASSUME NEW v, NEW len PROVE Link!Digits(v, len) = Digits(v, len)
  BY SamePower DEF Link!Digits, Digits

LEMMA SameHeader == ASSUME NEW p PROVE Link!PacketHeader(p) = PacketHeader(p)
  BY SameDigits DEF Link!PacketHeader, PacketHeader, Link!COUNT_LEN, COUNT_LEN

LEMMA SameBytes == ASSUME NEW p PROVE Link!PacketBytes(p) = PacketBytes(p)
  BY SameDigits, SameFlatten DEF Link!PacketBytes, PacketBytes, Link!PacketHeader, PacketHeader,
    Link!COUNT_LEN, COUNT_LEN, Link!Record, Record, Link!LEN_LEN, LEN_LEN

LEMMA SameEnded == ASSUME NEW p, NEW n PROVE Link!EndedBy(p, n) = EndedBy(p, n)
<1>1. \A len : Link!Record(len) = Record(len)
  BY SameDigits DEF Link!Record, Record, Link!LEN_LEN, LEN_LEN
<1>2. \A i : Link!FlattenSeq([j \in 1 .. i |-> Link!Record(p.lens[j])])
             = FlattenSeq([j \in 1 .. i |-> Record(p.lens[j])])
  BY <1>1, SameFlatten
<1>3. \A S : Link!Cardinality(S) = Cardinality(S)
  BY DEF Link!Cardinality, Cardinality
<1>4. {i \in DOMAIN p.lens : Len(Link!PacketHeader(p))
           + Len(Link!FlattenSeq([j \in 1 .. i |-> Link!Record(p.lens[j])])) <= n}
      = {i \in DOMAIN p.lens : Len(PacketHeader(p))
           + Len(FlattenSeq([j \in 1 .. i |-> Record(p.lens[j])])) <= n}
  BY <1>2, SameHeader
<1> QED
  BY <1>3, <1>4, Zenon DEF Link!EndedBy, EndedBy

LEMMA SameByte == ASSUME NEW b PROVE Link!FramerByte(b) <=> FramerByte(b)
<1>1. \A r, d, l : Link!Shift(r, d, l) = Shift(r, d, l)
  BY SamePower DEF Link!Shift, Shift
<1>2. \A seq : Link!Gap(seq) = Gap(seq)
  BY DEF Link!Gap, Gap
<1>3. \A c : Link!Contrib(c) = Contrib(c) /\ Link!Inc(c) = Inc(c)
  BY SameConstants DEF Link!Contrib, Contrib, Link!Inc, Inc
<1>4. /\ \A l : Link!Ends(l) = Ends(l)
      /\ \A l, s : Link!NextByte(l, s) = NextByte(l, s)
      /\ Link!NoOutput = NoOutput /\ Link!AfterMessage = AfterMessage /\ Link!header = header
  BY DEF Link!Ends, Ends, Link!NextByte, NextByte, Link!NoOutput, NoOutput,
    Link!AfterMessage, AfterMessage, Link!header, header
<1>5. Link!SessionByte(b) <=> SessionByte(b)
  BY <1>4, Zenon DEF Link!SessionByte, SessionByte, Link!header, header
<1>6. Link!SeqByte(b) <=> SeqByte(b)
  BY <1>1, <1>4, Zenon DEF Link!SeqByte, SeqByte
<1>7. Link!CountByte(b) <=> CountByte(b)
  BY <1>1, <1>4, Zenon DEF Link!CountByte, CountByte, Link!header, header, Link!COUNT_LEN, COUNT_LEN
<1>8. Link!HeaderDone(b) <=> HeaderDone(b)
  BY <1>1, <1>2, <1>3, <1>4, SameConstants, Zenon
    DEF Link!HeaderDone, HeaderDone, Link!COUNT_LEN, COUNT_LEN
<1>9. Link!LengthByte(b) <=> LengthByte(b)
  BY <1>1, <1>4, Zenon DEF Link!LengthByte, LengthByte, Link!header, header, Link!LEN_LEN, LEN_LEN
<1>10. Link!ZeroLength(b) <=> ZeroLength(b)
  BY <1>1, <1>3, <1>4, Zenon
    DEF Link!ZeroLength, ZeroLength, Link!header, header, Link!LEN_LEN, LEN_LEN
<1>11. Link!LengthDone(b) <=> LengthDone(b)
  BY <1>1, <1>4, Zenon DEF Link!LengthDone, LengthDone, Link!header, header, Link!LEN_LEN, LEN_LEN
<1>12. Link!BodyByte(b) <=> BodyByte(b)
  BY Zenon DEF Link!BodyByte, BodyByte, Link!header, header
<1>13. Link!BodyDone(b) <=> BodyDone(b)
  BY <1>4, Zenon DEF Link!BodyDone, BodyDone, Link!header, header
<1> QED
  BY <1>5, <1>6, <1>7, <1>8, <1>9, <1>10, <1>11, <1>12, <1>13, Zenon
    DEF Link!FramerByte, FramerByte

-----------------------------------------------------------------------------
(* A byte of a packet.                                                      *)

Hdr     == SESSION_LEN + SEQ_LEN + COUNT_LEN
Sound   == Link!Sound
Size(p) == Len(PacketBytes(p))

\* The bytes of p among the first n since the last end of a message.
Mark(p, n)  == IF EndedBy(p, n) = 0 THEN 0 ELSE Link!Off(p, EndedBy(p, n))
Since(p, n) == n - Mark(p, n)

LEMMA Whole ==
  ASSUME NEW p \in Sound
  PROVE  /\ Hdr \in Nat /\ Hdr > 2 /\ Size(p) \in Nat /\ Size(p) >= Hdr
         /\ p.lens \in Seq(Word) /\ Len(p.lens) \in Nat
         /\ \A i \in 1 .. Len(p.lens) : p.lens[i] \in Nat
         /\ \A n \in Nat : n <= Hdr => EndedBy(p, n) = 0 /\ Since(p, n) = n
<1>1. Hdr \in Nat /\ Hdr > 2 /\ Hdr = Link!HeaderLen
  BY Widths, SameConstants DEF Hdr
<1>2. /\ p.lens \in Seq(Link!Word) /\ Len(p.lens) \in Nat
      /\ \A i \in 1 .. Len(p.lens) : p.lens[i] \in Nat
      /\ Len(Link!PacketBytes(p)) \in Nat /\ Len(Link!PacketBytes(p)) >= Link!HeaderLen
  BY SameAssumptions, SameConstants, Link!PacketFacts DEF Sound
<1>3. ASSUME NEW n \in Nat, n <= Hdr PROVE EndedBy(p, n) = 0
  BY <1>1, <1>3, SameAssumptions, SameEnded, Link!InHeader DEF Sound
<1>4. ASSUME NEW n \in Nat, n <= Hdr PROVE Since(p, n) = n
  BY <1>3, <1>4 DEF Since, Mark
<1> QED
  BY <1>1, <1>2, <1>3, <1>4, SameBytes, SameConstants DEF Size

\* Inside message i, and behind its last byte.
LEMMA Inside ==
  ASSUME NEW p \in Sound, NEW i \in 1 .. Len(p.lens), NEW n \in Nat,
         Link!Off(p, i - 1) <= n, n < Link!Off(p, i)
  PROVE  /\ Link!Off(p, i) \in Nat /\ Hdr + 2 + p.lens[i] <= Link!Off(p, i)
         /\ n >= Hdr /\ Link!Off(p, i) <= Size(p) /\ (Link!Off(p, i) = Size(p) <=> i = Len(p.lens))
         /\ EndedBy(p, n) = i - 1
         /\ EndedBy(p, n + 1) = IF n + 1 = Link!Off(p, i) THEN i ELSE i - 1
         /\ Since(p, n) \in Nat
         /\ IF n + 1 = Link!Off(p, i)
            THEN Since(p, n + 1) = 0 /\ 2 + p.lens[i] <= Since(p, n) + 1
            ELSE Since(p, n + 1) = Since(p, n) + 1 /\ Since(p, n) + 1 < Hdr + 2 + p.lens[i]
<1>1. PICK all, k : all = Len(p.lens) /\ k = i - 1
  OBVIOUS
<1>2. all \in Nat /\ i \in 1 .. all /\ k \in 0 .. all /\ i \in 0 .. all /\ all \in 0 .. all
      /\ k + 1 = i /\ 0 \in 0 .. all
  BY <1>1, Whole
<1>3. /\ Link!Off(p, 0) = Hdr
      /\ \A j \in 0 .. all : Link!Off(p, j) \in Nat /\ Link!Off(p, j) >= Hdr
      /\ \A j \in 1 .. all : Link!Off(p, j) = Link!Off(p, j - 1) + 2 + p.lens[j]
      /\ \A j, m \in 0 .. all : j < m => Link!Off(p, j) < Link!Off(p, m)
  BY <1>1, Whole, SameAssumptions, SameConstants, Link!Offsets DEF Hdr
<1>4. PICK a, b \in Nat : a = Link!Off(p, k) /\ b = Link!Off(p, i)
  BY <1>2, <1>3
<1>5. p.lens[i] \in Nat /\ b = a + 2 + p.lens[i] /\ a >= Hdr /\ Hdr \in Nat /\ a <= n /\ n < b
  BY <1>1, <1>2, <1>3, <1>4, Whole
<1>6. /\ EndedBy(p, n) = k
      /\ EndedBy(p, n + 1) = IF n + 1 = b THEN i ELSE k
  <2>1. p \in Link!Sound
    BY DEF Sound
  <2>2. /\ Link!EndedBy(p, n) = i - 1
        /\ Link!EndedBy(p, n + 1) = IF n + 1 = Link!Off(p, i) THEN i ELSE i - 1
    BY <2>1, SameAssumptions, Link!Within
  <2> QED
    BY <1>1, <1>4, <2>2, SameEnded
<1>7. Size(p) = Link!Off(p, all)
  BY <1>1, SameAssumptions, SameBytes, Link!PacketFacts DEF Sound, Size
<1>8. b <= Size(p) /\ (b = Size(p) <=> i = all)
  <2>1. i = all \/ i < all
    BY <1>2
  <2>2. i < all => b < Link!Off(p, all)
    BY <1>2, <1>3, <1>4
  <2>3. Link!Off(p, all) \in Nat
    BY <1>2, <1>3
  <2> QED
    BY <1>2, <1>4, <1>7, <2>1, <2>2, <2>3
<1>9. Since(p, n) = IF k = 0 THEN n ELSE n - a
  <2>1. CASE k = 0
    BY <1>6, <2>1 DEF Since, Mark
  <2>2. CASE k # 0
    BY <1>4, <1>6, <2>2 DEF Since, Mark
  <2> QED
    BY <2>1, <2>2
<1>10. k = 0 => a = Hdr
  BY <1>3, <1>4
<1>11. Since(p, n) \in Nat
  BY <1>5, <1>9, <1>10
<1>12. ASSUME n + 1 = b PROVE Since(p, n + 1) = 0 /\ 2 + p.lens[i] <= Since(p, n) + 1
  <2>1. EndedBy(p, n + 1) = i /\ i # 0
    BY <1>2, <1>6, <1>12
  <2>2. Since(p, n + 1) = (n + 1) - b
    BY <1>4, <2>1 DEF Since, Mark
  <2>3. Since(p, n + 1) = 0
    BY <1>12, <2>2
  <2>4. 2 + p.lens[i] <= Since(p, n) + 1
    BY <1>5, <1>9, <1>10, <1>12
  <2> QED
    BY <2>3, <2>4
<1>13. ASSUME n + 1 # b
       PROVE  Since(p, n + 1) = Since(p, n) + 1 /\ Since(p, n) + 1 < Hdr + 2 + p.lens[i]
  <2>1. EndedBy(p, n + 1) = k
    BY <1>6, <1>13
  <2>2. Since(p, n + 1) = IF k = 0 THEN n + 1 ELSE (n + 1) - a
    <3>1. CASE k = 0
      BY <2>1, <3>1 DEF Since, Mark
    <3>2. CASE k # 0
      BY <1>4, <2>1, <3>2 DEF Since, Mark
    <3> QED
      BY <3>1, <3>2
  <2>3. Since(p, n + 1) = Since(p, n) + 1
    BY <1>5, <1>9, <2>2
  <2>4. Since(p, n) + 1 < Hdr + 2 + p.lens[i]
    BY <1>5, <1>9, <1>10, <1>13
  <2> QED
    BY <2>3, <2>4
<1>14. b \in Nat /\ Hdr + 2 + p.lens[i] <= b /\ n >= Hdr
  BY <1>5
<1> QED
  BY <1>1, <1>4, <1>6, <1>8, <1>11, <1>12, <1>13, <1>14

\* The byte n + 1 of p, in which the framer stands.
LEMMA Taking ==
  ASSUME NEW p \in Sound, NEW n \in Nat, Link!Stands(p, n)
  PROVE  /\ n < Size(p) /\ EndedBy(p, n) \in 0 .. Len(p.lens)
         /\ EndedBy(p, n + 1) \in {EndedBy(p, n), EndedBy(p, n) + 1}
         /\ EndedBy(p, n + 1) \in 0 .. Len(p.lens)
         /\ n + 1 = Size(p) => /\ EndedBy(p, n + 1) = Len(p.lens)
                               /\ Len(p.lens) # 0 => EndedBy(p, n) # Len(p.lens)
         /\ Since(p, n) \in Nat
         /\ n >= Hdr => EndedBy(p, n) < Len(p.lens)
         /\ IF EndedBy(p, n + 1) = EndedBy(p, n)
            THEN /\ Since(p, n + 1) = Since(p, n) + 1
                 /\ n >= Hdr => Since(p, n) + 1 < Hdr + 2 + p.lens[EndedBy(p, n) + 1]
            ELSE /\ Since(p, n + 1) = 0 /\ EndedBy(p, n) < Len(p.lens)
                 /\ 2 + p.lens[EndedBy(p, n) + 1] <= Since(p, n) + 1
<1>1. PICK e, all, size : e = EndedBy(p, n) /\ all = Len(p.lens) /\ size = Size(p)
  OBVIOUS
<1>2. /\ all \in Nat /\ size \in Nat /\ size >= Hdr /\ Hdr \in Nat /\ Hdr > 2
      /\ \A m \in Nat : m <= Hdr => EndedBy(p, m) = 0 /\ Since(p, m) = m
  BY <1>1, Whole
<1>3. hdr_cnt \in Nat
  BY DEF Link!Stands
<1>4. CASE Link!InSession(n) \/ Link!InSeq(p, n) \/ Link!InCount(p, n)
  <2>1. n < Hdr
    BY <1>3, <1>4, Widths DEF Link!InSession, Link!InSeq, Link!InCount, Hdr
  <2>2. n <= Hdr /\ n + 1 <= Hdr /\ n + 1 \in Nat /\ n < size
    BY <1>2, <2>1
  <2>3. e = 0 /\ EndedBy(p, n + 1) = 0 /\ Since(p, n) = n /\ Since(p, n + 1) = n + 1
    BY <1>1, <1>2, <2>2
  <2>4. n + 1 = size => all = 0
    <3>1. SUFFICES ASSUME n + 1 = size, all # 0 PROVE FALSE
      OBVIOUS
    <3>2. all \in 1 .. all
      BY <1>2, <3>1
    <3>3. Link!Off(p, 0) = Link!HeaderLen
          /\ \A i, j \in 0 .. all : i < j => Link!Off(p, i) < Link!Off(p, j)
      BY <1>1, Whole, SameAssumptions, SameConstants, Link!Offsets
    <3>4. Size(p) = Link!Off(p, all)
      BY <1>1, SameAssumptions, SameBytes, Link!PacketFacts DEF Sound, Size
    <3>5. Hdr < size
      BY <1>1, <1>2, <3>2, <3>3, <3>4, SameConstants DEF Hdr
    <3> QED
      BY <1>2, <2>1, <3>1, <3>5
  <2> QED
    BY <1>1, <1>2, <2>1, <2>2, <2>3, <2>4
<1>5. CASE Link!InLength(p, n) \/ Link!InBody(p, n)
  <2>1. PICK i : i = Link!Current(p)
    OBVIOUS
  <2>2. i \in 1 .. all /\ Link!Off(p, i - 1) <= n /\ n < Link!Off(p, i)
    BY <1>1, <1>3, <1>5, <2>1, SameAssumptions, Link!InMessage DEF Sound
  <2>3. PICK b : b = Link!Off(p, i)
    OBVIOUS
  <2>4. /\ b \in Nat /\ n >= Hdr /\ b <= size /\ (b = size <=> i = all) /\ e = i - 1
        /\ EndedBy(p, n + 1) = IF n + 1 = b THEN i ELSE i - 1
        /\ Since(p, n) \in Nat
        /\ IF n + 1 = b
           THEN Since(p, n + 1) = 0 /\ 2 + p.lens[i] <= Since(p, n) + 1
           ELSE Since(p, n + 1) = Since(p, n) + 1 /\ Since(p, n) + 1 < Hdr + 2 + p.lens[i]
    BY <1>1, <2>2, <2>3, Inside
  <2>5. n < b /\ n < size /\ e + 1 = i /\ e \in 0 .. all /\ e < all /\ e # i /\ i \in 0 .. all
    BY <1>2, <2>2, <2>3, <2>4
  <2>6. n + 1 = size => n + 1 = b /\ i = all
    BY <1>2, <2>4, <2>5
  <2>7. CASE n + 1 = b
    <3>1. EndedBy(p, n + 1) = i /\ Since(p, n + 1) = 0 /\ 2 + p.lens[e + 1] <= Since(p, n) + 1
      BY <2>4, <2>5, <2>7
    <3> QED
      BY <1>1, <2>4, <2>5, <2>6, <3>1
  <2>8. CASE n + 1 # b
    <3>1. /\ EndedBy(p, n + 1) = e /\ Since(p, n + 1) = Since(p, n) + 1 /\ n + 1 # size
          /\ Since(p, n) + 1 < Hdr + 2 + p.lens[e + 1]
      BY <2>4, <2>5, <2>6, <2>8
    <3> QED
      BY <1>1, <2>4, <2>5, <3>1
  <2> QED
    BY <2>7, <2>8
<1> QED
  BY <1>4, <1>5 DEF Link!Stands

\* What it hands on: the last byte of a message, or the count of one that has none.
LEMMA Framed ==
  ASSUME NEW p \in Sound, NEW n \in Nat, Link!Stands(p, n), FramerByte(PacketBytes(p)[n + 1])
  PROVE  IF EndedBy(p, n + 1) = EndedBy(p, n) THEN ~out_last' /\ malformed_count' = malformed_count
         ELSE IF p.lens[EndedBy(p, n) + 1] = 0
         THEN ~out_last' /\ malformed_count' = Inc(malformed_count)
         ELSE out_last' /\ malformed_count' = malformed_count
<1>1. PICK b, e : b = PacketBytes(p)[n + 1] /\ e = EndedBy(p, n)
  OBVIOUS
<1>2. hdr_cnt \in Nat /\ FramerByte(b)
  BY <1>1 DEF Link!Stands
<1>3. CASE Link!InSession(n) \/ Link!InSeq(p, n) \/ Link!InCount(p, n)
  <2>1. n < Hdr
    BY <1>2, <1>3, Widths DEF Link!InSession, Link!InSeq, Link!InCount, Hdr
  <2>2. n <= Hdr /\ n + 1 <= Hdr /\ n + 1 \in Nat
    BY <2>1, Whole
  <2>3. EndedBy(p, n + 1) = EndedBy(p, n)
    BY <2>2, Whole
  <2>4. SessionByte(b) \/ SeqByte(b) \/ CountByte(b) \/ HeaderDone(b)
    BY <1>2, <1>3 DEF Link!InSession, Link!InSeq, Link!InCount, FramerByte, LengthByte, ZeroLength,
                      LengthDone, BodyByte, BodyDone
  <2>5. ~out_last' /\ malformed_count' = malformed_count
    BY <2>4 DEF SessionByte, SeqByte, CountByte, HeaderDone, NoOutput
  <2> QED
    BY <2>3, <2>5
<1>4. CASE Link!InLength(p, n) \/ Link!InBody(p, n)
  <2>1. PICK i : i = Link!Current(p)
    OBVIOUS
  <2>2. /\ i \in 1 .. Len(p.lens) /\ Link!Off(p, i - 1) <= n /\ n < Link!Off(p, i)
        /\ n + 1 = Link!Off(p, i) <=>
             IF state = "ST_MSG_LEN" THEN hdr_cnt = 1 /\ p.lens[i] = 0
             ELSE body_cnt = msg_len_reg - 1
        /\ state = "ST_MSG_BODY" => msg_len_reg = p.lens[i] /\ body_cnt \in Nat
    BY <1>2, <1>4, <2>1, SameAssumptions, Link!InMessage DEF Sound
  <2>3. /\ EndedBy(p, n) = i - 1 /\ i \in Nat
        /\ EndedBy(p, n + 1) = IF n + 1 = Link!Off(p, i) THEN i ELSE i - 1
    BY <2>2, Inside, Whole
  <2>4. e + 1 = i /\ e # i
    BY <1>1, <2>3
  <2>5. EndedBy(p, n + 1) = e <=> n + 1 # Link!Off(p, i)
    BY <1>1, <2>3, <2>4
  <2>6. SUFFICES IF n + 1 # Link!Off(p, i) THEN ~out_last' /\ malformed_count' = malformed_count
                 ELSE IF p.lens[i] = 0 THEN ~out_last' /\ malformed_count' = Inc(malformed_count)
                 ELSE out_last' /\ malformed_count' = malformed_count
    BY <1>1, <2>4, <2>5
  <2>7. CASE Link!InLength(p, n)
    <3>1. state = "ST_MSG_LEN" /\ hdr_cnt < 2
      BY <2>7 DEF Link!InLength
    <3>2. n + 1 = Link!Off(p, i) <=> hdr_cnt = 1 /\ p.lens[i] = 0
      BY <2>2, <3>1
    <3>3. LengthByte(b) \/ ZeroLength(b) \/ LengthDone(b)
      BY <1>2, <3>1 DEF FramerByte, SessionByte, SeqByte, CountByte, HeaderDone, BodyByte, BodyDone
    <3>4. CASE LengthByte(b)
      <4>1. hdr_cnt # 1 /\ ~out_last' /\ malformed_count' = malformed_count
        BY <3>4, Widths DEF LengthByte, NoOutput, Ends
      <4> QED
        BY <3>2, <4>1
    <3>5. CASE ZeroLength(b) \/ LengthDone(b)
      <4>1. hdr_cnt = 1
        BY <1>2, <3>5, Widths DEF ZeroLength, LengthDone, Ends
      <4>2. Link!Shift(msg_len_reg, Link!PacketBytes(p)[n + 1], Link!LEN_LEN) = p.lens[i]
        BY <2>1, <2>7, <4>1, SameAssumptions, Link!FullLength DEF Sound
      <4>3. Link!Shift(msg_len_reg, b, LEN_LEN) = Shift(msg_len_reg, b, LEN_LEN)
        BY SamePower DEF Link!Shift, Shift
      <4>4. Shift(msg_len_reg, b, LEN_LEN) = p.lens[i]
        BY <1>1, <4>2, <4>3, SameBytes, SameConstants
      <4>5. CASE ZeroLength(b)
        BY <3>2, <4>1, <4>4, <4>5 DEF ZeroLength, NoOutput
      <4>6. CASE LengthDone(b)
        BY <3>2, <4>4, <4>6 DEF LengthDone, NoOutput
      <4> QED
        BY <3>5, <4>5, <4>6
    <3> QED
      BY <3>3, <3>4, <3>5
  <2>8. CASE Link!InBody(p, n)
    <3>1. state = "ST_MSG_BODY" /\ body_cnt \in Nat /\ body_cnt < p.lens[i]
      BY <2>1, <2>8 DEF Link!InBody
    <3>2. n + 1 = Link!Off(p, i) <=> body_cnt = msg_len_reg - 1
      BY <2>2, <3>1
    <3>3. p.lens[i] # 0
      BY <3>1
    <3>4. BodyByte(b) \/ BodyDone(b)
      BY <1>2, <3>1 DEF FramerByte, SessionByte, SeqByte, CountByte, HeaderDone, LengthByte,
                        ZeroLength, LengthDone
    <3>5. CASE BodyByte(b)
      BY <3>2, <3>5 DEF BodyByte
    <3>6. CASE BodyDone(b)
      BY <3>2, <3>3, <3>6 DEF BodyDone
    <3> QED
      BY <3>4, <3>5, <3>6
  <2> QED
    BY <1>4, <2>7, <2>8
<1> QED
  BY <1>3, <1>4 DEF Link!Stands

-----------------------------------------------------------------------------
(* The stream and the place the harness has reached in it.                  *)

Kinds == [len : Word, effect : Nat]

MessagesInv ==
  /\ messages \in Seq(Kinds) /\ kept \in 0 .. Len(messages) /\ kept <= MaxDirty
  /\ \A i \in 1 .. Len(messages) :
       /\ messages[i].len \in {ORDER_LEN, SYSTEM_LEN} \cup 0 .. MAX_BOGUS_LEN
       /\ messages[i].effect > 0 => messages[i].len = ORDER_LEN
       /\ i > kept => messages[i].len # 0

\* The number that the packet behind p should have.
Due(p) == p.seq + Len(p.lens)

\* The packets of the stream, of which d are damaged ones; first[j] messages and
\* at[j] bytes are in front of packet j.
Layout(ps, first, at, d) ==
  /\ ps \in Seq(Sound) /\ d \in 0 .. Len(ps) - 1
  /\ first \in [1 .. Len(ps) + 1 -> Nat] /\ at \in [1 .. Len(ps) + 1 -> Nat]
  /\ first[1] = 0 /\ first[d + 1] = kept /\ first[Len(ps) + 1] = Len(messages)
  /\ at[1] = 0 /\ at[d + 1] = tail_start
  /\ \A j \in 1 .. Len(ps) :
       /\ first[j + 1] = first[j] + Len(ps[j].lens) /\ at[j + 1] = at[j] + Size(ps[j])
       /\ \A i \in 1 .. Len(ps[j].lens) : ps[j].lens[i] = messages[first[j] + i].len
       /\ j < Len(ps) => Len(ps[j].lens) > 0 /\ (ps[j + 1].seq = Due(ps[j]) <=> j # d)
  /\ Len(ps[Len(ps)].lens) = 0
  /\ \A i, j \in 1 .. Len(ps) + 1 : i <= j => first[i] <= first[j] /\ at[i] <= at[j]

\* The packet that the next byte belongs to.
Here(ps) == Len(ps) - Len(net) + 1

PlaceInv(ps, first, at) ==
  /\ net \in Seq(Sound) /\ sent \in Nat /\ Len(net) <= Len(ps)
  /\ \A i \in 1 .. Len(net) : net[i] = ps[Len(ps) - Len(net) + i]
  /\ Link!Place
  /\ taken = first[Here(ps)] + (IF net = << >> THEN 0 ELSE EndedBy(Head(net), sent))
  /\ consumed = at[Here(ps)] + sent

CountInv ==
  /\ msgs_seen = Cardinality(OfLength(FALSE)) /\ malformed_count = Cardinality(OfLength(TRUE))

\* The packet whose sequence number was judged last.
Judged(ps) == IF net # << >> /\ sent >= Hdr THEN Here(ps) ELSE Here(ps) - 1

GapsInv(ps, d) ==
  /\ first_pkt \in BOOLEAN /\ (first_pkt <=> Judged(ps) = 0)
  /\ Judged(ps) > 0 => expected_seq = Due(ps[Judged(ps)])
  /\ gap_count = IF Judged(ps) > d /\ d > 0 THEN 1 ELSE 0

\* An update under way is of a message that ended no earlier than the last one.
LateInv ==
  /\ pending \in Nat /\ age \in Nat /\ pending_tail \in BOOLEAN
  /\ pending > 0 => net # << >> /\ Since(Head(net), sent) <= age

IdleInv ==
  /\ hang_detected = FALSE /\ idle \in Nat
  /\ net # << >> => idle <= Since(Head(net), sent)

\* The byte that comes next, and the packet and the place it belongs to.
LEMMA Receiving ==
  ASSUME NEW ps, NEW first, NEW at, NEW d, Layout(ps, first, at, d), PlaceInv(ps, first, at),
         FeedByte, NEW p, NEW n, NEW k, p = Head(net), n = sent, k = Here(ps)
  PROVE  /\ p \in Sound /\ n \in Nat /\ k \in 1 .. Len(ps) /\ p = ps[k] /\ Len(ps) \in Nat
         /\ Link!Stands(p, n) /\ FramerByte(PacketBytes(p)[n + 1])
         /\ net' = IF n + 1 = Size(p) THEN Tail(net) ELSE net
         /\ sent' = IF n + 1 = Size(p) THEN 0 ELSE n + 1
         /\ taken' = taken + EndedBy(p, n + 1) - EndedBy(p, n)
         /\ taken = first[k] + EndedBy(p, n) /\ consumed = at[k] + n
         /\ consumed' = consumed + 1
         /\ UNCHANGED <<messages, kept, tail_start, phase>>
<1>1. net # << >> /\ net \in Seq(Sound) /\ sent \in Nat
  BY DEF FeedByte, PlaceInv
<1>2. p \in Sound /\ Len(net) \in Nat /\ Len(net) >= 1 /\ p = net[1]
  BY <1>1
<1>3. Len(ps) \in Nat /\ Len(net) <= Len(ps)
  BY DEF Layout, PlaceInv
<1>4. k = Len(ps) - Len(net) + 1 /\ k \in 1 .. Len(ps)
  BY <1>2, <1>3 DEF Here
<1>5. p = ps[k]
  BY <1>2, <1>3, <1>4 DEF PlaceInv
<1>6. Link!Stands(p, n)
  <2>1. CASE sent = 0
    BY <2>1 DEF PlaceInv, Link!Place, Link!Stands
  <2>2. CASE sent # 0
    BY <2>2 DEF PlaceInv, Link!Place
  <2> QED
    BY <2>1, <2>2
<1>7. /\ FramerByte(PacketBytes(p)[n + 1])
      /\ net' = IF n + 1 = Size(p) THEN Tail(net) ELSE net
      /\ sent' = IF n + 1 = Size(p) THEN 0 ELSE n + 1
      /\ taken' = taken + EndedBy(p, n + 1) - EndedBy(p, n)
      /\ consumed' = consumed + 1
      /\ UNCHANGED <<messages, kept, tail_start, phase>>
  BY DEF FeedByte, Size, script
<1>8. taken = first[k] + EndedBy(p, n) /\ consumed = at[k] + n
  BY <1>1 DEF PlaceInv
<1> QED
  BY <1>1, <1>2, <1>3, <1>4, <1>5, <1>6, <1>7, <1>8

\* The message that the byte ends, if it ends one.
LEMMA Boundary ==
  ASSUME NEW ps, NEW first, NEW at, NEW d, Layout(ps, first, at, d), PlaceInv(ps, first, at),
         MessagesInv, FeedByte, NEW p, NEW n, p = Head(net), n = sent
  PROVE  /\ taken \in 0 .. Len(messages) /\ taken' \in 0 .. Len(messages)
         /\ n < Size(p) /\ Since(p, n) \in Nat
         /\ \/ /\ taken' = taken /\ ~out_last' /\ malformed_count' = malformed_count
               /\ EndedBy(p, n + 1) = EndedBy(p, n) /\ Since(p, n + 1) = Since(p, n) + 1
               /\ Since(p, n) + 1 <= watchdog_limit
            \/ /\ taken' = taken + 1 /\ (out_last' <=> messages[taken'].len # 0)
               /\ malformed_count' = IF messages[taken'].len = 0 THEN Inc(malformed_count)
                                     ELSE malformed_count
               /\ EndedBy(p, n + 1) # EndedBy(p, n) /\ Since(p, n + 1) = 0
               /\ 2 + messages[taken'].len <= Since(p, n) + 1
<1>1. PICK k : k = Here(ps)
  OBVIOUS
<1>2. /\ p \in Sound /\ n \in Nat /\ k \in 1 .. Len(ps) /\ p = ps[k] /\ Len(ps) \in Nat
      /\ Link!Stands(p, n) /\ FramerByte(PacketBytes(p)[n + 1])
      /\ taken' = taken + EndedBy(p, n + 1) - EndedBy(p, n)
      /\ taken = first[k] + EndedBy(p, n) /\ messages' = messages
  BY <1>1, Receiving
<1>3. /\ first[k] \in Nat /\ first[k + 1] = first[k] + Len(p.lens) /\ first[k + 1] <= Len(messages)
      /\ \A i \in 1 .. Len(p.lens) : p.lens[i] = messages[first[k] + i].len
  <2>1. k + 1 \in 1 .. Len(ps) + 1 /\ Len(ps) + 1 \in 1 .. Len(ps) + 1 /\ k \in 1 .. Len(ps) + 1
        /\ k + 1 <= Len(ps) + 1
    BY <1>2
  <2>2. first[k] \in Nat /\ first[k + 1] <= first[Len(ps) + 1] /\ first[Len(ps) + 1] = Len(messages)
    BY <2>1 DEF Layout
  <2>3. /\ first[k + 1] = first[k] + Len(ps[k].lens)
        /\ \A i \in 1 .. Len(ps[k].lens) : ps[k].lens[i] = messages[first[k] + i].len
    BY <1>2 DEF Layout
  <2> QED
    BY <1>2, <2>2, <2>3
<1>4. Len(messages) \in Nat /\ Len(p.lens) \in Nat
  BY <1>2, Whole DEF MessagesInv
<1>5. PICK e, f : e = EndedBy(p, n) /\ f = EndedBy(p, n + 1)
  OBVIOUS
<1>6. /\ n < Size(p) /\ e \in 0 .. Len(p.lens) /\ f \in {e, e + 1} /\ f \in 0 .. Len(p.lens)
      /\ Since(p, n) \in Nat
      /\ IF f = e
         THEN /\ Since(p, n + 1) = Since(p, n) + 1
              /\ n >= Hdr => e < Len(p.lens) /\ Since(p, n) + 1 < Hdr + 2 + p.lens[e + 1]
         ELSE /\ Since(p, n + 1) = 0 /\ e < Len(p.lens)
              /\ 2 + p.lens[e + 1] <= Since(p, n) + 1
  BY <1>2, <1>5, Taking
<1>7. IF f = e THEN ~out_last' /\ malformed_count' = malformed_count
      ELSE IF p.lens[e + 1] = 0 THEN ~out_last' /\ malformed_count' = Inc(malformed_count)
      ELSE out_last' /\ malformed_count' = malformed_count
  BY <1>2, <1>5, Framed
<1>8. /\ taken = first[k] + e /\ taken' = first[k] + f
      /\ taken \in 0 .. Len(messages) /\ taken' \in 0 .. Len(messages)
  <2>1. PICK a, l, t \in Nat : a = first[k] /\ l = Len(p.lens) /\ t = Len(messages) /\ a + l <= t
    BY <1>3, <1>4
  <2>2. e \in 0 .. l /\ f \in 0 .. l
    BY <1>6, <2>1
  <2>3. taken = a + e /\ taken' = (a + e) + f - e
    BY <1>2, <1>5, <2>1
  <2>4. a + e \in 0 .. t /\ a + f \in 0 .. t /\ (a + e) + f - e = a + f
    BY <2>1, <2>2
  <2> QED
    BY <2>1, <2>3, <2>4
<1>9. CASE f = e
  <2>1. taken' = taken
    BY <1>8, <1>9
  <2>2. PICK x \in Nat : x = Since(p, n)
    BY <1>6
  <2>3. /\ Hdr \in Nat /\ COUNT_LEN = 2 /\ LEN_LEN = 2 /\ watchdog_limit \in Nat
        /\ Hdr = SESSION_LEN + SEQ_LEN + COUNT_LEN
        /\ n <= Hdr => Since(p, n) = n
    BY <1>2, Whole, Widths, Constants DEF Hdr
  <2>4. Hdr + 2 + 0 <= watchdog_limit + 1
    BY <2>3, Constants, WatchdogAssumption
  <2>5. CASE n < Hdr
    <3>1. x + 1 <= watchdog_limit
      BY <1>2, <2>2, <2>3, <2>4, <2>5
    <3> QED
      BY <1>5, <1>6, <1>7, <1>8, <1>9, <2>1, <2>2, <3>1
  <2>6. CASE n >= Hdr
    <3>1. e + 1 \in 1 .. Len(p.lens) /\ first[k] + (e + 1) \in 1 .. Len(messages)
          /\ x + 1 < Hdr + 2 + p.lens[e + 1]
      BY <1>3, <1>4, <1>6, <1>9, <2>2, <2>6
    <3>2. p.lens[e + 1] \in {ORDER_LEN, SYSTEM_LEN} \cup 0 .. MAX_BOGUS_LEN
      BY <1>3, <3>1 DEF MessagesInv
    <3>3. p.lens[e + 1] \in Nat
      BY <3>2, Constants
    <3>4. Hdr + 2 + p.lens[e + 1] <= watchdog_limit + 1
      BY <2>3, <3>2, WatchdogAssumption
    <3>5. x + 1 <= watchdog_limit
      BY <2>3, <3>1, <3>3, <3>4
    <3> QED
      BY <1>5, <1>6, <1>7, <1>8, <1>9, <2>1, <2>2, <3>5
  <2> QED
    BY <1>2, <2>3, <2>5, <2>6
<1>10. CASE f # e
  <2>1. f = e + 1 /\ taken' = taken + 1 /\ f \in 1 .. Len(p.lens) /\ taken' = first[k] + f
    BY <1>3, <1>6, <1>8, <1>10
  <2>2. p.lens[e + 1] = messages[taken'].len
    BY <1>2, <1>3, <2>1
  <2> QED
    BY <1>2, <1>5, <1>6, <1>7, <1>8, <1>10, <2>1, <2>2
<1> QED
  BY <1>9, <1>10

\* The place is kept.
LEMMA PlaceKeeps ==
  ASSUME NEW ps, NEW first, NEW at, NEW d, Layout(ps, first, at, d), PlaceInv(ps, first, at),
         FeedByte, NEW p, NEW n, NEW k, p = Head(net), n = sent, k = Here(ps)
  PROVE  /\ PlaceInv(ps, first, at)' /\ Layout(ps, first, at, d)'
         /\ Here(ps)' = IF n + 1 = Size(p) THEN k + 1 ELSE k
         /\ n + 1 = Size(p) => (net' = << >> <=> k = Len(ps))
         /\ n + 1 # Size(p) => net' # << >> /\ Head(net') = p
<1>1. /\ p \in Sound /\ n \in Nat /\ k \in 1 .. Len(ps) /\ p = ps[k] /\ Len(ps) \in Nat
      /\ Link!Stands(p, n) /\ FramerByte(PacketBytes(p)[n + 1])
      /\ net' = IF n + 1 = Size(p) THEN Tail(net) ELSE net
      /\ sent' = IF n + 1 = Size(p) THEN 0 ELSE n + 1
      /\ taken' = taken + EndedBy(p, n + 1) - EndedBy(p, n)
      /\ taken = first[k] + EndedBy(p, n) /\ consumed = at[k] + n
      /\ consumed' = consumed + 1
      /\ UNCHANGED <<messages, kept, tail_start>>
  BY Receiving
<1>2. Link!Moved(p, n + 1)'
  <2>1. Link!FramerByte(Link!PacketBytes(p)[n + 1])
    BY <1>1, SameByte, SameBytes
  <2>2. p \in Link!Sound
    BY <1>1 DEF Sound
  <2> QED
    BY <1>1, <2>1, <2>2, SameAssumptions, Link!ByteMoves
<1>3. Layout(ps, first, at, d)'
  BY <1>1 DEF Layout
<1>4. /\ net # << >> /\ net \in Seq(Sound) /\ Len(net) \in Nat /\ Len(net) >= 1 /\ Len(net) <= Len(ps)
      /\ \A i \in 1 .. Len(net) : net[i] = ps[Len(ps) - Len(net) + i]
      /\ k = Len(ps) - Len(net) + 1
  BY DEF PlaceInv, FeedByte, Here
<1>5. PICK m, t \in Nat : m = Len(net) /\ t = Len(ps) /\ m >= 1 /\ m <= t /\ k = t - m + 1
  BY <1>1, <1>4
<1>6. /\ first[k] \in Nat /\ at[k] \in Nat
      /\ first[k + 1] = first[k] + Len(p.lens) /\ at[k + 1] = at[k] + Size(p)
  <2>1. k \in 1 .. Len(ps) + 1
    BY <1>1
  <2>2. first[k] \in Nat /\ at[k] \in Nat
    BY <2>1 DEF Layout
  <2> QED
    BY <1>1, <2>2 DEF Layout
<1>7. PICK e, f, size, all : e = EndedBy(p, n) /\ f = EndedBy(p, n + 1) /\ size = Size(p) /\ all = Len(p.lens)
  OBVIOUS
<1>8. n < size /\ e \in 0 .. all /\ f \in 0 .. all /\ all \in Nat /\ size \in Nat
      /\ (n + 1 = size => f = all)
  BY <1>1, <1>7, Taking, Whole
<1>9. taken' = first[k] + f /\ consumed' = at[k] + (n + 1)
  <2>1. PICK a, b \in Nat : a = first[k] /\ b = at[k]
    BY <1>6
  <2>2. taken' = (a + e) + f - e /\ consumed' = (b + n) + 1
    BY <1>1, <1>7, <2>1
  <2>3. e \in Nat /\ f \in Nat /\ n \in Nat
    BY <1>1, <1>8
  <2>4. (a + e) + f - e = a + f /\ (b + n) + 1 = b + (n + 1)
    BY <2>3
  <2> QED
    BY <2>1, <2>2, <2>4
<1>10. CASE n + 1 = size
  <2>1. net' = Tail(net) /\ sent' = 0
    BY <1>1, <1>7, <1>10
  <2>2. /\ net' \in Seq(Sound) /\ Len(net') = Len(net) - 1
        /\ \A i \in 1 .. Len(net') : net'[i] = net[i + 1]
    BY <1>4, <2>1, HeadTailProperties
  <2>3. Len(net') \in Nat /\ Len(net') <= Len(ps) /\ Here(ps)' = k + 1
    <3>1. Len(net') = m - 1 /\ m - 1 \in Nat /\ m - 1 <= t /\ t - (m - 1) + 1 = k + 1
      BY <1>5, <2>2
    <3> QED
      BY <1>5, <3>1 DEF Here
  <2>4. ASSUME NEW i \in 1 .. Len(net') PROVE net'[i] = ps[Len(ps) - Len(net') + i]
    <3>1. i + 1 \in 1 .. Len(net) /\ Len(ps) - Len(net) + (i + 1) = Len(ps) - Len(net') + i
      <4>1. i \in 1 .. m - 1
        BY <1>5, <2>2
      <4>2. i + 1 \in 1 .. m /\ t - m + (i + 1) = t - (m - 1) + i
        BY <1>5, <4>1
      <4> QED
        BY <1>5, <2>2, <4>2
    <3> QED
      BY <1>4, <2>2, <3>1
  <2>5. Link!Place'
    <3>1. Len(Link!PacketBytes(p)) = n + 1
      BY <1>7, <1>10, SameBytes DEF Size
    <3>2. hdr_cnt' = 0 /\ Link!InSession(0)'
      BY <1>2, <3>1 DEF Link!Moved
    <3> QED
      BY <2>1, <3>2 DEF Link!Place
  <2>6. f = all /\ taken' = first[k + 1] /\ consumed' = at[k + 1]
    BY <1>6, <1>7, <1>8, <1>9, <1>10
  <2>7. net' # << >> => EndedBy(Head(net'), sent') = 0
    <3>1. SUFFICES ASSUME net' # << >> PROVE EndedBy(Head(net'), 0) = 0
      BY <2>1
    <3>2. Head(net') \in Sound /\ 0 \in Nat
      BY <2>2, <3>1
    <3>3. Hdr \in Nat /\ 0 <= Hdr
      BY <3>2, Whole
    <3> QED
      BY <3>2, <3>3, Whole
  <2>8. taken' = first[k + 1] + (IF net' = << >> THEN 0 ELSE EndedBy(Head(net'), sent'))
    <3>1. first[k + 1] \in Nat
      <4>1. first[k] + all \in Nat
        BY <1>6, <1>8
      <4> QED
        BY <1>6, <1>7, <4>1
    <3>2. CASE net' = << >>
      BY <2>6, <3>1, <3>2
    <3>3. CASE net' # << >>
      BY <2>6, <2>7, <3>1, <3>3
    <3> QED
      BY <3>2, <3>3
  <2>9. consumed' = at[k + 1] + sent'
    BY <1>6, <1>7, <1>8, <2>1, <2>6
  <2>10. PlaceInv(ps, first, at)'
    BY <2>1, <2>2, <2>3, <2>4, <2>5, <2>8, <2>9 DEF PlaceInv
  <2>11. net' = << >> <=> k = Len(ps)
    <3>1. net' = << >> <=> Len(net') = 0
      BY <2>2
    <3>2. Len(net') = m - 1
      BY <1>5, <2>2
    <3> QED
      BY <1>5, <3>1, <3>2
  <2> QED
    BY <1>3, <1>7, <1>10, <2>3, <2>10, <2>11
<1>11. CASE n + 1 # size
  <2>1. net' = net /\ sent' = n + 1 /\ Head(net') = p /\ Here(ps)' = k
    BY <1>1, <1>4, <1>7, <1>11 DEF Here
  <2>2. Link!Place'
    <3>1. Len(Link!PacketBytes(p)) # n + 1
      BY <1>7, <1>11, SameBytes DEF Size
    <3>2. Link!Stands(p, n + 1)'
      BY <1>2, <3>1 DEF Link!Moved
    <3>3. n + 1 # 0 /\ net' # << >>
      BY <1>1, <1>4, <2>1
    <3> QED
      BY <2>1, <3>2, <3>3 DEF Link!Place
  <2>3. taken' = first[k] + (IF net' = << >> THEN 0 ELSE EndedBy(Head(net'), sent'))
        /\ consumed' = at[k] + sent'
    BY <1>4, <1>7, <1>9, <2>1
  <2>4. PlaceInv(ps, first, at)'
    <3>1. net' \in Seq(Sound) /\ Len(net') <= Len(ps)
          /\ \A i \in 1 .. Len(net') : net'[i] = ps[Len(ps) - Len(net') + i]
      BY <1>4, <2>1, Zenon
    <3>2. sent' \in Nat
      BY <1>1, <2>1
    <3> QED
      BY <2>1, <2>2, <2>3, <3>1, <3>2 DEF PlaceInv
  <2> QED
    BY <1>3, <1>4, <1>7, <1>11, <2>1, <2>4
<1> QED
  BY <1>10, <1>11

\* The bytes since the last end of a message, one byte later: every packet but
\* the last one ends with a message.
LEMMA SinceKeeps ==
  ASSUME NEW ps, NEW first, NEW at, NEW d, Layout(ps, first, at, d), PlaceInv(ps, first, at),
         MessagesInv, FeedByte, net' # << >>
  PROVE  Since(Head(net'), sent') = IF taken' = taken THEN Since(Head(net), sent) + 1 ELSE 0
<1>1. PICK p, n, k : p = Head(net) /\ n = sent /\ k = Here(ps)
  OBVIOUS
<1>2. /\ p \in Sound /\ n \in Nat /\ k \in 1 .. Len(ps) /\ p = ps[k] /\ Len(ps) \in Nat
      /\ Link!Stands(p, n)
      /\ net' = (IF n + 1 = Size(p) THEN Tail(net) ELSE net)
      /\ sent' = (IF n + 1 = Size(p) THEN 0 ELSE n + 1)
  BY <1>1, Receiving
<1>3. /\ n + 1 = Size(p) => (net' = << >> <=> k = Len(ps))
      /\ n + 1 # Size(p) => Head(net') = p
      /\ PlaceInv(ps, first, at)'
  BY <1>1, PlaceKeeps
<1>4. PICK e, f : e = EndedBy(p, n) /\ f = EndedBy(p, n + 1)
  OBVIOUS
<1>5. /\ taken \in Nat
      /\ \/ taken' = taken /\ f = e /\ Since(p, n + 1) = Since(p, n) + 1
         \/ taken' = taken + 1 /\ f # e /\ Since(p, n + 1) = 0
  BY <1>1, <1>4, Boundary
<1>6. CASE n + 1 # Size(p)
  <2>1. Head(net') = p /\ sent' = n + 1
    BY <1>2, <1>3, <1>6
  <2> QED
    BY <1>1, <1>5, <2>1
<1>7. CASE n + 1 = Size(p)
  <2>1. k < Len(ps) /\ sent' = 0
    BY <1>2, <1>3, <1>7
  <2>2. Len(p.lens) # 0
    <3>1. Len(ps[k].lens) > 0
      BY <1>2, <2>1 DEF Layout
    <3> QED
      BY <1>2, <3>1
  <2>3. f # e
    BY <1>2, <1>4, <1>7, <2>2, Taking
  <2>4. Head(net') \in Sound
    BY <1>3 DEF PlaceInv
  <2>5. Since(Head(net'), 0) = 0
    <3>1. Hdr \in Nat /\ 0 <= Hdr /\ 0 \in Nat
      BY <2>4, Whole
    <3> QED
      BY <2>4, <3>1, Whole
  <2> QED
    BY <1>5, <2>1, <2>3, <2>5
<1> QED
  BY <1>6, <1>7

-----------------------------------------------------------------------------
(* Messages counted.                                                        *)

Those(ms, t, zero) == {i \in 1 .. t : (ms[i].len = 0) = zero}

LEMMA OneMore ==
  ASSUME NEW ms, NEW t \in Nat, NEW zero
  PROVE  /\ Cardinality(Those(ms, t, zero)) \in Nat
         /\ Cardinality(Those(ms, t + 1, zero))
            = Cardinality(Those(ms, t, zero)) + IF (ms[t + 1].len = 0) = zero THEN 1 ELSE 0
<1>1. IsFiniteSet(Those(ms, t, zero))
  <2>1. IsFiniteSet(1 .. t)
    BY FS_Interval
  <2> QED
    BY <2>1, FS_Subset DEF Those
<1>2. Cardinality(Those(ms, t, zero)) \in Nat
  BY <1>1, FS_CardinalityType
<1>3. CASE (ms[t + 1].len = 0) = zero
  <2>1. Those(ms, t + 1, zero) = Those(ms, t, zero) \cup {t + 1} /\ t + 1 \notin Those(ms, t, zero)
    BY <1>3 DEF Those
  <2> QED
    BY <1>1, <1>2, <1>3, <2>1, FS_AddElement
<1>4. CASE (ms[t + 1].len = 0) # zero
  <2>1. Those(ms, t + 1, zero) = Those(ms, t, zero)
    BY <1>4 DEF Those
  <2> QED
    BY <1>2, <1>4, <2>1
<1> QED
  BY <1>2, <1>3, <1>4

\* How many of the first t messages have no bytes, and how many have some.
Empties(ms, t) == Cardinality(Those(ms, t, TRUE))
Others(ms, t)  == Cardinality(Those(ms, t, FALSE))

LEMMA OneMoreMessage ==
  ASSUME NEW ms, NEW t \in Nat
  PROVE  /\ Empties(ms, t) \in Nat /\ Others(ms, t) \in Nat
         /\ IF ms[t + 1].len = 0
            THEN Empties(ms, t + 1) = Empties(ms, t) + 1 /\ Others(ms, t + 1) = Others(ms, t)
            ELSE Empties(ms, t + 1) = Empties(ms, t) /\ Others(ms, t + 1) = Others(ms, t) + 1
<1>1. /\ Empties(ms, t) \in Nat
      /\ Empties(ms, t + 1) = Empties(ms, t) + IF (ms[t + 1].len = 0) = TRUE THEN 1 ELSE 0
  BY OneMore, Zenon DEF Empties
<1>2. /\ Others(ms, t) \in Nat
      /\ Others(ms, t + 1) = Others(ms, t) + IF (ms[t + 1].len = 0) = FALSE THEN 1 ELSE 0
  <2>1. PICK some : some = FALSE
    OBVIOUS
  <2>2. /\ Cardinality(Those(ms, t, some)) \in Nat
        /\ Cardinality(Those(ms, t + 1, some))
           = Cardinality(Those(ms, t, some)) + IF (ms[t + 1].len = 0) = some THEN 1 ELSE 0
    BY OneMore, Zenon
  <2>3. Others(ms, t) = Cardinality(Those(ms, t, some))
        /\ Others(ms, t + 1) = Cardinality(Those(ms, t + 1, some))
    BY <2>1 DEF Others
  <2>4. (IF (ms[t + 1].len = 0) = some THEN 1 ELSE 0)
        = IF (ms[t + 1].len = 0) = FALSE THEN 1 ELSE 0
    BY <2>1
  <2> QED
    BY <2>2, <2>3, <2>4
<1>3. CASE ms[t + 1].len = 0
  BY <1>1, <1>2, <1>3
<1>4. CASE ms[t + 1].len # 0
  BY <1>1, <1>2, <1>4
<1> QED
  BY <1>1, <1>2, <1>3, <1>4

\* Only damaged messages have no bytes: their counter does not wrap.
LEMMA FewEmpty ==
  ASSUME MessagesInv, NEW t \in 0 .. Len(messages)
  PROVE  Empties(messages, t) + 1 < CountMod
<1>1. PICK k \in Nat : k = kept /\ k <= MaxDirty
  BY DEF MessagesInv
<1>2. IsFiniteSet(1 .. k) /\ Cardinality(1 .. k) = k
  BY FS_Interval
<1>3. PICK S : S = Those(messages, t, TRUE)
  OBVIOUS
<1>4. S \subseteq 1 .. k
  BY <1>1, <1>3 DEF Those, MessagesInv
<1>5. Cardinality(S) <= k /\ IsFiniteSet(S)
  BY <1>2, <1>4, FS_Subset
<1>6. PICK c \in Nat : c = Cardinality(S) /\ c <= k
  BY <1>5, FS_CardinalityType
<1>7. PICK m \in Nat : m = MaxDirty /\ m + 1 < CountMod /\ CountMod \in Nat /\ k <= m
  BY <1>1, FuzzAssumption, FramerAssumption
<1>8. c + 1 < CountMod
  BY <1>6, <1>7
<1>9. Empties(messages, t) = c
  BY <1>3, <1>6, Zenon DEF Empties
<1> QED
  BY <1>8, <1>9

\* The counters go on as the messages do.
LEMMA CountKeeps ==
  ASSUME NEW ps, NEW first, NEW at, NEW d, Layout(ps, first, at, d), PlaceInv(ps, first, at),
         MessagesInv, CountInv, FeedByte
  PROVE  /\ CountInv'
         /\ taken' # taken => out_last' \/ malformed_count' # malformed_count
<1>1. PICK p, n : p = Head(net) /\ n = sent
  OBVIOUS
<1>2. /\ taken \in 0 .. Len(messages) /\ taken' \in 0 .. Len(messages)
      /\ \/ taken' = taken /\ ~out_last' /\ malformed_count' = malformed_count
         \/ /\ taken' = taken + 1 /\ (out_last' <=> messages[taken'].len # 0)
            /\ malformed_count' = IF messages[taken'].len = 0 THEN Inc(malformed_count)
                                  ELSE malformed_count
  BY <1>1, Boundary
<1>3. messages' = messages /\ msgs_seen' = msgs_seen + IF out_last' THEN 1 ELSE 0
  BY DEF FeedByte, script
<1>4. PICK ms, t, u : ms = messages /\ t = taken /\ u = taken'
  OBVIOUS
<1>5. /\ CountInv <=> msgs_seen = Others(ms, t) /\ malformed_count = Empties(ms, t)
      /\ CountInv' <=> msgs_seen' = Others(ms, u) /\ malformed_count' = Empties(ms, u)
  BY <1>3, <1>4 DEF CountInv, OfLength, Those, Others, Empties
<1>6. PICK a, c \in Nat : a = Others(ms, t) /\ c = Empties(ms, t)
  <2>1. t \in Nat
    BY <1>2, <1>4
  <2> QED
    BY <2>1, OneMoreMessage
<1>7. msgs_seen = a /\ malformed_count = c
  BY <1>5, <1>6
<1>8. Inc(c) = c + 1
  <2>1. PICK m \in Nat : m = CountMod /\ c + 1 < m
    BY <1>2, <1>4, <1>6, FewEmpty, FramerAssumption
  <2>2. (c + 1) % m = c + 1
    BY <2>1
  <2> QED
    BY <2>1, <2>2 DEF Inc
<1>9. CASE taken' = taken /\ ~out_last' /\ malformed_count' = malformed_count
  <2>1. msgs_seen' = a /\ malformed_count' = c /\ u = t
    BY <1>3, <1>4, <1>7, <1>9
  <2>2. CountInv'
    BY <1>5, <1>6, <2>1
  <2> QED
    BY <1>9, <2>2
<1>10. CASE /\ taken' = taken + 1 /\ (out_last' <=> messages[taken'].len # 0)
            /\ malformed_count' = IF messages[taken'].len = 0 THEN Inc(malformed_count)
                                  ELSE malformed_count
  <2>1. t \in Nat /\ u = t + 1
    BY <1>2, <1>4, <1>10
  <2>2. IF ms[u].len = 0 THEN Empties(ms, u) = c + 1 /\ Others(ms, u) = a
        ELSE Empties(ms, u) = c /\ Others(ms, u) = a + 1
    BY <1>6, <2>1, OneMoreMessage
  <2>3. CASE ms[u].len = 0
    <3>1. ~out_last' /\ malformed_count' = Inc(malformed_count)
      BY <1>4, <1>10, <2>3
    <3>2. msgs_seen' = a /\ malformed_count' = c + 1
      BY <1>3, <1>7, <1>8, <3>1
    <3>3. malformed_count' # malformed_count
      BY <1>7, <3>2
    <3> QED
      BY <1>5, <2>2, <2>3, <3>2, <3>3
  <2>4. CASE ms[u].len # 0
    <3>1. out_last' /\ malformed_count' = malformed_count
      BY <1>4, <1>10, <2>4
    <3>2. msgs_seen' = a + 1 /\ malformed_count' = c
      BY <1>3, <1>7, <3>1
    <3> QED
      BY <1>5, <2>2, <2>4, <3>1, <3>2
  <2> QED
    BY <2>3, <2>4
<1> QED
  BY <1>2, <1>9, <1>10

-----------------------------------------------------------------------------
(* Updates under way, and the watchdog.                                     *)

\* shown updates come out of the books, left stay on their way, and due join them.
Shows(shown, left, due) ==
  /\ shown \in {0, 1} /\ left \in Nat /\ due \in Nat
  /\ pending = left + shown /\ pending' = left + due
  /\ age' = (IF due > 0 \/ left = 0 THEN 0 ELSE age + 1)
  /\ pending_tail' = (IF due > 0 THEN taken' > kept ELSE left > 0 /\ pending_tail)
  /\ CountUpdates(shown)
  /\ idle' = (IF Progressed(shown) THEN 0 ELSE idle + 1)
  /\ due = (IF taken' = taken THEN 0 ELSE messages[taken'].effect)
  /\ taken' # taken /\ messages[taken'].len = ORDER_LEN => left = 0
  /\ due > 0 => left = 0
  /\ net' = << >> => pending' = 0

LEMMA Showing ==
  ASSUME NEW ps, NEW first, NEW at, NEW d, Layout(ps, first, at, d), PlaceInv(ps, first, at),
         MessagesInv, LateInv, FeedByte
  PROVE  \E shown, left, due : Shows(shown, left, due)
<1>1. PICK p, n, k : p = Head(net) /\ n = sent /\ k = Here(ps)
  OBVIOUS
<1>2. /\ p \in Sound /\ n \in Nat /\ k \in 1 .. Len(ps) /\ p = ps[k] /\ Len(ps) \in Nat
      /\ Link!Stands(p, n) /\ net # << >>
      /\ net' = (IF n + 1 = Size(p) THEN Tail(net) ELSE net)
  BY <1>1, Receiving DEF FeedByte
<1>3. PICK x \in Nat : x = Since(p, n)
  BY <1>1, Boundary
<1>4. /\ taken \in 0 .. Len(messages) /\ taken' \in 0 .. Len(messages)
      /\ \/ taken' = taken /\ ~out_last'
         \/ /\ taken' = taken + 1 /\ (out_last' <=> messages[taken'].len # 0)
            /\ 2 + messages[taken'].len <= x + 1
  BY <1>1, <1>3, Boundary
<1>5. PICK shown \in {0, 1} :
        /\ Books(shown) /\ CountUpdates(shown)
        /\ idle' = (IF Progressed(shown) THEN 0 ELSE idle + 1)
  BY DEF FeedByte
<1>6. pending \in Nat /\ age \in Nat /\ (pending > 0 => x <= age)
  BY <1>1, <1>3 DEF LateInv
<1>7. PICK left, due : left = pending - shown /\ due = (IF out_last' THEN messages[taken'].effect ELSE 0)
  OBVIOUS
<1>8. /\ shown <= pending /\ (left > 0 => age + 1 + left <= MaxLatency)
      /\ pending' = left + due
      /\ age' = (IF due > 0 \/ left = 0 THEN 0 ELSE age + 1)
      /\ pending_tail' = (IF due > 0 THEN taken' > kept ELSE left > 0 /\ pending_tail)
  BY <1>5, <1>7 DEF Books
<1>9. left \in Nat /\ pending = left + shown /\ (left > 0 => x <= age)
  <2>1. shown \in Nat
    BY <1>5
  <2> QED
    BY <1>6, <1>7, <1>8, <2>1
<1>10. taken' # taken => messages[taken'].effect \in Nat /\ messages[taken'].len \in Nat
          /\ (messages[taken'].effect > 0 => messages[taken'].len = ORDER_LEN)
  <2>1. SUFFICES ASSUME taken' # taken
                 PROVE  messages[taken'].effect \in Nat /\ messages[taken'].len \in Nat
                        /\ (messages[taken'].effect > 0 => messages[taken'].len = ORDER_LEN)
    OBVIOUS
  <2>2. PICK t : t = taken'
    OBVIOUS
  <2>3. t \in 1 .. Len(messages)
    BY <1>4, <2>1, <2>2
  <2>4. messages[t] \in Kinds
    BY <2>3, ElementOfSeq DEF MessagesInv
  <2>5. messages[t].effect \in Nat /\ messages[t].len \in Word
    BY <2>4 DEF Kinds
  <2>6. messages[t].effect > 0 => messages[t].len = ORDER_LEN
    BY <2>3 DEF MessagesInv
  <2> QED
    BY <2>2, <2>5, <2>6, Widths
<1>11. due = (IF taken' = taken THEN 0 ELSE messages[taken'].effect) /\ due \in Nat
  <2>1. CASE taken' = taken
    BY <1>4, <1>7, <2>1
  <2>2. CASE taken' # taken
    <3>1. out_last' <=> messages[taken'].len # 0
      BY <1>4, <2>2
    <3>2. messages[taken'].len = 0 => messages[taken'].effect = 0
      BY <1>10, <2>2, Constants
    <3> QED
      BY <1>7, <1>10, <2>2, <3>1, <3>2
  <2> QED
    BY <2>1, <2>2
<1>12. taken' # taken /\ messages[taken'].len = ORDER_LEN => left = 0
  <2>1. SUFFICES ASSUME taken' # taken, messages[taken'].len = ORDER_LEN, left > 0 PROVE FALSE
    BY <1>9
  <2>2. 2 + ORDER_LEN <= x + 1
    BY <1>4, <2>1
  <2>3. age + 1 + left <= ORDER_LEN + 1 /\ x <= age
    BY <1>6, <1>8, <1>9, <2>1, Constants
  <2> QED
    BY <1>3, <1>6, <1>9, <2>1, <2>2, <2>3, Constants
<1>13. due > 0 => left = 0
  BY <1>10, <1>11, <1>12
<1>14. net' = << >> => pending' = 0
  <2>1. SUFFICES ASSUME net' = << >> PROVE left = 0 /\ due = 0
    BY <1>8
  <2>2. n + 1 = Size(p) /\ k = Len(ps)
    BY <1>1, <1>2, <2>1, PlaceKeeps
  <2>3. Len(p.lens) = 0
    BY <1>2, <2>2 DEF Layout
  <2>4. ~(n >= Hdr) /\ EndedBy(p, n + 1) = EndedBy(p, n)
    BY <1>2, <2>3, Taking
  <2>5. Hdr \in Nat /\ n + 1 >= Hdr /\ n <= Hdr
    BY <1>2, <2>2, <2>4, Whole
  <2>6. x = n
    BY <1>2, <1>3, <2>5, Whole
  <2>7. taken' = taken
    BY <1>1, <2>4, Boundary
  <2>8. left > 0 => age + 1 + left <= Hdr /\ n <= age
    <3>1. left > 0 => age + 1 + left <= MaxLatency /\ n <= age
      BY <1>8, <1>9, <2>6
    <3>2. MaxLatency <= Hdr /\ MaxLatency \in Nat
      BY Constants DEF Hdr
    <3> QED
      BY <1>6, <1>9, <2>5, <3>1, <3>2
  <2>9. left = 0
    BY <1>2, <1>6, <1>9, <2>5, <2>8
  <2> QED
    BY <1>11, <2>7, <2>9
<1>15. Shows(shown, left, due)
  BY <1>5, <1>8, <1>9, <1>11, <1>12, <1>13, <1>14 DEF Shows
<1> QED
  BY <1>15, Zenon

\* Whatever is under way is of the last message that ended, or of an earlier one.
LEMMA LateKeeps ==
  ASSUME NEW ps, NEW first, NEW at, NEW d, Layout(ps, first, at, d), PlaceInv(ps, first, at),
         MessagesInv, LateInv, FeedByte
  PROVE  LateInv'
<1>1. PICK shown, left, due : Shows(shown, left, due)
  BY Showing
<1>2. pending' \in Nat
  BY <1>1 DEF Shows
<1>3. age' \in Nat
  BY <1>1 DEF Shows, LateInv
<1>4. pending_tail' \in BOOLEAN
  <2>1. pending_tail' = (IF due > 0 THEN taken' > kept ELSE left > 0 /\ pending_tail)
    BY <1>1 DEF Shows
  <2>2. CASE due > 0
    <3>1. pending_tail' = (taken' > kept)
      BY <2>1, <2>2
    <3> QED
      BY <3>1
  <2>3. CASE ~(due > 0)
    <3>1. pending_tail' = (left > 0 /\ pending_tail)
      BY <2>1, <2>3
    <3> QED
      BY <3>1
  <2> QED
    BY <2>2, <2>3
<1>5. ASSUME pending' > 0 PROVE net' # << >> /\ Since(Head(net'), sent') <= age'
  <2>1. net' # << >>
    BY <1>1, <1>5 DEF Shows
  <2>2. PICK x, y : x = Since(Head(net), sent) /\ y = Since(Head(net'), sent')
    OBVIOUS
  <2>3. y = IF taken' = taken THEN x + 1 ELSE 0
    BY <2>1, <2>2, SinceKeeps
  <2>4. x \in Nat
    BY <2>2, Boundary
  <2>5. CASE taken' # taken
    BY <1>3, <2>1, <2>2, <2>3, <2>5
  <2>6. CASE taken' = taken
    <3>1. due = 0 /\ left > 0 /\ pending > 0 /\ age' = age + 1
      BY <1>1, <1>5, <2>6 DEF Shows
    <3>2. x <= age /\ age \in Nat
      BY <2>2, <3>1 DEF LateInv
    <3> QED
      BY <2>1, <2>2, <2>3, <2>4, <2>6, <3>1, <3>2
  <2> QED
    BY <2>5, <2>6
<1> QED
  BY <1>2, <1>3, <1>4, <1>5 DEF LateInv

\* The watchdog allows for every stretch without the end of a message.
LEMMA IdleKeeps ==
  ASSUME NEW ps, NEW first, NEW at, NEW d, Layout(ps, first, at, d), PlaceInv(ps, first, at),
         MessagesInv, CountInv, LateInv, IdleInv, FeedByte
  PROVE  IdleInv'
<1>1. PICK shown, left, due : Shows(shown, left, due)
  BY Showing
<1>2. idle' = (IF Progressed(shown) THEN 0 ELSE idle + 1) /\ hang_detected' = (idle' > watchdog_limit)
  BY <1>1 DEF Shows, FeedByte
<1>3. PICK x, y : x = Since(Head(net), sent) /\ y = Since(Head(net'), sent')
  OBVIOUS
<1>4. x \in Nat /\ (taken' = taken => x + 1 <= watchdog_limit)
  <2>1. PICK p, n : p = Head(net) /\ n = sent
    OBVIOUS
  <2>2. /\ taken \in Nat /\ Since(p, n) \in Nat
        /\ \/ taken' = taken /\ Since(p, n) + 1 <= watchdog_limit
           \/ taken' = taken + 1
    BY <2>1, Boundary
  <2> QED
    BY <1>3, <2>1, <2>2
<1>5. net' # << >> => y = IF taken' = taken THEN x + 1 ELSE 0
  BY <1>3, SinceKeeps
<1>6. idle \in Nat /\ idle <= x
  <2>1. net # << >>
    BY DEF FeedByte
  <2> QED
    BY <1>3, <2>1 DEF IdleInv
<1>7. taken' # taken => Progressed(shown)
  BY CountKeeps DEF Progressed
<1>8. idle' \in Nat /\ (taken' = taken => idle' <= x + 1) /\ (taken' # taken => idle' = 0)
  BY <1>2, <1>4, <1>6, <1>7
<1>9. hang_detected' = FALSE
  <2>1. PICK l \in Nat : l = watchdog_limit
    BY Constants
  <2>2. idle' <= l
    BY <1>4, <1>8, <2>1
  <2>3. ~(idle' > l)
    BY <1>8, <2>1, <2>2
  <2>4. hang_detected' = (idle' > watchdog_limit)
    BY DEF FeedByte
  <2>5. (idle' > watchdog_limit) = FALSE
    BY <2>1, <2>3
  <2> QED
    BY <2>4, <2>5, Zenon
<1> QED
  BY <1>3, <1>4, <1>5, <1>8, <1>9 DEF IdleInv

-----------------------------------------------------------------------------
(* The gap at the tail.                                                     *)

LEMMA GapsKeep ==
  ASSUME NEW ps, NEW first, NEW at, NEW d, Layout(ps, first, at, d), PlaceInv(ps, first, at),
         GapsInv(ps, d), FeedByte
  PROVE  GapsInv(ps, d)'
<1>1. PICK p, n, k : p = Head(net) /\ n = sent /\ k = Here(ps)
  OBVIOUS
<1>2. /\ p \in Sound /\ n \in Nat /\ k \in 1 .. Len(ps) /\ p = ps[k] /\ Len(ps) \in Nat
      /\ Link!Stands(p, n) /\ FramerByte(PacketBytes(p)[n + 1])
      /\ sent' = (IF n + 1 = Size(p) THEN 0 ELSE n + 1)
  BY <1>1, Receiving
<1>3. /\ Here(ps)' = (IF n + 1 = Size(p) THEN k + 1 ELSE k)
      /\ n + 1 # Size(p) => net' # << >>
  BY <1>1, PlaceKeeps
<1>4. Hdr \in Nat /\ Hdr > 2 /\ Size(p) \in Nat /\ Size(p) >= Hdr
  BY <1>2, Whole
<1>5. net # << >> /\ d \in Nat
  BY <1>2 DEF FeedByte, Layout
<1>6. Judged(ps) = IF n >= Hdr THEN k ELSE k - 1
  BY <1>1, <1>5 DEF Judged
<1>7. Judged(ps)' = IF n + 1 >= Hdr THEN k ELSE k - 1
  <2>1. CASE n + 1 = Size(p)
    <3>1. sent' = 0 /\ Here(ps)' = k + 1 /\ ~(sent' >= Hdr)
      BY <1>2, <1>3, <1>4, <2>1
    <3>2. Judged(ps)' = k
      BY <1>2, <3>1 DEF Judged
    <3> QED
      BY <1>4, <2>1, <3>2
  <2>2. CASE n + 1 # Size(p)
    <3>1. sent' = n + 1 /\ Here(ps)' = k /\ net' # << >>
      BY <1>2, <1>3, <2>2
    <3> QED
      BY <3>1 DEF Judged
  <2> QED
    BY <2>1, <2>2
<1>8. IF n + 1 = Hdr
      THEN /\ gap_count' = (IF ~first_pkt /\ p.seq # expected_seq THEN Inc(gap_count)
                            ELSE gap_count)
           /\ first_pkt' = FALSE /\ expected_seq' = Due(p)
      ELSE gap_count' = gap_count /\ first_pkt' = first_pkt /\ expected_seq' = expected_seq
  <2>1. Link!FramerByte(Link!PacketBytes(p)[n + 1])
    BY <1>2, SameByte, SameBytes
  <2>2. p \in Link!Sound /\ Link!HeaderLen = Hdr
    BY <1>2, SameConstants DEF Sound, Hdr
  <2>3. Link!Inc(gap_count) = Inc(gap_count)
    BY DEF Link!Inc, Inc
  <2>4. IF n + 1 = Link!HeaderLen
        THEN /\ gap_count' = (IF ~first_pkt /\ p.seq # expected_seq THEN Link!Inc(gap_count)
                              ELSE gap_count)
             /\ first_pkt' = FALSE /\ expected_seq' = p.seq + Len(p.lens)
        ELSE UNCHANGED <<gap_count, first_pkt, expected_seq>>
    BY <1>2, <2>1, <2>2, SameAssumptions, Link!HeaderStep
  <2> QED
    BY <2>2, <2>3, <2>4 DEF Due
<1>9. CASE n + 1 # Hdr
  <2>1. Judged(ps)' = Judged(ps)
    BY <1>2, <1>4, <1>6, <1>7, <1>9
  <2> QED
    BY <1>8, <1>9, <2>1 DEF GapsInv
<1>10. CASE n + 1 = Hdr
  <2>1. Judged(ps) = k - 1 /\ Judged(ps)' = k /\ k > 0 /\ k - 1 \in Nat
    BY <1>2, <1>4, <1>6, <1>7, <1>10
  <2>2. first_pkt' = FALSE /\ expected_seq' = Due(ps[k])
    BY <1>2, <1>8, <1>10
  <2>3. gap_count = IF k - 1 > d /\ d > 0 THEN 1 ELSE 0
    BY <2>1 DEF GapsInv
  <2>4. gap_count' = IF k > d /\ d > 0 THEN 1 ELSE 0
    <3>1. CASE k = 1
      <4>1. first_pkt
        BY <2>1, <3>1 DEF GapsInv
      <4>2. gap_count' = gap_count
        BY <1>8, <1>10, <4>1
      <4> QED
        BY <1>5, <2>3, <3>1, <4>2
    <3>2. CASE k # 1
      <4>1. ~first_pkt /\ expected_seq = Due(ps[k - 1])
        BY <1>2, <2>1, <3>2 DEF GapsInv
      <4>2. k - 1 \in 1 .. Len(ps) /\ k - 1 < Len(ps) /\ (k - 1) + 1 = k
        BY <1>2, <3>2
      <4>3. ps[k].seq = Due(ps[k - 1]) <=> k - 1 # d
        BY <4>2 DEF Layout
      <4>4. CASE k - 1 = d
        <5>1. gap_count' = Inc(gap_count) /\ gap_count = 0
          BY <1>2, <1>5, <1>8, <1>10, <2>3, <4>1, <4>3, <4>4
        <5>2. PICK m \in Nat : m = CountMod /\ 1 < m
          BY FuzzAssumption, FramerAssumption
        <5>3. (0 + 1) % m = 1
          BY <5>2
        <5>4. gap_count' = 1
          BY <5>1, <5>2, <5>3 DEF Inc
        <5>5. k > d /\ d > 0
          BY <1>2, <3>2, <4>4
        <5> QED
          BY <5>4, <5>5
      <4>5. CASE k - 1 # d
        <5>1. gap_count' = gap_count
          BY <1>2, <1>8, <1>10, <4>3, <4>1, <4>5
        <5>2. k - 1 > d <=> k > d
          BY <1>2, <1>5, <4>5
        <5> QED
          BY <2>3, <5>1, <5>2
      <4> QED
        BY <4>4, <4>5
    <3> QED
      BY <3>1, <3>2
  <2>5. k # 0
    BY <1>2
  <2> QED
    BY <2>1, <2>2, <2>4, <2>5 DEF GapsInv
<1> QED
  BY <1>9, <1>10

\* The place, against the first byte of the tail.
LEMMA Sides ==
  ASSUME NEW ps, NEW first, NEW at, NEW d, Layout(ps, first, at, d), PlaceInv(ps, first, at)
  PROVE  /\ consumed \in Nat /\ tail_start \in Nat /\ taken \in 0 .. Len(messages)
         /\ consumed <= tail_start => taken <= kept
         /\ consumed >= tail_start => taken >= kept
         /\ consumed = tail_start => sent = 0
         /\ net = << >> => consumed >= tail_start + Hdr /\ taken = Len(messages)
         /\ Judged(ps) > d <=> consumed >= tail_start + Hdr
         /\ d > 0 <=> kept > 0
<1>1. PICK k, all : k = Here(ps) /\ all = Len(ps)
  OBVIOUS
<1>2. /\ all \in Nat /\ d \in 0 .. all - 1 /\ all >= 1
      /\ first \in [1 .. all + 1 -> Nat] /\ at \in [1 .. all + 1 -> Nat]
      /\ first[1] = 0 /\ first[d + 1] = kept /\ first[all + 1] = Len(messages)
      /\ at[d + 1] = tail_start
      /\ \A i, j \in 1 .. all + 1 : i <= j => first[i] <= first[j] /\ at[i] <= at[j]
  BY <1>1 DEF Layout
<1>3. \A j \in 1 .. all : first[j + 1] = first[j] + Len(ps[j].lens) /\ at[j + 1] = at[j] + Size(ps[j])
  BY <1>1 DEF Layout
<1>4. \A j \in 1 .. all : /\ ps[j] \in Sound /\ Size(ps[j]) \in Nat /\ Size(ps[j]) >= Hdr
                          /\ Len(ps[j].lens) \in Nat /\ Hdr \in Nat /\ Hdr > 2
  <2>1. \A j \in 1 .. all : ps[j] \in Sound
    BY <1>1, ElementOfSeq DEF Layout
  <2> QED
    BY <2>1, Whole
<1>5. /\ net \in Seq(Sound) /\ sent \in Nat /\ Len(net) \in Nat /\ Len(net) <= all
      /\ k = all - Len(net) + 1
  BY <1>1, <1>2 DEF PlaceInv, Here
<1>6. k \in 1 .. all + 1 /\ d + 1 \in 1 .. all /\ Hdr \in Nat /\ Hdr > 2
  <2>1. 1 \in 1 .. all
    BY <1>2
  <2> QED
    BY <1>2, <1>4, <1>5, <2>1
<1>7. PICK f, a, g, b \in Nat : f = first[k] /\ a = at[k] /\ g = first[d + 1] /\ b = at[d + 1]
  <2>1. /\ first \in [1 .. all + 1 -> Nat] /\ at \in [1 .. all + 1 -> Nat]
        /\ k \in 1 .. all + 1 /\ d + 1 \in 1 .. all + 1
    BY <1>2, <1>6
  <2>2. first[k] \in Nat /\ at[k] \in Nat /\ first[d + 1] \in Nat /\ at[d + 1] \in Nat
    BY <2>1
  <2> QED
    BY <2>2
<1>8. consumed = a + sent /\ kept = g /\ tail_start = b
      /\ taken = f + IF net = << >> THEN 0 ELSE EndedBy(Head(net), sent)
  BY <1>1, <1>2, <1>7 DEF PlaceInv
<1>9. \A i, j \in 1 .. all + 1 : i <= j => first[i] <= first[j] /\ at[i] <= at[j]
  BY <1>2
<1>10. d + 1 <= k => g <= f /\ b <= a
  <2>1. d + 1 \in 1 .. all + 1
    BY <1>2
  <2> QED
    BY <1>6, <1>7, <1>9, <2>1
<1>11. d > 0 <=> kept > 0
  <2>1. CASE d = 0
    BY <1>2, <2>1
  <2>2. CASE d # 0
    <3>1. 1 \in 1 .. all /\ 2 \in 1 .. all + 1 /\ 2 <= d + 1 /\ d + 1 \in 1 .. all + 1 /\ 1 < all
      BY <1>2, <2>2
    <3>2. Len(ps[1].lens) > 0
      BY <1>1, <3>1 DEF Layout
    <3>3. first[2] > 0
      <4>1. first[1 + 1] = first[1] + Len(ps[1].lens) /\ Len(ps[1].lens) \in Nat
        BY <1>3, <1>4, <3>1
      <4> QED
        BY <1>2, <3>2, <4>1
    <3>4. first[2] <= first[d + 1] /\ first[2] \in Nat
      BY <1>2, <3>1
    <3> QED
      BY <1>2, <1>7, <1>8, <2>2, <3>3, <3>4
  <2> QED
    BY <2>1, <2>2
<1>12. CASE net = << >>
  <2>1. k = all + 1 /\ sent = 0
    <3>1. Len(net) = 0
      BY <1>12
    <3>2. sent = 0
      BY <1>12 DEF PlaceInv, Link!Place
    <3> QED
      BY <1>2, <1>5, <3>1, <3>2
  <2>2. taken = Len(messages) /\ taken = f /\ consumed = a
    BY <1>2, <1>7, <1>8, <1>12, <2>1
  <2>3. b + Hdr <= a
    <3>1. at[(d + 1) + 1] = at[d + 1] + Size(ps[d + 1]) /\ Size(ps[d + 1]) >= Hdr
          /\ Size(ps[d + 1]) \in Nat
      BY <1>3, <1>4, <1>6
    <3>2. (d + 1) + 1 \in 1 .. all + 1 /\ all + 1 \in 1 .. all + 1 /\ (d + 1) + 1 <= all + 1
      BY <1>2
    <3>3. at[(d + 1) + 1] <= at[all + 1]
      BY <1>2, <3>2
    <3> QED
      BY <1>6, <1>7, <2>1, <3>1, <3>3
  <2>4. Judged(ps) = all /\ all > d
    BY <1>1, <1>2, <1>12, <2>1 DEF Judged
  <2>5. g <= f
    BY <1>2, <1>10, <2>1
  <2>6. consumed >= tail_start + Hdr /\ ~(consumed <= tail_start)
    BY <1>6, <1>7, <1>8, <2>2, <2>3
  <2>7. taken \in 0 .. Len(messages)
    BY <1>7, <2>2
  <2> QED
    BY <1>2, <1>7, <1>8, <1>11, <2>1, <2>2, <2>4, <2>5, <2>6, <2>7
<1>13. CASE net # << >>
  <2>1. Len(net) >= 1 /\ Head(net) = net[1] /\ k \in 1 .. all
    BY <1>2, <1>5, <1>13
  <2>2. PICK p : p = ps[k]
    OBVIOUS
  <2>3. Head(net) = p /\ p \in Sound
    <3>1. net[1] = ps[Len(ps) - Len(net) + 1]
      BY <1>5, <2>1 DEF PlaceInv
    <3> QED
      BY <1>1, <1>4, <1>5, <2>1, <2>2, <3>1
  <2>4. Link!Stands(p, sent)
    <3>1. CASE sent = 0
      BY <3>1 DEF PlaceInv, Link!Place, Link!Stands
    <3>2. CASE sent # 0
      BY <2>3, <3>2 DEF PlaceInv, Link!Place
    <3> QED
      BY <3>1, <3>2
  <2>5. PICK e : e = EndedBy(p, sent)
    OBVIOUS
  <2>6. sent < Size(p) /\ e \in 0 .. Len(p.lens)
    BY <1>5, <2>3, <2>4, <2>5, Taking
  <2>7. PICK l, z \in Nat : l = Len(p.lens) /\ z = Size(p) /\ z >= Hdr
    BY <1>4, <2>1, <2>2
  <2>8. first[k + 1] = f + l /\ at[k + 1] = a + z /\ k + 1 \in 1 .. all + 1
    BY <1>2, <1>3, <1>7, <2>1, <2>2, <2>7
  <2>9. taken = f + e /\ e \in 0 .. l /\ sent < z
    BY <1>8, <1>13, <2>3, <2>5, <2>6, <2>7
  <2>10. taken \in 0 .. Len(messages)
    <3>1. all + 1 \in 1 .. all + 1 /\ k + 1 <= all + 1
      BY <1>2, <2>1
    <3>2. first[k + 1] <= first[all + 1]
      BY <1>9, <2>8, <3>1
    <3>3. PICK t \in Nat : t = first[all + 1]
      BY <1>2, <3>1
    <3>4. f + l <= t /\ t = Len(messages)
      BY <1>2, <2>8, <3>2, <3>3
    <3>5. f + e \in 0 .. t
      BY <2>9, <3>4
    <3> QED
      BY <2>9, <3>4, <3>5
  <2>11. e > 0 => sent >= Hdr
    <3>1. sent <= Hdr => e = 0
      BY <1>5, <2>3, <2>5, Whole
    <3> QED
      BY <1>5, <1>6, <2>9, <3>1
  <2>12. Judged(ps) = IF sent >= Hdr THEN k ELSE k - 1
    BY <1>1, <1>13 DEF Judged
  <2>13. CASE k <= d
    <3>1. d + 1 \in 1 .. all + 1 /\ k + 1 <= d + 1
      BY <1>2, <2>1, <2>13
    <3>2. f + l <= g /\ a + z <= b
      <4>1. first[k + 1] <= first[d + 1] /\ at[k + 1] <= at[d + 1]
        BY <1>9, <2>8, <3>1
      <4> QED
        BY <1>7, <2>8, <4>1
    <3>3. consumed < tail_start /\ taken <= kept /\ consumed \in Nat
      <4>1. a + sent < b /\ f + e <= g /\ a + sent \in Nat
        BY <1>5, <2>9, <3>2
      <4> QED
        BY <1>8, <2>9, <4>1
    <3>4. ~(Judged(ps) > d)
      BY <1>2, <2>1, <2>12, <2>13
    <3>5. tail_start \in Nat /\ ~(consumed >= tail_start) /\ ~(consumed >= tail_start + Hdr)
          /\ consumed # tail_start
      <4>1. tail_start \in Nat
        BY <1>8
      <4> QED
        BY <1>6, <3>3, <4>1
    <3> QED
      BY <1>11, <1>13, <2>10, <3>3, <3>4, <3>5
  <2>14. CASE k = d + 1
    <3>1. f = g /\ a = b
      BY <1>7, <2>14
    <3>2. /\ consumed = b + sent /\ taken = g + e /\ consumed >= tail_start /\ taken >= kept
          /\ (consumed <= tail_start => sent = 0)
          /\ (consumed >= tail_start + Hdr <=> sent >= Hdr)
      <4>1. consumed = b + sent /\ taken = g + e /\ tail_start = b /\ kept = g
        BY <1>8, <2>9, <3>1
      <4>2. e \in Nat /\ sent \in Nat /\ Hdr \in Nat
        BY <1>5, <1>6, <2>9
      <4> QED
        BY <4>1, <4>2
    <3>3. sent = 0 => taken <= kept
      BY <1>6, <1>7, <1>8, <2>7, <2>9, <2>11, <3>2
    <3>4. Judged(ps) > d <=> sent >= Hdr
      BY <1>2, <2>12, <2>14
    <3>5. consumed \in Nat /\ tail_start \in Nat
      BY <1>5, <1>7, <1>8, <3>2
    <3> QED
      BY <1>11, <1>13, <2>10, <3>2, <3>3, <3>4, <3>5
  <2>15. CASE k > d + 1
    <3>1. /\ at[(d + 1) + 1] = at[d + 1] + Size(ps[d + 1]) /\ Size(ps[d + 1]) >= Hdr
          /\ Size(ps[d + 1]) \in Nat
      BY <1>3, <1>4, <1>6
    <3>2. (d + 1) + 1 \in 1 .. all + 1 /\ (d + 1) + 1 <= k /\ k \in 1 .. all + 1
      BY <1>2, <2>1, <2>15
    <3>3. at[(d + 1) + 1] <= at[k] /\ g <= f
      BY <1>2, <1>10, <2>1, <2>15, <3>2
    <3>4. b + Hdr <= a
      BY <1>6, <1>7, <3>1, <3>3
    <3>5. /\ consumed >= tail_start + Hdr /\ ~(consumed <= tail_start) /\ taken >= kept
          /\ consumed \in Nat /\ tail_start \in Nat
      <4>1. consumed = a + sent /\ taken = f + e /\ tail_start = b /\ kept = g /\ g <= f
        BY <1>8, <2>9, <3>3
      <4>2. e \in Nat /\ sent \in Nat /\ Hdr \in Nat /\ Hdr > 2
        BY <1>5, <1>6, <2>9
      <4> QED
        BY <3>4, <4>1, <4>2
    <3>6. Judged(ps) > d
      BY <1>2, <2>1, <2>12, <2>15
    <3> QED
      BY <1>11, <1>13, <2>10, <3>5, <3>6
  <2> QED
    BY <1>2, <2>1, <2>13, <2>14, <2>15
<1> QED
  BY <1>12, <1>13

Behind ==
  /\ consumed \in Nat /\ tail_start \in Nat
  /\ consumed <= tail_start => taken <= kept
  /\ consumed >= tail_start => taken >= kept

\* The same of the state that a step leads to.
LEMMA SidesThen ==
  ASSUME NEW ps, NEW first, NEW at, NEW d
  PROVE  Layout(ps, first, at, d)' /\ PlaceInv(ps, first, at)' => Behind'
<1>1. Layout(ps, first, at, d) /\ PlaceInv(ps, first, at) => Behind
  BY Sides DEF Behind
<1> QED
  BY <1>1, PTL

-----------------------------------------------------------------------------
(* The sums of the updates that were counted.                               *)

\* The last of the first n messages that could reach the table, and its effect.
LastOf(ms, n) == Max({0} \cup {i \in 1 .. n : ms[i].len = ORDER_LEN})
LastEffect(ms, n) == IF LastOf(ms, n) = 0 THEN 0 ELSE ms[LastOf(ms, n)].effect

IsLast(ms, n, l) ==
  /\ l \in {0} \cup {i \in 1 .. n : ms[i].len = ORDER_LEN}
  /\ \A i \in {0} \cup {j \in 1 .. n : ms[j].len = ORDER_LEN} : l >= i

LEMMA LastIs ==
  ASSUME NEW ms, NEW n \in Nat, NEW l, IsLast(ms, n, l)
  PROVE  LastOf(ms, n) = l
<1>1. PICK S : S = {0} \cup {i \in 1 .. n : ms[i].len = ORDER_LEN}
  OBVIOUS
<1>2. S \subseteq Nat
  BY <1>1
<1>3. l \in S /\ \A i \in S : l >= i
  BY <1>1 DEF IsLast
<1>4. \A m \in S : (\A i \in S : m >= i) => m = l
  BY <1>2, <1>3
<1>5. (CHOOSE m \in S : \A i \in S : m >= i) = l
  BY <1>3, <1>4
<1> QED
  BY <1>1, <1>5 DEF LastOf, Max

LEMMA NextLast ==
  ASSUME NEW ms, NEW t \in Nat, NEW l, IsLast(ms, t, l)
  PROVE  IsLast(ms, t + 1, IF ms[t + 1].len = ORDER_LEN THEN t + 1 ELSE l)
<1>1. PICK S, T : /\ S = {0} \cup {i \in 1 .. t : ms[i].len = ORDER_LEN}
                  /\ T = {0} \cup {i \in 1 .. t + 1 : ms[i].len = ORDER_LEN}
  OBVIOUS
<1>2. l \in S /\ S \subseteq 0 .. t /\ \A i \in S : l >= i
  BY <1>1 DEF IsLast
<1>3. CASE ms[t + 1].len = ORDER_LEN
  <2>1. t + 1 \in T /\ T \subseteq 0 .. t + 1
    BY <1>1, <1>3
  <2>2. \A i \in T : t + 1 >= i
    BY <2>1
  <2> QED
    BY <1>1, <1>3, <2>1, <2>2 DEF IsLast
<1>4. CASE ms[t + 1].len # ORDER_LEN
  <2>1. T = S
    BY <1>1, <1>4
  <2> QED
    BY <1>1, <1>2, <1>4, <2>1 DEF IsLast
<1> QED
  BY <1>3, <1>4

LEMMA SomeLast ==
  ASSUME NEW ms, NEW n \in Nat
  PROVE  \E l \in 0 .. n : IsLast(ms, n, l)
<1>1. PICK W : W = {m \in 0 .. n : \E l : IsLast(ms, m, l)}
  OBVIOUS
<1>2. 0 \in W
  <2>1. IsLast(ms, 0, 0)
    BY DEF IsLast
  <2> QED
    BY <1>1, <2>1
<1>3. ASSUME NEW m \in 0 .. n - 1, m \in W PROVE m + 1 \in W
  <2>1. PICK l : IsLast(ms, m, l)
    BY <1>1, <1>3
  <2>2. m \in Nat /\ m + 1 \in 0 .. n
    BY <1>3
  <2>3. PICK k : IsLast(ms, m + 1, k)
    BY <2>1, <2>2, NextLast
  <2> QED
    BY <1>1, <2>2, <2>3
<1>4. n \in W
  <2>1. n \in 0 .. n /\ \A m \in 0 .. n : m \in W
    BY <1>2, <1>3, UpTo
  <2> QED
    BY <2>1
<1>5. PICK l : IsLast(ms, n, l)
  BY <1>1, <1>4
<1>6. l \in 0 .. n
  BY <1>5 DEF IsLast
<1> QED
  BY <1>5, <1>6

\* One message later.
LEMMA LastEffectIs ==
  ASSUME NEW ms, NEW n \in Nat, \A i \in 1 .. n : ms[i].effect \in Nat, NEW t \in 0 .. n
  PROVE  /\ LastEffect(ms, t) \in Nat
         /\ t < n => LastEffect(ms, t + 1) = IF ms[t + 1].len = ORDER_LEN THEN ms[t + 1].effect
                                            ELSE LastEffect(ms, t)
<1>1. t \in Nat /\ t <= n
  OBVIOUS
<1>2. PICK l \in 0 .. t : IsLast(ms, t, l)
  BY <1>1, SomeLast
<1>3. LastOf(ms, t) = l
  BY <1>1, <1>2, LastIs
<1>4. LastEffect(ms, t) \in Nat
  <2>1. CASE l = 0
    BY <1>3, <2>1 DEF LastEffect
  <2>2. CASE l # 0
    <3>1. l \in 1 .. n
      BY <1>1, <1>2, <2>2
    <3> QED
      BY <1>3, <2>2, <3>1 DEF LastEffect
  <2> QED
    BY <2>1, <2>2
<1>5. LastOf(ms, t + 1) = IF ms[t + 1].len = ORDER_LEN THEN t + 1 ELSE l
  <2>1. t + 1 \in Nat
    BY <1>1
  <2>2. IsLast(ms, t + 1, IF ms[t + 1].len = ORDER_LEN THEN t + 1 ELSE l)
    BY <1>1, <1>2, NextLast
  <2> QED
    BY <2>1, <2>2, LastIs
<1>6. LastEffect(ms, t + 1) = IF ms[t + 1].len = ORDER_LEN THEN ms[t + 1].effect
                              ELSE LastEffect(ms, t)
  <2>1. CASE ms[t + 1].len = ORDER_LEN
    <3>1. LastOf(ms, t + 1) = t + 1 /\ t + 1 # 0
      BY <1>1, <1>5, <2>1
    <3> QED
      BY <2>1, <3>1 DEF LastEffect
  <2>2. CASE ms[t + 1].len # ORDER_LEN
    <3>1. LastOf(ms, t + 1) = LastOf(ms, t)
      BY <1>3, <1>5, <2>2
    <3> QED
      BY <2>2, <3>1 DEF LastEffect
  <2> QED
    BY <2>1, <2>2
<1> QED
  BY <1>4, <1>6

\* Every update of the messages taken is counted or under way, those of the
\* tail apart; what counts as one of the tail and is none is of the last message
\* in front of it.
SumInv(s) ==
  /\ updates_before_tail \in Nat /\ updates_after_tail \in Nat /\ tail_updates \in Nat
  /\ updates_before_tail + updates_after_tail + pending = s[taken]
  /\ tail_updates + (IF pending_tail THEN pending ELSE 0)
     = IF taken <= kept THEN 0 ELSE s[taken] - s[kept]
  /\ pending_tail => taken > kept
  /\ tail_updates <= updates_after_tail
  /\ consumed <= tail_start => updates_after_tail = 0
  /\ taken <= kept => pending <= LastEffect(messages, taken)
  /\ consumed >= tail_start =>
       updates_after_tail + (IF pending_tail THEN 0 ELSE pending)
       <= tail_updates + LastEffect(messages, kept)

LEMMA SumKeeps ==
  ASSUME NEW ps, NEW first, NEW at, NEW d, Layout(ps, first, at, d), PlaceInv(ps, first, at),
         MessagesInv, LateInv, NEW s, Sums(messages, s), SumInv(s), FeedByte
  PROVE  SumInv(s)'
<1>1. PICK shown, left, due : Shows(shown, left, due)
  BY Showing
<1>2. messages' = messages /\ kept' = kept /\ tail_start' = tail_start /\ consumed' = consumed + 1
  BY DEF FeedByte, script
<1>3. /\ consumed \in Nat /\ tail_start \in Nat
      /\ consumed <= tail_start => taken <= kept
      /\ consumed >= tail_start => taken >= kept
  BY Sides
<1>4. /\ consumed' <= tail_start => taken' <= kept
      /\ consumed' >= tail_start => taken' >= kept
  <2>1. PICK p, n, k : p = Head(net) /\ n = sent /\ k = Here(ps)
    OBVIOUS
  <2>2. PlaceInv(ps, first, at)' /\ Layout(ps, first, at, d)'
    BY <2>1, PlaceKeeps
  <2> QED
    <3>1. Behind'
      BY <2>2, SidesThen
    <3> QED
      BY <1>2, <3>1 DEF Behind
<1>5. /\ taken \in 0 .. Len(messages) /\ taken' \in 0 .. Len(messages)
      /\ taken' = taken \/ taken' = taken + 1
  <2>1. PICK p, n : p = Head(net) /\ n = sent
    OBVIOUS
  <2> QED
    BY <2>1, Boundary
<1>6. PICK n \in Nat : n = Len(messages)
  BY DEF MessagesInv
<1>7. \A i \in 1 .. n : messages[i].effect \in Nat /\ messages[i].len \in Nat
                        /\ (messages[i].effect > 0 => messages[i].len = ORDER_LEN)
  <2>1. \A i \in 1 .. n : messages[i] \in Kinds
    BY <1>6, ElementOfSeq DEF MessagesInv
  <2>2. \A i \in 1 .. n : messages[i].effect \in Nat /\ messages[i].len \in Nat
    BY <2>1, Widths DEF Kinds
  <2>3. \A i \in 1 .. n : messages[i].effect > 0 => messages[i].len = ORDER_LEN
    BY <1>6 DEF MessagesInv
  <2> QED
    BY <2>2, <2>3
<1>8. PICK t, u, k \in Nat : t = taken /\ u = taken' /\ k = kept
  BY <1>5 DEF MessagesInv
<1>9. t <= n /\ u <= n /\ k <= n /\ (u = t \/ u = t + 1)
  BY <1>5, <1>6, <1>8 DEF MessagesInv
<1>10. PICK st, su, sk \in Nat : st = s[t] /\ su = s[u] /\ sk = s[k]
  BY <1>6, <1>9 DEF Sums
<1>11. due \in Nat /\ su = st + due
  <2>1. due \in Nat /\ due = (IF u = t THEN 0 ELSE messages[u].effect)
    BY <1>1, <1>8 DEF Shows
  <2>2. CASE u = t
    BY <1>10, <2>1, <2>2
  <2>3. CASE u = t + 1
    <3>1. u \in 1 .. n /\ u - 1 = t
      BY <1>9, <2>3
    <3>2. s[u] = s[u - 1] + messages[u].effect
      BY <1>6, <3>1 DEF Sums
    <3> QED
      BY <1>10, <2>1, <2>3, <3>1, <3>2
  <2> QED
    BY <1>9, <2>2, <2>3
<1>12. PICK et, eu, ek \in Nat :
         et = LastEffect(messages, t) /\ eu = LastEffect(messages, u) /\ ek = LastEffect(messages, k)
  <2>1. t \in 0 .. n /\ u \in 0 .. n /\ k \in 0 .. n
    BY <1>9
  <2>2. LastEffect(messages, t) \in Nat /\ LastEffect(messages, u) \in Nat
        /\ LastEffect(messages, k) \in Nat
    BY <1>7, <2>1, LastEffectIs
  <2> QED
    BY <2>2
<1>13. u = k => eu = ek
  BY <1>12
\* Then left updates are of the same last message, and due ones of the next.
<1>14. /\ shown \in {0, 1} /\ left \in Nat /\ pending = left + shown /\ pending' = left + due
       /\ due > 0 => left = 0
  BY <1>1 DEF Shows
<1>15. (due > 0 => due <= eu) /\ (left <= et => left <= eu)
  <2>1. due = (IF u = t THEN 0 ELSE messages[u].effect)
        /\ (u # t /\ messages[u].len = ORDER_LEN => left = 0)
    BY <1>1, <1>8 DEF Shows
  <2>2. CASE u = t
    BY <1>12, <2>1, <2>2
  <2>3. CASE u = t + 1
    <3>1. u \in 1 .. n /\ t \in 0 .. n /\ t < n
      BY <1>9, <2>3
    <3>2. eu = IF messages[u].len = ORDER_LEN THEN messages[u].effect ELSE et
      BY <1>7, <1>12, <2>3, <3>1, LastEffectIs
    <3>3. u # t
      BY <2>3
    <3>4. due = messages[u].effect /\ (due > 0 => messages[u].len = ORDER_LEN)
      BY <1>7, <2>1, <3>1, <3>3
    <3>5. due > 0 => due <= eu
      BY <1>11, <3>2, <3>4
    <3>6. left <= et => left <= eu
      <4>1. CASE messages[u].len = ORDER_LEN
        BY <1>12, <2>1, <3>3, <4>1
      <4>2. CASE messages[u].len # ORDER_LEN
        BY <3>2, <4>2
      <4> QED
        BY <4>1, <4>2
    <3> QED
      BY <3>5, <3>6
  <2> QED
    BY <1>9, <2>2, <2>3
\* What is under way of the tail, and what is shown of it.
<1>16. PICK b, a, y, c, w \in Nat :
         /\ b = updates_before_tail /\ a = updates_after_tail /\ y = tail_updates
         /\ c = consumed /\ w = tail_start
  BY <1>3 DEF SumInv
<1>17. PICK x \in BOOLEAN : x = pending_tail
  BY DEF LateInv
<1>18. /\ b + a + (left + shown) = st
       /\ y + (IF x THEN left + shown ELSE 0) = (IF t <= k THEN 0 ELSE st - sk)
       /\ x => t > k
       /\ y <= a
       /\ c <= w => a = 0
       /\ t <= k => left + shown <= et
       /\ c >= w => a + (IF x THEN 0 ELSE left + shown) <= y + ek
  BY <1>8, <1>10, <1>12, <1>14, <1>16, <1>17 DEF SumInv
<1>19. /\ updates_after_tail' = a + (IF c >= w THEN shown ELSE 0)
       /\ updates_before_tail' = b + (IF c >= w THEN 0 ELSE shown)
       /\ tail_updates' = y + (IF x THEN shown ELSE 0)
  <2>1. AfterTail <=> c >= w
    BY <1>2, <1>16 DEF AfterTail
  <2>2. CountUpdates(shown)
    BY <1>1 DEF Shows
  <2> QED
    BY <1>16, <1>17, <2>1, <2>2 DEF CountUpdates
<1>20. PICK x2 \in BOOLEAN : x2 = pending_tail' /\ (x2 <=> IF due > 0 THEN u > k ELSE left > 0 /\ x)
  <2>1. pending_tail' = (IF due > 0 THEN taken' > kept ELSE left > 0 /\ pending_tail)
    BY <1>1 DEF Shows
  <2>2. LateInv'
    BY LateKeeps
  <2>3. pending_tail' \in BOOLEAN
    BY <2>2 DEF LateInv
  <2>4. pending_tail' <=> IF due > 0 THEN u > k ELSE left > 0 /\ x
    BY <1>8, <1>17, <2>1
  <2> QED
    BY <2>3, <2>4
<1>21. PICK b2, a2, y2 \in Nat :
         /\ a2 = a + (IF c >= w THEN shown ELSE 0)
         /\ b2 = b + (IF c >= w THEN 0 ELSE shown)
         /\ y2 = y + (IF x THEN shown ELSE 0)
  BY <1>14
<1>22. /\ c <= w => t <= k
       /\ c >= w => t >= k
       /\ c + 1 <= w => u <= k
       /\ c + 1 >= w => u >= k
  BY <1>2, <1>3, <1>4, <1>8, <1>16
<1>23. b2 + a2 + (left + due) = su
  BY <1>11, <1>14, <1>18, <1>21
<1>24. y2 + (IF x2 THEN left + due ELSE 0) = (IF u <= k THEN 0 ELSE su - sk)
  <2>1. t = k => st = sk
    BY <1>10
  <2>2. u = k => su = sk
    BY <1>10
  <2>3. CASE due > 0
    BY <1>9, <1>11, <1>14, <1>18, <1>20, <1>21, <2>1, <2>2, <2>3
  <2>4. CASE due = 0
    BY <1>9, <1>11, <1>14, <1>18, <1>20, <1>21, <2>1, <2>2, <2>4
  <2> QED
    BY <1>11, <2>3, <2>4
<1>25. x2 => u > k
  BY <1>9, <1>18, <1>20
<1>26. y2 <= a2
  BY <1>14, <1>18, <1>21, <1>22
<1>27. c + 1 <= w => a2 = 0
  BY <1>18, <1>21
<1>28. u <= k => left + due <= eu
  <2>1. u <= k => t <= k
    BY <1>9
  <2> QED
    BY <1>11, <1>14, <1>15, <1>18, <2>1
<1>29. c + 1 >= w => a2 + (IF x2 THEN 0 ELSE left + due) <= y2 + ek
  <2>1. CASE c >= w
    <3>1. due > 0 => x2
      <4>1. due > 0 => u = t + 1
        <5>1. due = (IF u = t THEN 0 ELSE messages[u].effect)
          BY <1>1, <1>8 DEF Shows
        <5> QED
          BY <1>9, <1>11, <5>1
      <4> QED
        BY <1>20, <1>22, <2>1, <4>1
    <3>2. CASE due > 0
      BY <1>14, <1>18, <1>21, <2>1, <3>1, <3>2
    <3>3. CASE due = 0
      BY <1>14, <1>18, <1>20, <1>21, <2>1, <3>3
    <3> QED
      BY <1>11, <3>2, <3>3
  <2>2. CASE c + 1 = w
    <3>1. u = k /\ t <= k
      BY <1>22, <2>2
    <3>2. left + due <= ek
      BY <1>13, <1>28, <3>1
    <3>3. a2 = 0
      BY <1>27, <2>2
    <3> QED
      BY <1>11, <1>14, <3>2, <3>3
  <2> QED
    BY <2>1, <2>2
<1>30. /\ updates_before_tail' = b2 /\ updates_after_tail' = a2 /\ tail_updates' = y2
       /\ pending' = left + due /\ pending_tail' = x2
       /\ taken' = u /\ kept' = k /\ messages' = messages /\ consumed' = c + 1 /\ tail_start' = w
       /\ s[u] = su /\ s[k] = sk /\ LastEffect(messages, u) = eu /\ LastEffect(messages, k) = ek
  BY <1>2, <1>8, <1>10, <1>12, <1>14, <1>16, <1>19, <1>20, <1>21
<1> QED
  BY <1>23, <1>24, <1>25, <1>26, <1>27, <1>28, <1>29, <1>30 DEF SumInv, LastEffect, LastOf

-----------------------------------------------------------------------------
(* The packets that build_fuzz_stream makes.                                *)

\* As many packets as the messages need.
LEMMA ChunkBounds ==
  ASSUME NEW n \in Nat
  PROVE  /\ Chunks(n) \in Nat /\ n <= Chunks(n) * msgs_per_packet
         /\ Chunks(n) * msgs_per_packet < n + msgs_per_packet
<1>1. PICK m \in Nat \ {0} : m = msgs_per_packet
  BY Constants
<1>2. PICK N \in Nat : N = n + m - 1
  <2>1. n + m - 1 \in Nat
    OBVIOUS
  <2> QED
    BY <2>1
<1>3. PICK c \in Int, r \in Int : c = N \div m /\ N = m * c + r /\ r >= 0 /\ r < m
  OBVIOUS
<1>4. c >= 0
  BY <1>3
<1>5. c * m = m * c /\ n <= c * m /\ c * m < n + m
  BY <1>2, <1>3
<1> QED
  BY <1>1, <1>2, <1>3, <1>4, <1>5 DEF Chunks

LEMMA Multiples ==
  ASSUME NEW m \in Nat, NEW i \in Nat, NEW j \in Nat, i <= j
  PROVE  i * m \in Nat /\ i * m <= j * m
<1>1. PICK d \in Nat : j = i + d
  <2>1. j - i \in Nat /\ j = i + (j - i)
    OBVIOUS
  <2> QED
    BY <2>1
<1>2. j * m = i * m + d * m /\ d * m \in Nat /\ i * m \in Nat
  BY <1>1
<1> QED
  BY <1>2

\* What the packets have of n messages.
LEMMA PackedTo ==
  ASSUME NEW n \in Nat
  PROVE  /\ PackedBy(0, n) = 0
         /\ \A k \in Nat : PackedBy(k, n) \in Nat /\ PackedBy(k, n) <= n
         /\ \A k \in Nat : k >= Chunks(n) => PackedBy(k, n) = n
         /\ \A k \in 1 .. Chunks(n) :
              /\ PackedBy(k - 1, n) = (k - 1) * msgs_per_packet
              /\ PackedBy(k - 1, n) < PackedBy(k, n)
              /\ PackedBy(k, n) <= PackedBy(k - 1, n) + msgs_per_packet
<1>1. PICK m \in Nat \ {0} : m = msgs_per_packet
  BY Constants
<1>2. PICK c \in Nat : c = Chunks(n) /\ n <= c * m /\ c * m < n + m
  BY <1>1, ChunkBounds
<1>3. PackedBy(0, n) = 0
  BY <1>1 DEF PackedBy
<1>4. ASSUME NEW k \in Nat PROVE PackedBy(k, n) \in Nat /\ PackedBy(k, n) <= n
  <2>1. PICK a \in Nat : a = k * m
    OBVIOUS
  <2>2. PackedBy(k, n) = IF a < n THEN a ELSE n
    BY <1>1, <2>1 DEF PackedBy
  <2> QED
    BY <2>2
<1>5. ASSUME NEW k \in Nat, k >= c PROVE PackedBy(k, n) = n
  <2>1. c * m <= k * m /\ c * m \in Nat
    BY <1>5, Multiples
  <2>2. PICK a, b \in Nat : a = k * m /\ b = c * m
    OBVIOUS
  <2>3. ~(a < n)
    BY <1>2, <2>1, <2>2
  <2> QED
    BY <1>1, <2>2, <2>3 DEF PackedBy
<1>6. ASSUME NEW k \in 1 .. c
      PROVE  /\ PackedBy(k - 1, n) = (k - 1) * m
             /\ PackedBy(k - 1, n) < PackedBy(k, n)
             /\ PackedBy(k, n) <= PackedBy(k - 1, n) + m
  <2>1. k \in Nat /\ k - 1 \in Nat /\ k <= c /\ (k - 1) + 1 = k
    OBVIOUS
  <2>2. PICK j \in Nat : j = k - 1 /\ j + 1 = k
    BY <2>1
  <2>3. k * m <= c * m
    BY <2>1, Multiples
  <2>4. PICK a, b, e \in Nat : a = j * m /\ b = k * m /\ e = c * m
    BY <2>1
  <2>5. b = a + m
    <3>1. (j + 1) * m = j * m + m
      OBVIOUS
    <3> QED
      BY <2>2, <2>4, <3>1
  <2>6. b <= e /\ e < n + m
    BY <1>2, <2>3, <2>4
  <2>7. a < n
    BY <2>5, <2>6
  <2>8. PackedBy(j, n) = a /\ PackedBy(k, n) = IF b < n THEN b ELSE n
    BY <1>1, <2>4, <2>7 DEF PackedBy
  <2>9. a < PackedBy(k, n) /\ PackedBy(k, n) <= a + m
    BY <2>5, <2>7, <2>8
  <2> QED
    BY <2>2, <2>4, <2>8, <2>9
<1> QED
  BY <1>1, <1>2, <1>3, <1>4, <1>5, <1>6

\* A packet of part of the messages ms: those behind the first b, up to the first e.
IsPart(p, ms, b, e) ==
  /\ p \in Sound /\ p.seq = 1 + b /\ Len(p.lens) = e - b
  /\ \A i \in 1 .. e - b : p.lens[i] = ms[b + i].len

LEMMA PacketIs ==
  ASSUME NEW ms \in Seq(Kinds), NEW n \in Nat, n = Len(ms), n <= Longer, NEW k \in 1 .. Chunks(n)
  PROVE  IsPart(PackPackets(ms, 1)[k], ms, PackedBy(k - 1, n), PackedBy(k, n))
<1>1. PICK b : b = (k - 1) * msgs_per_packet
  OBVIOUS
<1>2. PICK e \in Nat : e = PackedBy(k, n) /\ e <= n
  <2>1. k \in Nat
    BY ChunkBounds
  <2> QED
    BY <2>1, PackedTo
<1>3. b = PackedBy(k - 1, n) /\ b < e /\ e <= b + msgs_per_packet
  BY <1>1, <1>2, PackedTo
<1>4. b \in Nat
  <2>1. k - 1 \in Nat
    BY ChunkBounds
  <2> QED
    BY <1>3, <2>1, PackedTo
<1>5. PICK part : part = SubSeq(ms, b + 1, e)
  OBVIOUS
<1>6. part \in Seq(Kinds) /\ Len(part) = e - b /\ \A i \in 1 .. e - b : part[i] = ms[b + i]
  <2>1. /\ e - b \in Nat /\ b + 1 \in Nat
        /\ \A i \in b + 1 .. e : i \in 1 .. Len(ms)
    BY <1>2, <1>3, <1>4
  <2>2. Len(part) = e - b /\ \A i \in 1 .. e - b : part[i] = ms[b + i]
    BY <1>2, <1>3, <1>4, <1>5
  <2>3. \A i \in 1 .. e - b : ms[b + i] \in Kinds
    <3>1. \A i \in 1 .. e - b : b + i \in 1 .. Len(ms)
      BY <1>2, <1>4
    <3> QED
      BY <3>1, ElementOfSeq
  <2>4. part \in Seq(Kinds)
    BY <1>2, <1>3, <1>4, <1>5
  <2> QED
    BY <2>2, <2>4
<1>7. PICK lens : lens = Lens(part)
  OBVIOUS
<1>8. lens \in Seq(Word) /\ Len(lens) = e - b /\ \A i \in 1 .. e - b : lens[i] = ms[b + i].len
  <2>1. lens = [i \in 1 .. e - b |-> part[i].len]
    BY <1>6, <1>7 DEF Lens
  <2>2. \A i \in 1 .. e - b : part[i] \in Kinds
    BY <1>6, ElementOfSeq
  <2>3. \A i \in 1 .. e - b : part[i].len \in Word
    BY <2>2 DEF Kinds
  <2>4. e - b \in Nat
    BY <1>2, <1>3, <1>4
  <2> QED
    BY <1>6, <2>1, <2>3, <2>4
<1>9. PackPackets(ms, 1)[k] = PackPacket(1 + b, lens)
  BY <1>1, <1>2, <1>5, <1>7 DEF PackPackets
<1>10. PICK p : p = PackPacket(1 + b, lens)
  OBVIOUS
<1>11. p = Link!PackPacket(1 + b, lens)
  BY <1>10 DEF PackPacket, Link!PackPacket
<1>12. p \in Link!Sound /\ p.seq = 1 + b /\ p.lens = lens
  <2>1. (1 + b) + Len(lens) <= Link!LastSeq
    <3>1. Longer \in Nat
      BY FuzzAssumption DEF Longer
    <3>2. Link!LastSeq = 1 + Longer
      BY DEF Link!LastSeq
    <3> QED
      BY <1>2, <1>4, <1>8, <3>1, <3>2
  <2>2. Len(lens) <= msgs_per_packet
    <3>1. msgs_per_packet \in Nat
      BY Constants
    <3> QED
      BY <1>2, <1>3, <1>4, <1>8, <3>1
  <2>3. 1 + b \in Nat
    BY <1>4
  <2> QED
    BY <1>8, <1>11, <2>1, <2>2, <2>3, SameAssumptions, Link!Packed
<1> QED
  BY <1>2, <1>3, <1>8, <1>9, <1>10, <1>12 DEF IsPart, Sound

\* The end of the session carries the number behind the last message.
LEMMA EndIs ==
  ASSUME NEW n \in Nat, n <= Longer, NEW ms
  PROVE  IsPart(EndOfSessionPacket(1 + n), ms, n, n)
<1>1. PICK p : p = EndOfSessionPacket(1 + n)
  OBVIOUS
<1>2. p = Link!EndOfSessionPacket(1 + n)
  BY <1>1, SameConstants DEF EndOfSessionPacket, Link!EndOfSessionPacket
<1>3. p \in Link!Sound
  <2>1. Longer \in Nat /\ Link!LastSeq = 1 + Longer
    BY FuzzAssumption DEF Longer, Link!LastSeq
  <2>2. 1 + n \in Nat /\ 1 + n <= Link!LastSeq
    BY <2>1
  <2> QED
    BY <1>2, <2>2, SameAssumptions, Link!Ending
<1>4. p.seq = 1 + n /\ Len(p.lens) = 0
  BY <1>1 DEF EndOfSessionPacket
<1> QED
  BY <1>1, <1>3, <1>4 DEF IsPart, Sound

-----------------------------------------------------------------------------
(* Their bytes.                                                             *)

\* A function that never falls from one number to the next never falls.
LEMMA Rising ==
  ASSUME NEW n \in Nat, NEW g \in [1 .. n + 1 -> Nat], \A j \in 1 .. n : g[j] <= g[j + 1]
  PROVE  \A i, j \in 1 .. n + 1 : i <= j => g[i] <= g[j]
<1>1. SUFFICES ASSUME NEW i \in 1 .. n + 1, NEW k \in 1 .. n + 1, i <= k PROVE g[i] <= g[k]
  OBVIOUS
<1>2. PICK l \in Nat : l = k - i /\ i + l = k
  <2>1. k - i \in Nat /\ i + (k - i) = k
    BY <1>1
  <2> QED
    BY <2>1
<1>3. PICK W : W = {m \in 0 .. l : g[i] <= g[i + m]}
  OBVIOUS
<1>4. 0 \in W
  <2>1. i + 0 = i /\ g[i] \in Nat
    BY <1>1
  <2> QED
    BY <1>3, <2>1
<1>5. ASSUME NEW m \in 0 .. l - 1, m \in W PROVE m + 1 \in W
  <2>1. i + m \in 1 .. n /\ i + m \in 1 .. n + 1 /\ (i + m) + 1 \in 1 .. n + 1
        /\ i + (m + 1) = (i + m) + 1 /\ m + 1 \in 0 .. l
    BY <1>1, <1>2
  <2>2. g[i + m] <= g[(i + m) + 1] /\ g[i] <= g[i + m]
    BY <1>3, <1>5, <2>1
  <2>3. g[i] \in Nat /\ g[i + m] \in Nat /\ g[(i + m) + 1] \in Nat
    BY <1>1, <2>1
  <2>4. g[i] <= g[(i + m) + 1]
    BY <2>2, <2>3
  <2> QED
    BY <1>3, <2>1, <2>4
<1>6. l \in W
  <2>1. \A m \in 0 .. l - 1 : m \in W => m + 1 \in W
    BY <1>5
  <2>2. \A m \in 0 .. l : m \in W
    BY <1>4, <2>1, UpTo
  <2> QED
    BY <2>2
<1> QED
  BY <1>2, <1>3, <1>6

LEMMA BytesTyped ==
  ASSUME NEW p \in Sound
  PROVE  PacketBytes(p) \in Seq(Byte)
<1>1. p \in Link!Sound /\ p \in Link!Packet /\ p.lens \in Seq(Link!Word)
  BY SameAssumptions, SameConstants, Link!PacketFacts DEF Sound
<1>2. PacketHeader(p) \in Seq(Byte)
  BY <1>1, SameAssumptions, SameConstants, SameHeader, Link!HeaderBytes
<1>3. PICK n \in Nat : n = Len(p.lens) /\ DOMAIN p.lens = 1 .. n
  BY <1>1
<1>4. Link!Text(p, n) \in Seq(Byte)
  <2>1. n \in 0 .. Len(p.lens) /\ p.lens \in Seq(Word)
    BY <1>1, <1>3, SameConstants
  <2> QED
    BY <2>1, SameAssumptions, SameConstants, Link!TextGrows
<1>5. Link!Text(p, n) = FlattenSeq([i \in DOMAIN p.lens |-> Record(p.lens[i])])
  <2>1. \A l : Link!Record(l) = Record(l)
    BY SameDigits DEF Link!Record, Record, Link!LEN_LEN, LEN_LEN
  <2>2. Link!Rows(p, n) = [i \in DOMAIN p.lens |-> Record(p.lens[i])]
    BY <1>3, <2>1 DEF Link!Rows
  <2> QED
    BY <2>2, SameFlatten DEF Link!Text
<1>6. PICK h, t : h = PacketHeader(p) /\ t = Link!Text(p, n)
  OBVIOUS
<1>7. h \o t \in Seq(Byte)
  BY <1>2, <1>4, <1>6, ConcatProperties
<1> QED
  BY <1>5, <1>6, <1>7 DEF PacketBytes

\* at[j] bytes are in front of packet j.
Fronts(ps, at) ==
  /\ at \in [1 .. Len(ps) + 1 -> Nat] /\ at[1] = 0
  /\ \A j \in 1 .. Len(ps) : at[j + 1] = at[j] + Size(ps[j])

LEMMA BytesInFront ==
  ASSUME NEW ps \in Seq(Sound), NEW d \in 0 .. Len(ps), NEW qs \in Seq(Sound), Len(qs) = d,
         \A k \in 1 .. d : qs[k] = ps[k]
  PROVE  \E at : Fronts(ps, at) /\ at[d + 1] = ByteCount(qs)
<1>1. PICK n, T : n = Len(ps) /\ T = Seq(Byte)
  OBVIOUS
<1>2. n \in Nat /\ d \in Nat /\ d <= n
  BY <1>1
<1>3. \A i \in 1 .. n : PacketBytes(ps[i]) \in T
  <2>1. \A i \in 1 .. n : ps[i] \in Sound
    BY <1>1, ElementOfSeq
  <2> QED
    BY <1>1, <2>1, BytesTyped
<1>4. PICK step : step = [x \in T |-> [i \in Nat |->
                            IF i \in 1 .. n THEN x \o PacketBytes(ps[i]) ELSE x]]
  OBVIOUS
<1>5. step \in [T -> [Nat -> T]]
  <2>1. ASSUME NEW x \in T, NEW i \in Nat
        PROVE  (IF i \in 1 .. n THEN x \o PacketBytes(ps[i]) ELSE x) \in T
    <3>1. CASE i \in 1 .. n
      <4>1. PICK r : r = PacketBytes(ps[i])
        OBVIOUS
      <4>2. r \in Seq(Byte) /\ x \in Seq(Byte)
        BY <1>1, <1>3, <3>1, <4>1
      <4>3. x \o r \in Seq(Byte)
        BY <4>2, ConcatProperties
      <4> QED
        BY <1>1, <3>1, <4>1, <4>3
    <3>2. CASE i \notin 1 .. n
      BY <2>1, <3>2
    <3> QED
      BY <3>1, <3>2
  <2> QED
    BY <1>4, <2>1
<1>6. PICK f : Link!Unrolls(f, T, << >>, step)
  <2>1. << >> \in T
    BY <1>1
  <2> QED
    BY <1>5, <2>1, SameAssumptions, Link!Recursion, Zenon
<1>7. f \in [Nat -> T] /\ f[0] = << >>
  BY <1>6 DEF Link!Unrolls
<1>8. ASSUME NEW i \in 1 .. n PROVE f[i] = f[i - 1] \o PacketBytes(ps[i])
  <2>1. i \in Nat /\ i - 1 \in Nat /\ (i - 1) + 1 = i
    BY <1>2
  <2>2. f[i] = step[f[i - 1]][i]
    BY <1>6, <2>1 DEF Link!Unrolls
  <2>3. f[i - 1] \in T
    BY <1>7, <2>1
  <2> QED
    BY <1>4, <2>1, <2>2, <2>3
<1>9. PICK at : at = [j \in 1 .. n + 1 |-> Len(f[j - 1])]
  OBVIOUS
<1>10. at \in [1 .. n + 1 -> Nat] /\ at[1] = 0
  <2>1. ASSUME NEW j \in 1 .. n + 1 PROVE Len(f[j - 1]) \in Nat
    <3>1. j - 1 \in Nat
      BY <1>2
    <3>2. f[j - 1] \in Seq(Byte)
      BY <1>1, <1>7, <3>1
    <3> QED
      BY <3>2
  <2>2. 1 \in 1 .. n + 1 /\ 1 - 1 = 0 /\ Len(<< >>) = 0
    BY <1>2
  <2> QED
    BY <1>7, <1>9, <2>1, <2>2
<1>11. ASSUME NEW j \in 1 .. n PROVE at[j + 1] = at[j] + Size(ps[j])
  <2>1. j \in 1 .. n + 1 /\ j + 1 \in 1 .. n + 1 /\ (j + 1) - 1 = j /\ j - 1 \in Nat
    BY <1>2
  <2>2. PICK x, r : x = f[j - 1] /\ r = PacketBytes(ps[j])
    OBVIOUS
  <2>3. x \in Seq(Byte) /\ r \in Seq(Byte)
    BY <1>1, <1>3, <1>7, <2>1, <2>2
  <2>4. Len(x \o r) = Len(x) + Len(r)
    BY <2>3, ConcatProperties
  <2>5. f[j] = x \o r
    BY <1>8, <2>2
  <2>6. at[j + 1] = Len(f[j]) /\ at[j] = Len(x)
    BY <1>9, <2>1, <2>2
  <2> QED
    BY <2>2, <2>4, <2>5, <2>6 DEF Size
<1>12. at[d + 1] = ByteCount(qs)
  <2>1. PICK rows, g : rows = [k \in DOMAIN qs |-> PacketBytes(qs[k])]
                       /\ g = [i \in 0 .. d |-> f[i]]
    OBVIOUS
  <2>2. rows = [k \in 1 .. d |-> PacketBytes(ps[k])]
    BY <1>1, <2>1
  <2>3. rows \in Seq(Seq(Byte)) /\ Len(rows) = d
    <3>1. \A k \in 1 .. d : PacketBytes(ps[k]) \in Seq(Byte)
      <4>1. \A k \in 1 .. d : k \in 1 .. n
        BY <1>2
      <4> QED
        BY <1>1, <1>3, <4>1
    <3> QED
      BY <1>2, <2>2, <3>1
  <2>4. g \in [0 .. d -> Seq(Byte)] /\ g[0] = << >>
    BY <1>1, <1>2, <1>7, <2>1
  <2>5. ASSUME NEW i \in 1 .. d PROVE g[i] = g[i - 1] \o rows[i]
    <3>1. i \in 0 .. d /\ i - 1 \in 0 .. d /\ i \in 1 .. n
      BY <1>2
    <3>2. rows[i] = PacketBytes(ps[i])
      BY <2>2
    <3> QED
      BY <1>8, <2>1, <3>1, <3>2
  <2>6. Link!FlattenSeq(rows) = g[d]
    BY <1>2, <2>3, <2>4, <2>5, SameAssumptions, Link!Flattened
  <2>7. ByteCount(qs) = Len(f[d])
    <3>1. g[d] = f[d]
      BY <1>2, <2>1
    <3> QED
      BY <2>1, <2>6, <3>1, SameFlatten DEF ByteCount
  <2>8. d + 1 \in 1 .. n + 1 /\ (d + 1) - 1 = d
    BY <1>2
  <2> QED
    BY <1>9, <2>7, <2>8
<1>13. Fronts(ps, at)
  BY <1>1, <1>10, <1>11 DEF Fronts
<1> QED
  BY <1>12, <1>13, Zenon

-----------------------------------------------------------------------------
(* Their messages.                                                          *)

Lengths == {ORDER_LEN, SYSTEM_LEN} \cup 0 .. MAX_BOGUS_LEN

\* What _corrupt_message and generate_messages return.
LEMMA GeneratedIs ==
  \A m \in Generated :
    m \in Kinds /\ m.len \in Lengths /\ (m.effect > 0 => m.len = ORDER_LEN) /\ m.len # 0
<1>1. SUFFICES ASSUME NEW m \in Generated
               PROVE  /\ m \in Kinds /\ m.len \in Lengths
                      /\ (m.effect > 0 => m.len = ORDER_LEN) /\ m.len # 0
  OBVIOUS
<1>2. CASE m \in [len : {ORDER_LEN}, effect : Effect]
  <2>1. m \in [len : Word, effect : Nat] /\ m.len = ORDER_LEN
    BY <1>2, Constants
  <2> QED
    BY <2>1, Constants DEF Kinds, Lengths
<1>3. CASE m \in [len : {SYSTEM_LEN}, effect : {0}]
  <2>1. m \in [len : Word, effect : Nat] /\ m.len = SYSTEM_LEN /\ m.effect = 0
    BY <1>3, Constants
  <2> QED
    BY <2>1, Constants DEF Kinds, Lengths
<1> QED
  BY <1>2, <1>3 DEF Generated

LEMMA DirtyIs ==
  \A c \in Dirty : c \in Kinds /\ c.len \in Lengths /\ (c.effect > 0 => c.len = ORDER_LEN)
<1>1. SUFFICES ASSUME NEW m \in Generated, NEW c \in Corrupt(m)
               PROVE  c \in Kinds /\ c.len \in Lengths /\ (c.effect > 0 => c.len = ORDER_LEN)
  BY DEF Dirty
<1>2. m.len \in Lengths
  BY GeneratedIs
<1>3. /\ c \in [len : {m.len} \cup 0 .. MAX_BOGUS_LEN, effect : Effect \cup {0}]
      /\ c.len # ORDER_LEN => c.effect = 0
  BY DEF Corrupt
<1>4. c.len \in Lengths /\ c.effect \in Nat
  <2>1. c.len \in {m.len} \cup 0 .. MAX_BOGUS_LEN /\ c.effect \in Effect \cup {0}
    BY <1>3
  <2>2. c.len \in Lengths
    BY <1>2, <2>1 DEF Lengths
  <2>3. c.effect \in Nat
    <3>1. PICK e : e = c.effect
      OBVIOUS
    <3>2. e \in Effect \/ e = 0
      BY <2>1, <3>1
    <3>3. \A x \in Effect : x \in Nat
      BY Constants
    <3>4. e \in Nat
      BY <3>2, <3>3
    <3> QED
      BY <3>1, <3>4
  <2> QED
    BY <2>2, <2>3
<1>5. Lengths \subseteq Word
  BY Constants DEF Lengths
<1>6. c \in Kinds
  BY <1>3, <1>4, <1>5 DEF Kinds
<1>7. c.effect > 0 => c.len = ORDER_LEN
  BY <1>3
<1> QED
  BY <1>4, <1>6, <1>7

-----------------------------------------------------------------------------
(* The stream.                                                              *)

\* The messages are the first l of the damaged ones cs and those of the tail ts.
Joins(cs, ts, l) ==
  /\ Len(messages) = l + Len(ts)
  /\ \A i \in 1 .. l : messages[i] = cs[i]
  /\ \A i \in 1 .. Len(ts) : messages[l + i] = ts[i]

\* What the build draws: the damaged messages, those of the tail, and the l it keeps.
Drawn(a, b, cs, ts, l) ==
  /\ a \in Nat /\ a <= MaxDirty /\ b \in Nat /\ l \in Nat /\ l <= a
  /\ cs \in [1 .. a -> Dirty] /\ ts \in [1 .. b -> Generated]
  /\ messages = SubSeq(cs, 1, l) \o ts /\ kept = l

LEMMA MadeMessages ==
  ASSUME NEW a, NEW b, NEW cs, NEW ts, NEW l, Drawn(a, b, cs, ts, l)
  PROVE  /\ cs \in Seq(Kinds) /\ Len(cs) = a /\ ts \in Seq(Kinds) /\ Len(ts) = b
         /\ MessagesInv /\ Joins(cs, ts, l)
<1>0. /\ a \in Nat /\ a <= MaxDirty /\ b \in Nat /\ l \in Nat /\ l <= a
      /\ cs \in [1 .. a -> Dirty] /\ ts \in [1 .. b -> Generated]
      /\ messages = SubSeq(cs, 1, l) \o ts /\ kept = l
  BY DEF Drawn
<1> USE <1>0
<1>1. \A i \in 1 .. a : /\ cs[i] \in Kinds /\ cs[i].len \in Lengths
                        /\ cs[i].effect > 0 => cs[i].len = ORDER_LEN
  <2>1. \A i \in 1 .. a : cs[i] \in Dirty
    OBVIOUS
  <2> QED
    BY <2>1, DirtyIs
<1>2. \A i \in 1 .. b : /\ ts[i] \in Kinds /\ ts[i].len \in Lengths /\ ts[i].len # 0
                        /\ ts[i].effect > 0 => ts[i].len = ORDER_LEN
  <2>1. \A i \in 1 .. b : ts[i] \in Generated
    OBVIOUS
  <2> QED
    BY <2>1, GeneratedIs
<1>3. cs \in Seq(Kinds) /\ Len(cs) = a
  <2>1. cs \in [1 .. a -> Kinds]
    BY <1>1
  <2> QED
    BY <2>1
<1>4. ts \in Seq(Kinds) /\ Len(ts) = b
  <2>1. ts \in [1 .. b -> Kinds]
    BY <1>2
  <2> QED
    BY <2>1
<1>5. PICK x : x = SubSeq(cs, 1, l)
  OBVIOUS
<1>6. x \in Seq(Kinds) /\ Len(x) = l /\ \A i \in 1 .. l : x[i] = cs[i]
  <2>1. /\ \A i \in 1 .. l : i \in 1 .. a
        /\ 1 \in Nat /\ l = l - 1 + 1
    OBVIOUS
  <2>2. Len(x) = l /\ \A i \in 1 .. l : x[i] = cs[1 + i - 1]
    BY <1>3, <1>5, <2>1
  <2>3. x \in Seq(Kinds)
    BY <1>3, <1>5, <2>1
  <2> QED
    BY <2>2, <2>3
<1>7. messages = x \o ts
  BY <1>5
<1>8. messages \in Seq(Kinds) /\ Len(messages) = l + b
      /\ (\A i \in 1 .. l : messages[i] = cs[i]) /\ (\A i \in 1 .. b : messages[l + i] = ts[i])
  <2>1. /\ x \o ts \in Seq(Kinds) /\ Len(x \o ts) = l + b
        /\ \A i \in 1 .. l + b : (x \o ts)[i] = IF i <= l THEN x[i] ELSE ts[i - l]
    BY <1>4, <1>6, ConcatProperties
  <2>2. \A i \in 1 .. l : i \in 1 .. l + b /\ i <= l
    OBVIOUS
  <2>3. \A i \in 1 .. b : l + i \in 1 .. l + b /\ ~(l + i <= l) /\ (l + i) - l = i
    OBVIOUS
  <2>4. \A i \in 1 .. l : messages[i] = cs[i]
    BY <1>6, <1>7, <2>1, <2>2
  <2>5. \A i \in 1 .. b : messages[l + i] = ts[i]
    BY <1>7, <2>1, <2>3
  <2> QED
    BY <1>7, <2>1, <2>4, <2>5
<1>9. ASSUME NEW i \in 1 .. l + b
      PROVE  /\ messages[i].len \in Lengths /\ (messages[i].effect > 0 => messages[i].len = ORDER_LEN)
             /\ i > l => messages[i].len # 0
  <2>1. CASE i <= l
    <3>1. i \in 1 .. l /\ i \in 1 .. a /\ ~(i > l)
      BY <2>1
    <3> QED
      BY <1>1, <1>8, <3>1
  <2>2. CASE i > l
    <3>1. i - l \in 1 .. b /\ l + (i - l) = i
      BY <2>2
    <3> QED
      BY <1>2, <1>8, <3>1
  <2> QED
    BY <2>1, <2>2
<1>10. l \in 0 .. l + b /\ l <= MaxDirty
  BY FuzzAssumption
<1>11. MessagesInv
  BY <1>8, <1>9, <1>10 DEF MessagesInv, Lengths
<1> QED
  BY <1>3, <1>4, <1>8, <1>11 DEF Joins

\* The packets are the first d of those of the messages cs, those of ts, and the end.
Parts(ps, cs, ts, d) ==
  /\ ps \in Seq(Sound) /\ Len(ps) = d + Chunks(Len(ts)) + 1
  /\ \A k \in 1 .. d : IsPart(ps[k], cs, PackedBy(k - 1, Len(cs)), PackedBy(k, Len(cs)))
  /\ \A k \in 1 .. Chunks(Len(ts)) + 1 :
       IsPart(ps[d + k], ts, PackedBy(k - 1, Len(ts)), PackedBy(k, Len(ts)))

LEMMA PacksIn ==
  ASSUME NEW ms \in Seq(Kinds), NEW n \in Nat, n = Len(ms), n <= Longer
  PROVE  /\ PackPackets(ms, 1) \in Seq(Sound) /\ Len(PackPackets(ms, 1)) = Chunks(n)
         /\ \A k \in 1 .. Chunks(n) :
              IsPart(PackPackets(ms, 1)[k], ms, PackedBy(k - 1, n), PackedBy(k, n))
<1>1. PICK c \in Nat : c = Chunks(n)
  BY ChunkBounds
<1>2. \A k \in 1 .. c : IsPart(PackPackets(ms, 1)[k], ms, PackedBy(k - 1, n), PackedBy(k, n))
  BY <1>1, PacketIs
<1>3. \A k \in 1 .. c : PackPackets(ms, 1)[k] \in Sound
  BY <1>2 DEF IsPart
<1>4. PICK q : q = PackPackets(ms, 1)
  OBVIOUS
<1>5. PICK x : q = [k \in 1 .. c |-> x[k]]
  <2>1. q = [k \in 1 .. c |-> q[k]]
    BY <1>1, <1>4 DEF PackPackets
  <2> QED
    BY <2>1
<1>6. q \in Seq(Sound) /\ Len(q) = c
  <2>1. \A k \in 1 .. c : x[k] \in Sound
    BY <1>3, <1>4, <1>5
  <2> QED
    BY <1>5, <2>1
<1> QED
  BY <1>1, <1>2, <1>4, <1>6

\* What the build makes of them: the d packets it keeps, the tail's and the last one.
Sliced(cs, ts, d, ds, ps) ==
  /\ cs \in Seq(Kinds) /\ Len(cs) <= Longer /\ ts \in Seq(Kinds) /\ Len(ts) <= Longer
  /\ d \in 0 .. Chunks(Len(cs)) /\ ds = SubSeq(PackPackets(cs, 1), 1, d)
  /\ ps = ds \o PackPackets(ts, 1) \o <<EndOfSessionPacket(1 + Len(ts))>>

LEMMA MadePackets ==
  ASSUME NEW cs, NEW ts, NEW d, NEW ds, NEW ps, Sliced(cs, ts, d, ds, ps)
  PROVE  /\ ds \in Seq(Sound) /\ Len(ds) = d /\ Parts(ps, cs, ts, d)
         /\ \A k \in 1 .. d : ds[k] = ps[k]
<1>0. /\ cs \in Seq(Kinds) /\ Len(cs) <= Longer /\ ts \in Seq(Kinds) /\ Len(ts) <= Longer
      /\ d \in 0 .. Chunks(Len(cs)) /\ ds = SubSeq(PackPackets(cs, 1), 1, d)
      /\ ps = ds \o PackPackets(ts, 1) \o <<EndOfSessionPacket(1 + Len(ts))>>
  BY DEF Sliced
<1> USE <1>0
<1>1. PICK a, b, c, e \in Nat : a = Len(cs) /\ b = Len(ts) /\ c = Chunks(a) /\ e = Chunks(b)
  <2>1. Len(cs) \in Nat /\ Len(ts) \in Nat
    OBVIOUS
  <2> QED
    BY <2>1, ChunkBounds
<1>2. PICK q, r : q = PackPackets(cs, 1) /\ r = PackPackets(ts, 1)
  OBVIOUS
<1>3. /\ q \in Seq(Sound) /\ Len(q) = c
      /\ \A k \in 1 .. c : IsPart(q[k], cs, PackedBy(k - 1, a), PackedBy(k, a))
  BY <1>1, <1>2, PacksIn
<1>4. /\ r \in Seq(Sound) /\ Len(r) = e
      /\ \A k \in 1 .. e : IsPart(r[k], ts, PackedBy(k - 1, b), PackedBy(k, b))
  BY <1>1, <1>2, PacksIn
<1>5. PICK z : z = EndOfSessionPacket(1 + b) /\ IsPart(z, ts, b, b) /\ z \in Sound
  <2>1. IsPart(EndOfSessionPacket(1 + b), ts, b, b)
    BY <1>1, EndIs
  <2> QED
    BY <2>1 DEF IsPart
<1>6. d \in Nat /\ d <= c
  BY <1>1
<1>7. ds \in Seq(Sound) /\ Len(ds) = d /\ \A k \in 1 .. d : ds[k] = q[k]
  <2>1. /\ \A k \in 1 .. d : k \in 1 .. c
        /\ 1 \in Nat
    BY <1>6
  <2>2. ds = SubSeq(q, 1, d)
    BY <1>2
  <2>3. ds \in Seq(Sound)
    BY <1>3, <1>6, <2>1, <2>2
  <2>4. Len(ds) = d /\ \A k \in 1 .. d : ds[k] = q[1 + k - 1]
    BY <1>3, <1>6, <2>1, <2>2
  <2> QED
    BY <2>3, <2>4
<1>8. PICK x : x = ds \o r
  OBVIOUS
<1>9. /\ x \in Seq(Sound) /\ Len(x) = d + e
      /\ \A k \in 1 .. d : x[k] = ds[k]
      /\ \A k \in 1 .. e : x[d + k] = r[k]
  <2>1. Link!EndToEndIs(Sound, ds, r)
    BY <1>4, <1>7, SameAssumptions, Link!Joined, Zenon
  <2> QED
    BY <1>4, <1>7, <1>8, <2>1, Zenon DEF Link!EndToEndIs
<1>10. PICK y : y = <<z>> /\ y \in Seq(Sound) /\ Len(y) = 1 /\ y[1] = z
  <2>1. <<z>> \in Seq(Sound) /\ Len(<<z>>) = 1 /\ <<z>>[1] = z
    BY <1>5
  <2> QED
    BY <2>1, Zenon
<1>11. ps = x \o y
  BY <1>1, <1>2, <1>5, <1>8, <1>10
<1>12. /\ ps \in Seq(Sound) /\ Len(ps) = d + e + 1
       /\ \A k \in 1 .. d + e : ps[k] = x[k]
       /\ ps[d + e + 1] = z
  <2>1. Link!EndToEndIs(Sound, x, y)
    BY <1>9, <1>10, SameAssumptions, Link!Joined, Zenon
  <2>2. /\ ps \in Seq(Sound) /\ Len(ps) = (d + e) + 1
        /\ \A k \in 1 .. d + e : ps[k] = x[k]
        /\ \A k \in 1 .. 1 : ps[(d + e) + k] = y[k]
    BY <1>9, <1>10, <1>11, <2>1, Zenon DEF Link!EndToEndIs
  <2>3. 1 \in 1 .. 1
    OBVIOUS
  <2> QED
    BY <1>10, <2>2, <2>3
<1>13. ASSUME NEW k \in 1 .. d
       PROVE  /\ ps[k] = ds[k]
              /\ IsPart(ps[k], cs, PackedBy(k - 1, a), PackedBy(k, a))
  <2>1. k \in 1 .. d + e /\ k \in 1 .. c
    BY <1>6
  <2>2. ps[k] = ds[k] /\ ds[k] = q[k]
    BY <1>7, <1>9, <1>12, <2>1
  <2> QED
    BY <1>3, <2>1, <2>2
<1>14. ASSUME NEW k \in 1 .. e + 1
       PROVE  IsPart(ps[d + k], ts, PackedBy(k - 1, b), PackedBy(k, b))
  <2>1. CASE k <= e
    <3>1. d + k \in 1 .. d + e /\ k \in 1 .. e
      BY <1>6, <2>1
    <3>2. ps[d + k] = r[k]
      BY <1>9, <1>12, <3>1
    <3> QED
      BY <1>4, <3>1, <3>2
  <2>2. CASE k = e + 1
    <3>1. d + k = d + e + 1 /\ k - 1 = e
      BY <1>6, <2>2
    <3>2. ps[d + k] = z
      BY <1>12, <3>1
    <3>3. PackedBy(k - 1, b) = b /\ PackedBy(k, b) = b
      <4>1. e >= Chunks(b) /\ k >= Chunks(b) /\ e \in Nat /\ k \in Nat
        BY <1>1, <2>2
      <4> QED
        BY <1>1, <3>1, <4>1, PackedTo
    <3> QED
      BY <1>5, <3>2, <3>3
  <2>3. k <= e \/ k = e + 1
    OBVIOUS
  <2> QED
    BY <2>1, <2>2, <2>3
<1>15. Parts(ps, cs, ts, d)
  BY <1>1, <1>12, <1>13, <1>14 DEF Parts
<1> QED
  BY <1>7, <1>13, <1>15

LEMMA PackedRises ==
  ASSUME NEW n \in Nat, NEW i \in Nat, NEW j \in Nat, i <= j
  PROVE  PackedBy(i, n) <= PackedBy(j, n)
<1>1. PICK m \in Nat : m = msgs_per_packet
  BY Constants
<1>2. i * m <= j * m
  BY Multiples
<1>3. PICK x, y \in Nat : x = i * m /\ y = j * m
  OBVIOUS
<1>4. /\ PackedBy(i, n) = IF x < n THEN x ELSE n
      /\ PackedBy(j, n) = IF y < n THEN y ELSE n
  BY <1>1, <1>3 DEF PackedBy
<1> QED
  BY <1>2, <1>3, <1>4

\* The messages in front of packet j.
Numbers(ps, cs, ts, d, l) ==
  [j \in 1 .. Len(ps) + 1 |->
     IF j <= d + 1 THEN PackedBy(j - 1, Len(cs)) ELSE l + PackedBy(j - 1 - d, Len(ts))]

LEMMA LaidOut ==
  ASSUME NEW cs \in Seq(Kinds), NEW ts \in Seq(Kinds), NEW d \in 0 .. Chunks(Len(cs)), NEW ps,
         Parts(ps, cs, ts, d), NEW l, l = PackedBy(d, Len(cs)), kept = l, Joins(cs, ts, l),
         NEW at, Fronts(ps, at), at[d + 1] = tail_start
  PROVE  Layout(ps, Numbers(ps, cs, ts, d, l), at, d)
<1>1. PICK a, b, c, e \in Nat : a = Len(cs) /\ b = Len(ts) /\ c = Chunks(a) /\ e = Chunks(b)
  <2>1. Len(cs) \in Nat /\ Len(ts) \in Nat
    OBVIOUS
  <2> QED
    BY <2>1, ChunkBounds
<1>2. d \in Nat /\ d <= c /\ d \in 0 .. c
  BY <1>1
<1>3. PICK n \in Nat : n = Len(ps) /\ n = d + e + 1
  BY <1>1, <1>2 DEF Parts
<1>4. /\ \A k \in 1 .. d : IsPart(ps[k], cs, PackedBy(k - 1, a), PackedBy(k, a))
      /\ \A k \in 1 .. e + 1 : IsPart(ps[d + k], ts, PackedBy(k - 1, b), PackedBy(k, b))
  BY <1>1 DEF Parts
<1>5. PICK A, B : /\ A = [k \in Nat |-> PackedBy(k, a)] /\ B = [k \in Nat |-> PackedBy(k, b)]
  OBVIOUS
<1>6. A \in [Nat -> Nat] /\ A[0] = 0 /\ A[d] = l /\ \A k \in 1 .. c : A[k - 1] < A[k]
  <2>1. ASSUME NEW k \in 1 .. c PROVE A[k - 1] < A[k]
    <3>1. k \in Nat /\ k - 1 \in Nat
      OBVIOUS
    <3>2. PackedBy(k - 1, a) < PackedBy(k, a)
      BY <1>1, PackedTo
    <3> QED
      BY <1>5, <3>1, <3>2
  <2>2. \A k \in Nat : PackedBy(k, a) \in Nat
    BY <1>1, PackedTo
  <2>3. PackedBy(0, a) = 0 /\ PackedBy(d, a) = l
    BY <1>1, PackedTo
  <2> QED
    BY <1>2, <1>5, <2>1, <2>2, <2>3
<1>7. /\ B \in [Nat -> Nat] /\ B[0] = 0 /\ B[e] = b /\ B[e + 1] = b
      /\ \A k \in 1 .. e : B[k - 1] < B[k]
  <2>1. ASSUME NEW k \in 1 .. e PROVE B[k - 1] < B[k]
    <3>1. k \in Nat /\ k - 1 \in Nat
      OBVIOUS
    <3>2. PackedBy(k - 1, b) < PackedBy(k, b)
      BY <1>1, PackedTo
    <3> QED
      BY <1>5, <3>1, <3>2
  <2>2. \A k \in Nat : PackedBy(k, b) \in Nat
    BY <1>1, PackedTo
  <2>3. PackedBy(0, b) = 0
    BY <1>1, PackedTo
  <2>4. PackedBy(e, b) = b /\ PackedBy(e + 1, b) = b
    <3>1. e >= Chunks(b) /\ e + 1 >= Chunks(b) /\ e + 1 \in Nat
      BY <1>1
    <3> QED
      BY <1>1, <3>1, PackedTo
  <2>5. B \in [Nat -> Nat]
    BY <1>5, <2>2
  <2>6. B[0] = 0 /\ B[e] = b /\ B[e + 1] = b
    <3>1. 0 \in Nat /\ e + 1 \in Nat
      OBVIOUS
    <3> QED
      BY <1>5, <2>3, <2>4, <3>1
  <2> QED
    BY <2>1, <2>5, <2>6
<1>8. l \in Nat
  BY <1>2, <1>6
\* The parts of either session.
<1>9. ASSUME NEW k \in 1 .. d
      PROVE  /\ ps[k] \in Sound /\ ps[k].seq = 1 + A[k - 1] /\ Len(ps[k].lens) = A[k] - A[k - 1]
             /\ A[k - 1] < A[k] /\ A[k - 1] \in Nat /\ A[k] \in Nat
             /\ \A i \in 1 .. A[k] - A[k - 1] : ps[k].lens[i] = cs[A[k - 1] + i].len
  <2>1. k \in Nat /\ k - 1 \in Nat /\ k \in 1 .. c
    BY <1>2
  <2>2. A[k - 1] = PackedBy(k - 1, a) /\ A[k] = PackedBy(k, a)
    BY <1>5, <2>1
  <2>3. IsPart(ps[k], cs, A[k - 1], A[k])
    BY <1>4, <2>2
  <2> QED
    BY <1>6, <2>1, <2>3 DEF IsPart
<1>10. ASSUME NEW k \in 1 .. e + 1
       PROVE  /\ ps[d + k] \in Sound /\ ps[d + k].seq = 1 + B[k - 1]
              /\ Len(ps[d + k].lens) = B[k] - B[k - 1]
              /\ k <= e => B[k - 1] < B[k]
              /\ k = e + 1 => B[k - 1] = b /\ B[k] = b
              /\ B[k - 1] \in Nat /\ B[k] \in Nat
              /\ \A i \in 1 .. B[k] - B[k - 1] : ps[d + k].lens[i] = ts[B[k - 1] + i].len
  <2>1. k \in Nat /\ k - 1 \in Nat /\ (k <= e => k \in 1 .. e) /\ (k = e + 1 => k - 1 = e)
    OBVIOUS
  <2>2. B[k - 1] = PackedBy(k - 1, b) /\ B[k] = PackedBy(k, b)
    BY <1>5, <2>1
  <2>3. IsPart(ps[d + k], ts, B[k - 1], B[k])
    BY <1>4, <2>2
  <2>4. k <= e => B[k - 1] < B[k]
    BY <1>7, <2>1
  <2>5. k = e + 1 => B[k - 1] = b /\ B[k] = b
    BY <1>7, <2>1
  <2>6. B[k - 1] \in Nat /\ B[k] \in Nat
    BY <1>7, <2>1
  <2> QED
    BY <2>3, <2>4, <2>5, <2>6 DEF IsPart
\* The messages in front of them.
<1>11. PICK first : first = Numbers(ps, cs, ts, d, l)
  OBVIOUS
<1>12. first = [j \in 1 .. n + 1 |-> IF j <= d + 1 THEN PackedBy(j - 1, a)
                                     ELSE l + PackedBy(j - 1 - d, b)]
  BY <1>1, <1>3, <1>11 DEF Numbers
<1>13. ASSUME NEW k \in 0 .. d PROVE first[k + 1] = A[k] /\ k + 1 \in 1 .. n + 1
  <2>1. k + 1 \in 1 .. n + 1 /\ k + 1 <= d + 1 /\ (k + 1) - 1 = k /\ k \in Nat
    BY <1>2, <1>3
  <2> QED
    BY <1>5, <1>12, <2>1
<1>14. ASSUME NEW k \in 0 .. e + 1 PROVE first[d + 1 + k] = l + B[k] /\ d + 1 + k \in 1 .. n + 1
  <2>1. CASE k = 0
    <3>1. d \in 0 .. d /\ d + 1 + k = d + 1
      BY <1>2, <2>1
    <3>2. first[d + 1] = A[d] /\ d + 1 \in 1 .. n + 1
      BY <1>13, <3>1
    <3>3. B[0] = 0 /\ A[d] = l
      BY <1>6, <1>7
    <3>4. l + B[k] = l
      BY <1>8, <2>1, <3>3
    <3> QED
      BY <3>1, <3>2, <3>3, <3>4
  <2>2. CASE k # 0
    <3>1. d + 1 + k \in 1 .. n + 1 /\ ~(d + 1 + k <= d + 1) /\ (d + 1 + k) - 1 - d = k /\ k \in Nat
      BY <1>2, <1>3, <2>2
    <3>2. first[d + 1 + k] = l + PackedBy(k, b)
      BY <1>12, <3>1
    <3> QED
      BY <1>5, <3>1, <3>2
  <2> QED
    BY <2>1, <2>2
<1>15. ASSUME NEW j \in 1 .. n + 1 PROVE (\E k \in 0 .. d : j = k + 1) \/ (\E k \in 0 .. e + 1 : j = d + 1 + k)
  <2>1. CASE j <= d + 1
    <3>1. j - 1 \in 0 .. d /\ j = (j - 1) + 1
      BY <2>1
    <3> QED
      BY <3>1
  <2>2. CASE j > d + 1
    <3>1. j - d - 1 \in 0 .. e + 1 /\ j = d + 1 + (j - d - 1)
      BY <1>2, <1>3, <2>2
    <3> QED
      BY <3>1
  <2> QED
    BY <1>2, <2>1, <2>2
<1>16. first \in [1 .. n + 1 -> Nat]
  <2>1. \A j \in 1 .. n + 1 : first[j] \in Nat
    <3>1. SUFFICES ASSUME NEW j \in 1 .. n + 1 PROVE first[j] \in Nat
      OBVIOUS
    <3>2. CASE \E k \in 0 .. d : j = k + 1
      <4>1. PICK k \in 0 .. d : j = k + 1
        BY <3>2
      <4>2. first[j] = A[k] /\ k \in Nat
        BY <1>13, <4>1
      <4>3. A[k] \in Nat
        BY <1>6, <4>2
      <4> QED
        BY <4>2, <4>3
    <3>3. CASE \E k \in 0 .. e + 1 : j = d + 1 + k
      <4>1. PICK k \in 0 .. e + 1 : j = d + 1 + k
        BY <3>3
      <4>2. first[j] = l + B[k] /\ k \in Nat
        BY <1>14, <4>1
      <4>3. B[k] \in Nat
        BY <1>7, <4>2
      <4> QED
        BY <1>8, <4>2, <4>3
    <3> QED
      BY <1>15, <3>2, <3>3
  <2>2. first = [j \in 1 .. n + 1 |-> first[j]]
    BY <1>12
  <2> QED
    BY <2>1, <2>2
\* One packet after the other.
<1>17. ASSUME NEW j \in 1 .. n
       PROVE  (j \in 1 .. d) \/ (\E k \in 1 .. e + 1 : j = d + k)
  <2>1. CASE j <= d
    BY <2>1
  <2>2. CASE j > d
    <3>1. j - d \in 1 .. e + 1 /\ j = d + (j - d)
      BY <1>2, <1>3, <2>2
    <3> QED
      BY <3>1
  <2> QED
    BY <1>2, <2>1, <2>2
<1>18. ASSUME NEW j \in 1 .. n
       PROVE  /\ ps[j] \in Sound /\ first[j + 1] = first[j] + Len(ps[j].lens)
              /\ \A i \in 1 .. Len(ps[j].lens) : ps[j].lens[i] = messages[first[j] + i].len
              /\ j < n => Len(ps[j].lens) > 0
              /\ j = n => Len(ps[j].lens) = 0
              /\ j < n => (ps[j + 1].seq = Due(ps[j]) <=> j # d)
  <2>1. CASE j \in 1 .. d
    <3>1. PICK x, y \in Nat : x = A[j - 1] /\ y = A[j] /\ x < y
      BY <1>9, <2>1
    <3>2. /\ ps[j] \in Sound /\ ps[j].seq = 1 + x /\ Len(ps[j].lens) = y - x
          /\ \A i \in 1 .. y - x : ps[j].lens[i] = cs[x + i].len
      BY <1>9, <2>1, <3>1
    <3>3. first[j] = x /\ first[j + 1] = y
      <4>1. j - 1 \in 0 .. d /\ j \in 0 .. d /\ (j - 1) + 1 = j
        BY <1>2, <2>1
      <4> QED
        BY <1>13, <3>1, <4>1
    <3>4. y <= l
      <4>1. j \in Nat /\ a \in Nat /\ j <= d
        BY <1>1, <2>1
      <4>2. PackedBy(j, a) <= PackedBy(d, a)
        BY <1>2, <4>1, PackedRises
      <4> QED
        BY <1>1, <1>5, <3>1, <4>1, <4>2
    <3>5. \A i \in 1 .. y - x : ps[j].lens[i] = messages[x + i].len
      <4>1. \A i \in 1 .. y - x : x + i \in 1 .. l
        BY <1>8, <3>4
      <4> QED
        BY <3>2, <4>1 DEF Joins
    <3>6. Due(ps[j]) = 1 + y /\ y - x > 0 /\ y = x + (y - x) /\ y > 0
      <4>1. (1 + x) + (y - x) = 1 + y /\ y - x > 0 /\ y = x + (y - x) /\ y > 0
        BY <3>1
      <4> QED
        BY <3>2, <4>1 DEF Due
    <3>7. j < n
      BY <1>2, <1>3, <2>1
    <3>8. ps[j + 1].seq = Due(ps[j]) <=> j # d
      <4>1. CASE j = d
        <5>1. 1 \in 1 .. e + 1 /\ 1 - 1 = 0 /\ d + 1 = j + 1
          BY <1>1, <4>1
        <5>2. ps[d + 1].seq = 1 + B[0]
          BY <1>10, <5>1
        <5>3. ps[j + 1].seq = 1
          <6>1. B[0] = 0
            BY <1>7
          <6>2. ps[j + 1].seq = 1 + 0
            BY <5>1, <5>2, <6>1, Zenon
          <6> QED
            BY <6>2
        <5> QED
          BY <3>1, <3>6, <4>1, <5>3
      <4>2. CASE j # d
        <5>1. j + 1 \in 1 .. d /\ (j + 1) - 1 = j
          BY <1>2, <2>1, <4>2
        <5>2. ps[j + 1].seq = 1 + A[j]
          BY <1>9, <5>1
        <5> QED
          BY <3>1, <3>6, <4>2, <5>2
      <4> QED
        BY <4>1, <4>2
    <3>9. j # n
      BY <3>7
    <3> QED
      BY <3>2, <3>3, <3>5, <3>6, <3>7, <3>8, <3>9
  <2>2. CASE \E k \in 1 .. e + 1 : j = d + k
    <3>1. PICK k \in 1 .. e + 1 : j = d + k
      BY <2>2
    <3>2. PICK x, y \in Nat : x = B[k - 1] /\ y = B[k] /\ (k <= e => x < y)
                              /\ (k = e + 1 => x = b /\ y = b)
      BY <1>10
    <3>3. /\ ps[j] \in Sound /\ ps[j].seq = 1 + x /\ Len(ps[j].lens) = y - x
          /\ \A i \in 1 .. y - x : ps[j].lens[i] = ts[x + i].len
      BY <1>10, <3>1, <3>2
    <3>4. first[j] = l + x /\ first[j + 1] = l + y
      <4>1. k - 1 \in 0 .. e + 1 /\ k \in 0 .. e + 1 /\ d + 1 + (k - 1) = j /\ d + 1 + k = j + 1
        BY <1>2, <3>1
      <4> QED
        BY <1>14, <3>2, <4>1
    <3>5. k <= e \/ k = e + 1
      OBVIOUS
    <3>6. x <= y /\ y <= b
      <4>1. y <= b
        <5>1. k \in Nat
          OBVIOUS
        <5>2. PackedBy(k, b) <= b
          BY <1>1, <5>1, PackedTo
        <5> QED
          BY <1>5, <3>2, <5>1, <5>2
      <4> QED
        BY <3>2, <3>5, <4>1
    <3>7. \A i \in 1 .. y - x : ps[j].lens[i] = messages[(l + x) + i].len
      <4>1. \A i \in 1 .. y - x : x + i \in 1 .. b /\ (l + x) + i = l + (x + i)
        BY <1>8, <3>6
      <4>2. \A i \in 1 .. b : messages[l + i] = ts[i]
        BY <1>1 DEF Joins
      <4> QED
        BY <3>3, <4>1, <4>2
    <3>8. Due(ps[j]) = 1 + y /\ l + y = (l + x) + (y - x)
      <4>1. (1 + x) + (y - x) = 1 + y /\ l + y = (l + x) + (y - x)
        BY <1>8, <3>2
      <4> QED
        BY <3>3, <4>1 DEF Due
    <3>9. (j < n <=> k <= e) /\ (j = n <=> k = e + 1) /\ j # d
      BY <1>2, <1>3, <3>1
    <3>10. k <= e => ps[j + 1].seq = Due(ps[j])
      <4>1. SUFFICES ASSUME k <= e PROVE ps[j + 1].seq = Due(ps[j])
        OBVIOUS
      <4>2. k + 1 \in 1 .. e + 1 /\ (k + 1) - 1 = k /\ d + (k + 1) = j + 1
        BY <1>2, <3>1, <4>1
      <4>3. ps[d + (k + 1)].seq = 1 + B[(k + 1) - 1]
        BY <1>10, <4>2
      <4> QED
        BY <3>2, <3>8, <4>2, <4>3
    <3>11. (j < n => Len(ps[j].lens) > 0) /\ (j = n => Len(ps[j].lens) = 0)
      <4>1. (k <= e => y - x > 0) /\ (k = e + 1 => y - x = 0)
        BY <3>2
      <4> QED
        BY <3>3, <3>9, <4>1
    <3> QED
      BY <3>3, <3>4, <3>7, <3>8, <3>9, <3>10, <3>11
  <2> QED
    BY <1>17, <2>1, <2>2
<1>19. /\ at \in [1 .. n + 1 -> Nat] /\ at[1] = 0
       /\ \A j \in 1 .. n : at[j + 1] = at[j] + Size(ps[j])
  BY <1>3 DEF Fronts
<1>20. \A i, j \in 1 .. n + 1 : i <= j => first[i] <= first[j]
  <2>1. ASSUME NEW j \in 1 .. n PROVE first[j] <= first[j + 1]
    <3>1. j \in 1 .. n + 1 /\ j + 1 \in 1 .. n + 1
      BY <1>3
    <3>2. PICK x, y \in Nat : x = first[j] /\ y = first[j + 1]
      BY <1>16, <3>1
    <3>3. PICK w : w = Len(ps[j].lens) /\ w \in Nat
      <4>1. ps[j] \in Sound
        BY <1>18
      <4> QED
        BY <4>1, Whole
    <3>4. y = x + w
      BY <1>18, <3>2, <3>3
    <3> QED
      BY <3>2, <3>3, <3>4
  <2> QED
    BY <1>16, <2>1, Rising
<1>21. \A i, j \in 1 .. n + 1 : i <= j => at[i] <= at[j]
  <2>1. ASSUME NEW j \in 1 .. n PROVE at[j] <= at[j + 1]
    <3>1. j \in 1 .. n + 1 /\ j + 1 \in 1 .. n + 1
      BY <1>3
    <3>2. PICK x, y \in Nat : x = at[j] /\ y = at[j + 1]
      BY <1>19, <3>1
    <3>3. PICK w : w = Size(ps[j]) /\ w \in Nat
      <4>1. ps[j] \in Sound
        BY <1>18
      <4> QED
        BY <4>1, Whole
    <3>4. y = x + w
      BY <1>19, <3>2, <3>3
    <3> QED
      BY <3>2, <3>3, <3>4
  <2> QED
    BY <1>19, <2>1, Rising
<1>22. first[1] = 0 /\ first[d + 1] = kept /\ first[n + 1] = Len(messages)
  <2>1. 0 \in 0 .. d /\ d \in 0 .. d /\ e + 1 \in 0 .. e + 1 /\ 0 + 1 = 1 /\ d + 1 + (e + 1) = n + 1
    BY <1>1, <1>2, <1>3
  <2>2. first[0 + 1] = A[0] /\ first[d + 1] = A[d] /\ first[d + 1 + (e + 1)] = l + B[e + 1]
    BY <1>13, <1>14, <2>1
  <2>3. Len(messages) = l + b
    BY <1>1 DEF Joins
  <2> QED
    BY <1>6, <1>7, <2>1, <2>2, <2>3
<1>23. d \in 0 .. n - 1 /\ ps \in Seq(Sound) /\ n \in 1 .. n
  BY <1>2, <1>3 DEF Parts
<1>24. Layout(ps, first, at, d)
  <2>1. Len(ps[n].lens) = 0
    BY <1>18, <1>23
  <2> QED
    BY <1>3, <1>16, <1>18, <1>19, <1>20, <1>21, <1>22, <1>23, <2>1 DEF Layout
<1> QED
  BY <1>11, <1>24

-----------------------------------------------------------------------------
(* The invariant.                                                           *)

Followed(ps, first, at, d, s) ==
  /\ Layout(ps, first, at, d) /\ PlaceInv(ps, first, at) /\ GapsInv(ps, d)
  /\ Sums(messages, s) /\ SumInv(s)

Streaming ==
  /\ MessagesInv /\ CountInv /\ LateInv /\ IdleInv
  /\ \E ps, first, at, d, s : Followed(ps, first, at, d, s)

FuzzInv ==
  /\ phase \in {"build", "feed", "done"}
  /\ phase = "build" => Init
  /\ phase # "build" => Streaming
  /\ phase = "done" => net = << >>

LEMMA ByteKeeps == Streaming /\ FeedByte => Streaming'
<1>1. SUFFICES ASSUME Streaming, FeedByte PROVE Streaming'
  OBVIOUS
<1>2. MessagesInv /\ CountInv /\ LateInv /\ IdleInv
  BY <1>1 DEF Streaming
<1>3. PICK ps, first, at, d, s : Followed(ps, first, at, d, s)
  BY <1>1 DEF Streaming
<1>4. /\ Layout(ps, first, at, d) /\ PlaceInv(ps, first, at) /\ GapsInv(ps, d)
      /\ Sums(messages, s) /\ SumInv(s)
  BY <1>3 DEF Followed
<1>5. messages' = messages /\ kept' = kept
  BY <1>1 DEF FeedByte, script
<1>6. MessagesInv'
  BY <1>2, <1>5 DEF MessagesInv
<1>7. CountInv'
  BY <1>1, <1>2, <1>4, CountKeeps
<1>8. LateInv'
  BY <1>1, <1>2, <1>4, LateKeeps
<1>9. IdleInv'
  BY <1>1, <1>2, <1>4, IdleKeeps
<1>10. Layout(ps, first, at, d)' /\ PlaceInv(ps, first, at)'
  <2>1. PICK p, n, k : p = Head(net) /\ n = sent /\ k = Here(ps)
    OBVIOUS
  <2> QED
    BY <1>1, <1>4, <2>1, PlaceKeeps
<1>11. GapsInv(ps, d)'
  BY <1>1, <1>4, GapsKeep
<1>12. SumInv(s)'
  BY <1>1, <1>2, <1>4, SumKeeps
<1>13. Sums(messages, s)'
  BY <1>4, <1>5
<1>14. Followed(ps, first, at, d, s)'
  BY <1>10, <1>11, <1>12, <1>13 DEF Followed
<1>15. \E qs, f, a, e, z : Followed(qs, f, a, e, z)'
  BY <1>14, Zenon
<1> QED
  BY <1>6, <1>7, <1>8, <1>9, <1>15 DEF Streaming

\* All of it is about what the end of the loop leaves alone.
Kept == <<framerVars, script, net, sent, taken, consumed, pending, age, pending_tail, msgs_seen,
          updates_before_tail, updates_after_tail, tail_updates, idle, hang_detected>>

LEMMA Stays == Streaming /\ UNCHANGED Kept => Streaming'
<1>1. SUFFICES ASSUME Streaming, UNCHANGED Kept PROVE Streaming'
  OBVIOUS
<1>2. MessagesInv /\ CountInv /\ LateInv /\ IdleInv
  BY <1>1 DEF Streaming
<1>3. PICK ps, first, at, d, s : Followed(ps, first, at, d, s)
  BY <1>1 DEF Streaming
<1>4. /\ Layout(ps, first, at, d) /\ PlaceInv(ps, first, at) /\ GapsInv(ps, d)
      /\ Sums(messages, s) /\ SumInv(s)
  BY <1>3 DEF Followed
<1>5. /\ UNCHANGED <<state, hdr_cnt, seq_reg, expected_seq, first_pkt, gap_count, end_of_session,
                     count_reg, msg_len_reg, body_cnt, malformed_count>>
      /\ UNCHANGED <<messages, kept, tail_start, net, sent, taken, consumed>>
      /\ UNCHANGED <<pending, age, pending_tail, msgs_seen, updates_before_tail,
                     updates_after_tail, tail_updates, idle, hang_detected>>
  BY <1>1 DEF Kept, framerVars, header, script
<1>6. MessagesInv'
  BY <1>2, <1>5 DEF MessagesInv
<1>7. CountInv'
  BY <1>2, <1>5 DEF CountInv, OfLength
<1>8. LateInv' /\ IdleInv'
  BY <1>2, <1>5 DEF LateInv, IdleInv
<1>9. Layout(ps, first, at, d)'
  BY <1>4, <1>5 DEF Layout
<1>10. Link!Place'
  <2>1. Link!Place
    BY <1>4 DEF PlaceInv
  <2> QED
    BY <1>5, <2>1 DEF Link!Place, Link!Stands, Link!InSession, Link!InSeq, Link!InCount,
                      Link!InLength, Link!InBody, Link!Current
<1>11. PlaceInv(ps, first, at)'
  BY <1>4, <1>5, <1>10 DEF PlaceInv, Here
<1>12. GapsInv(ps, d)'
  BY <1>4, <1>5 DEF GapsInv, Judged, Here
<1>13. Sums(messages, s)' /\ SumInv(s)'
  BY <1>4, <1>5 DEF SumInv
<1>14. Followed(ps, first, at, d, s)'
  BY <1>9, <1>11, <1>12, <1>13 DEF Followed
<1>15. \E qs, f, a, e, z : Followed(qs, f, a, e, z)'
  BY <1>14, Zenon
<1> QED
  BY <1>6, <1>7, <1>8, <1>15 DEF Streaming

LEMMA KeepIs ==
  ASSUME NEW n \in Nat, NEW keep \in Keep(n)
  PROVE  keep \in 0 .. n
<1>1. CASE n > 1
  <2>1. keep \in (IF n \div 2 > 1 THEN n \div 2 ELSE 1) .. n - 1
    BY <1>1 DEF Keep
  <2>2. CASE n \div 2 > 1
    <3>1. PICK h : h = n \div 2
      OBVIOUS
    <3>2. h \in Int
      BY <3>1
    <3>3. keep \in h .. n - 1 /\ h > 1
      BY <2>1, <2>2, <3>1
    <3> QED
      BY <3>2, <3>3
  <2>3. CASE ~(n \div 2 > 1)
    <3>1. keep \in 1 .. n - 1
      BY <2>1, <2>3
    <3> QED
      BY <3>1
  <2> QED
    BY <2>2, <2>3
<1>2. CASE ~(n > 1)
  BY <1>2 DEF Keep
<1> QED
  BY <1>1, <1>2

\* The stream has been built, and no byte of it taken.
Fresh ==
  /\ FramerInit /\ sent = 0 /\ taken = 0 /\ consumed = 0
  /\ pending = 0 /\ age = 0 /\ pending_tail = FALSE
  /\ msgs_seen = 0 /\ updates_before_tail = 0 /\ updates_after_tail = 0
  /\ tail_updates = 0 /\ idle = 0 /\ hang_detected = FALSE

Built ==
  /\ Fresh
  /\ \E n_dirty \in 0 .. MaxDirty, n_tail \in 0 .. MaxTail :
     \E corrupted \in [1 .. n_dirty -> Dirty], tail \in [1 .. n_tail -> Generated],
        keep \in Keep(Chunks(n_dirty)) :
       LET dirty_buf == SubSeq(PackPackets(corrupted, 1), 1, keep)
           left == PackedBy(keep, n_dirty)
       IN  /\ messages = SubSeq(corrupted, 1, left) \o tail
           /\ kept = left
           /\ net = dirty_buf \o PackPackets(tail, TailSeq(left))
                    \o <<EndOfSessionPacket(TailSeq(left) + n_tail)>>
           /\ tail_start = ByteCount(dirty_buf)

LEMMA BuildMakes == Init /\ Build => Built'
<1>1. SUFFICES ASSUME Init, Build PROVE Built'
  OBVIOUS
<1>2. Fresh'
  BY <1>1 DEF Init, Build, Fresh, FramerInit, framerVars, header
<1>3. PICK n_dirty \in 0 .. MaxDirty, n_tail \in 0 .. MaxTail :
       \E corrupted \in [1 .. n_dirty -> Dirty], tail \in [1 .. n_tail -> Generated],
          keep \in Keep(Chunks(n_dirty)) :
         LET dirty_buf == SubSeq(PackPackets(corrupted, 1), 1, keep)
             left == PackedBy(keep, n_dirty)
         IN  /\ messages' = SubSeq(corrupted, 1, left) \o tail
             /\ kept' = left
             /\ net' = dirty_buf \o PackPackets(tail, TailSeq(left))
                       \o <<EndOfSessionPacket(TailSeq(left) + n_tail)>>
             /\ tail_start' = ByteCount(dirty_buf)
  BY <1>1, Zenon DEF Build
<1> QED
  BY <1>2, <1>3, Zenon DEF Built

\* The harness stands in front of the first byte.
LEMMA StartsFollowed ==
  ASSUME NEW ps, NEW first, NEW at, NEW d, NEW s, Fresh, MessagesInv, Layout(ps, first, at, d),
         net = ps, Sums(messages, s)
  PROVE  Streaming
<1>1. /\ FramerInit /\ sent = 0 /\ taken = 0 /\ consumed = 0
      /\ pending = 0 /\ age = 0 /\ pending_tail = FALSE
      /\ msgs_seen = 0 /\ updates_before_tail = 0 /\ updates_after_tail = 0
      /\ tail_updates = 0 /\ idle = 0 /\ hang_detected = FALSE
  BY DEF Fresh
<1>2. PICK n \in Nat : n = Len(ps)
  BY DEF Layout
<1>3. /\ ps \in Seq(Sound) /\ first[1] = 0 /\ at[1] = 0 /\ d \in 0 .. n - 1 /\ at[d + 1] = tail_start
      /\ at \in [1 .. n + 1 -> Nat]
  BY <1>2 DEF Layout
<1>4. n >= 1 /\ ps # << >> /\ Here(ps) = 1 /\ Head(ps) \in Sound
  <2>1. n >= 1
    BY <1>3
  <2>2. ps # << >>
    BY <1>2, <1>3, <2>1
  <2>3. Here(ps) = n - n + 1
    BY <1>2 DEF Here
  <2>4. Head(ps) \in Sound
    BY <1>3, <2>2
  <2> QED
    BY <2>1, <2>2, <2>3, <2>4
<1>5. Hdr \in Nat /\ Hdr > 2 /\ EndedBy(Head(ps), 0) = 0 /\ Since(Head(ps), 0) = 0
  <2>1. Hdr \in Nat /\ Hdr > 2
    BY <1>4, Whole
  <2>2. 0 \in Nat /\ 0 <= Hdr
    BY <2>1
  <2>3. EndedBy(Head(ps), 0) = 0 /\ Since(Head(ps), 0) = 0
    BY <1>4, <2>2, Whole
  <2> QED
    BY <2>1, <2>3
<1>6. CountInv
  <2>1. OfLength(TRUE) = {} /\ OfLength(FALSE) = {}
    BY <1>1 DEF OfLength
  <2>2. Cardinality({}) = 0
    BY FS_EmptySet
  <2> QED
    BY <1>1, <2>1, <2>2 DEF CountInv, FramerInit
<1>7. LateInv
  <2>1. pending \in Nat /\ age \in Nat
    BY <1>1
  <2>2. pending_tail \in BOOLEAN
    <3>1. pending_tail = FALSE
      BY <1>1
    <3> QED
      BY <3>1, Zenon
  <2>3. ~(pending > 0)
    BY <1>1
  <2> QED
    BY <2>1, <2>2, <2>3, Zenon DEF LateInv
<1>8. IdleInv
  <2>1. Since(Head(net), sent) = 0
    BY <1>1, <1>5
  <2> QED
    BY <1>1, <2>1 DEF IdleInv
<1>9. PlaceInv(ps, first, at)
  <2>1. Link!Place
    BY <1>1, Widths DEF Link!Place, Link!InSession, FramerInit
  <2>2. net \in Seq(Sound) /\ sent \in Nat /\ Len(net) <= Len(ps)
    BY <1>1, <1>2, <1>3
  <2>3. \A i \in 1 .. Len(net) : net[i] = ps[Len(ps) - Len(net) + i]
    <3>1. \A i \in 1 .. n : n - n + i = i
      OBVIOUS
    <3> QED
      BY <1>2, <3>1
  <2>4. taken = first[Here(ps)] + (IF net = << >> THEN 0 ELSE EndedBy(Head(net), sent))
    BY <1>1, <1>3, <1>4, <1>5
  <2>5. consumed = at[Here(ps)] + sent
    BY <1>1, <1>3, <1>4
  <2> QED
    BY <2>1, <2>2, <2>3, <2>4, <2>5 DEF PlaceInv
<1>10. GapsInv(ps, d)
  <2>1. Judged(ps) = 0
    BY <1>1, <1>4, <1>5 DEF Judged
  <2>2. first_pkt = TRUE /\ gap_count = 0
    BY <1>1 DEF FramerInit
  <2>3. ~(Judged(ps) > d)
    BY <1>3, <2>1
  <2> QED
    BY <2>1, <2>2, <2>3 DEF GapsInv
<1>11. SumInv(s)
  <2>1. PICK k, m \in Nat : k = kept /\ m = Len(messages) /\ k <= m
    BY DEF MessagesInv
  <2>2. \A i \in 1 .. m : messages[i].effect \in Nat
    <3>1. \A i \in 1 .. m : messages[i] \in Kinds
      BY <2>1, ElementOfSeq DEF MessagesInv
    <3> QED
      BY <3>1 DEF Kinds
  <2>3. LastEffect(messages, 0) \in Nat /\ LastEffect(messages, k) \in Nat
    <3>1. 0 \in 0 .. m /\ k \in 0 .. m
      BY <2>1
    <3> QED
      BY <2>2, <3>1, LastEffectIs
  <2>4. s[0] = 0
    BY DEF Sums
  <2>5. taken <= kept
    BY <1>1, <2>1
  <2>6. tail_start \in Nat
    <3>1. d + 1 \in 1 .. n + 1
      BY <1>3
    <3> QED
      BY <1>3, <3>1
  <2>7. updates_before_tail + updates_after_tail + pending = s[taken]
    BY <1>1, <2>4
  <2>8. taken <= kept => pending <= LastEffect(messages, taken)
    BY <1>1, <2>3
  <2>9. updates_after_tail + (IF pending_tail THEN 0 ELSE pending)
        <= tail_updates + LastEffect(messages, kept)
    BY <1>1, <2>1, <2>3
  <2>10. ~pending_tail
    BY <1>1
  <2> QED
    BY <1>1, <2>5, <2>7, <2>8, <2>9, <2>10 DEF SumInv
<1>12. Followed(ps, first, at, d, s)
  BY <1>9, <1>10, <1>11 DEF Followed
<1> QED
  BY <1>6, <1>7, <1>8, <1>12, Zenon DEF Streaming

LEMMA BuiltStreams == Built => Streaming
<1>1. SUFFICES ASSUME Built PROVE Streaming
  OBVIOUS
<1>2. Fresh
  BY <1>1 DEF Built
<1>3. PICK a \in 0 .. MaxDirty, b \in 0 .. MaxTail :
       \E corrupted \in [1 .. a -> Dirty], tail \in [1 .. b -> Generated],
          keep \in Keep(Chunks(a)) :
         LET dirty_buf == SubSeq(PackPackets(corrupted, 1), 1, keep)
             left == PackedBy(keep, a)
         IN  /\ messages = SubSeq(corrupted, 1, left) \o tail
             /\ kept = left
             /\ net = dirty_buf \o PackPackets(tail, TailSeq(left))
                      \o <<EndOfSessionPacket(TailSeq(left) + b)>>
             /\ tail_start = ByteCount(dirty_buf)
  BY <1>1, Zenon DEF Built
<1>4. PICK cs \in [1 .. a -> Dirty], ts \in [1 .. b -> Generated], d \in Keep(Chunks(a)) :
        /\ messages = SubSeq(cs, 1, PackedBy(d, a)) \o ts
        /\ kept = PackedBy(d, a)
        /\ net = SubSeq(PackPackets(cs, 1), 1, d) \o PackPackets(ts, 1)
                 \o <<EndOfSessionPacket(1 + b)>>
        /\ tail_start = ByteCount(SubSeq(PackPackets(cs, 1), 1, d))
  BY <1>3, Zenon DEF TailSeq
<1>5. a \in Nat /\ a <= MaxDirty /\ b \in Nat /\ a <= Longer /\ b <= Longer
  BY FuzzAssumption DEF Longer
<1>6. Chunks(a) \in Nat /\ d \in 0 .. Chunks(a) /\ d \in Nat
  <2>1. Chunks(a) \in Nat
    BY <1>5, ChunkBounds
  <2>2. d \in 0 .. Chunks(a)
    BY <2>1, KeepIs
  <2> QED
    BY <2>1, <2>2
<1>7. PICK l \in Nat : l = PackedBy(d, a) /\ l <= a
  BY <1>5, <1>6, PackedTo
<1>8. /\ cs \in Seq(Kinds) /\ Len(cs) = a /\ ts \in Seq(Kinds) /\ Len(ts) = b
      /\ MessagesInv /\ Joins(cs, ts, l)
  <2>1. messages = SubSeq(cs, 1, l) \o ts /\ kept = l
    BY <1>4, <1>7, Zenon
  <2>2. a \in Nat /\ a <= MaxDirty /\ b \in Nat /\ l \in Nat /\ l <= a
    BY <1>5, <1>7, Zenon
  <2>3. cs \in [1 .. a -> Dirty] /\ ts \in [1 .. b -> Generated]
    BY <1>4, Zenon
  <2>4. Drawn(a, b, cs, ts, l)
    BY <2>1, <2>2, <2>3, Zenon DEF Drawn
  <2> QED
    BY <2>4, MadeMessages, Zenon
<1>9. PICK ds, ps : /\ ds = SubSeq(PackPackets(cs, 1), 1, d)
                    /\ ps = ds \o PackPackets(ts, 1) \o <<EndOfSessionPacket(1 + b)>>
  OBVIOUS
<1>10. /\ ds \in Seq(Sound) /\ Len(ds) = d /\ Parts(ps, cs, ts, d)
       /\ \A k \in 1 .. d : ds[k] = ps[k]
  <2>1. Len(cs) <= Longer /\ Len(ts) <= Longer /\ d \in 0 .. Chunks(Len(cs))
    BY <1>5, <1>6, <1>8
  <2>2. ps = ds \o PackPackets(ts, 1) \o <<EndOfSessionPacket(1 + Len(ts))>>
    BY <1>8, <1>9, Zenon
  <2>3. cs \in Seq(Kinds) /\ ts \in Seq(Kinds) /\ ds = SubSeq(PackPackets(cs, 1), 1, d)
    BY <1>8, <1>9, Zenon
  <2>4. Sliced(cs, ts, d, ds, ps)
    BY <2>1, <2>2, <2>3, Zenon DEF Sliced
  <2>5. /\ ds \in Seq(Sound) /\ Len(ds) = d /\ Parts(ps, cs, ts, d)
        /\ \A k \in 1 .. d : ds[k] = ps[k]
    BY <2>4, MadePackets
  <2> QED
    BY <2>5
<1>11. ps \in Seq(Sound) /\ d \in 0 .. Len(ps)
  <2>1. ps \in Seq(Sound) /\ Len(ps) = d + Chunks(b) + 1
    BY <1>8, <1>10 DEF Parts
  <2>2. Chunks(b) \in Nat
    BY <1>5, ChunkBounds
  <2> QED
    BY <1>6, <2>1, <2>2
<1>12. PICK at : Fronts(ps, at) /\ at[d + 1] = ByteCount(ds)
  BY <1>10, <1>11, BytesInFront
<1>13. at[d + 1] = tail_start /\ net = ps
  BY <1>4, <1>9, <1>12
<1>14. Layout(ps, Numbers(ps, cs, ts, d, l), at, d)
  <2>1. kept = l /\ l = PackedBy(d, Len(cs)) /\ d \in 0 .. Chunks(Len(cs))
    BY <1>4, <1>6, <1>7, <1>8
  <2> QED
    BY <1>8, <1>10, <1>12, <1>13, <2>1, LaidOut
<1>15. PICK s : Sums(messages, s)
  BY <1>8, SumsExist DEF MessagesInv, Kinds
<1> QED
  BY <1>2, <1>8, <1>13, <1>14, <1>15, StartsFollowed

LEMMA BuildStreams == Init /\ Build => Streaming'
<1> QED
  BY BuildMakes, BuiltStreams, PTL

LEMMA InvKeeps == FuzzInv /\ [Next]_fuzzVars => FuzzInv'
<1>1. SUFFICES ASSUME FuzzInv, [Next]_fuzzVars PROVE FuzzInv'
  OBVIOUS
<1>2. CASE Build
  <2>1. phase = "build" /\ phase' = "feed"
    BY <1>2 DEF Build
  <2>2. Streaming'
    BY <1>1, <1>2, <2>1, BuildStreams DEF FuzzInv
  <2> QED
    BY <2>1, <2>2 DEF FuzzInv
<1>3. CASE FeedByte
  <2>1. phase = "feed" /\ phase' = "feed"
    BY <1>3 DEF FeedByte
  <2>2. Streaming'
    BY <1>1, <1>3, <2>1, ByteKeeps DEF FuzzInv
  <2> QED
    BY <2>1, <2>2 DEF FuzzInv
<1>4. CASE Report
  <2>1. phase = "feed" /\ phase' = "done" /\ UNCHANGED Kept /\ (net = << >> \/ hang_detected)
    BY <1>4 DEF Report, Kept
  <2>2. Streaming
    BY <1>1, <2>1 DEF FuzzInv
  <2>3. Streaming'
    BY <2>1, <2>2, Stays
  <2>4. net' = << >>
    BY <2>1, <2>2 DEF Streaming, IdleInv, Kept
  <2> QED
    BY <2>1, <2>3, <2>4 DEF FuzzInv
<1>5. CASE UNCHANGED fuzzVars
  <2>1. phase' = phase /\ UNCHANGED Kept /\ net' = net
    BY <1>5 DEF fuzzVars, Kept
  <2>2. CASE phase = "build"
    <3>1. Init
      BY <1>1, <2>2 DEF FuzzInv
    <3>2. Init'
      BY <1>5, <3>1 DEF fuzzVars, Init, FramerInit, framerVars, header, script
    <3> QED
      BY <2>1, <2>2, <3>2 DEF FuzzInv
  <2>3. CASE phase # "build"
    <3>1. Streaming'
      BY <1>1, <2>1, <2>3, Stays DEF FuzzInv
    <3> QED
      BY <1>1, <2>1, <2>3, <3>1 DEF FuzzInv
  <2> QED
    BY <2>2, <2>3
<1> QED
  BY <1>1, <1>2, <1>3, <1>4, <1>5 DEF Next

\* The invariant holds: the place of the next byte, the counters, and the updates
\* counted and under way agree with the packets that build_fuzz_stream made.
THEOREM FuzzInvariant == Spec => []FuzzInv
<1>1. Init => FuzzInv
  BY DEF Init, FuzzInv
<1> QED
  BY <1>1, InvKeeps, PTL DEF Spec

-----------------------------------------------------------------------------
(* The properties.                                                          *)

LEMMA StepFollows == FuzzInv => InStepAtTail
<1>1. SUFFICES ASSUME FuzzInv PROVE InStepAtTail
  OBVIOUS
<1>2. CASE phase = "build"
  <2>1. Init
    BY <1>1, <1>2 DEF FuzzInv
  <2>2. taken = 0 /\ msgs_seen = 0 /\ malformed_count = 0
    BY <2>1 DEF Init, FramerInit
  <2>3. OfLength(TRUE) = {} /\ OfLength(FALSE) = {}
    BY <2>2 DEF OfLength
  <2>4. Cardinality({}) = 0
    BY FS_EmptySet
  <2> QED
    BY <1>2, <2>2, <2>3, <2>4 DEF InStepAtTail
<1>3. CASE phase # "build"
  <2>1. Streaming
    BY <1>1, <1>3 DEF FuzzInv
  <2>2. PICK ps, first, at, d, s : Followed(ps, first, at, d, s)
    BY <2>1 DEF Streaming
  <2>3. Layout(ps, first, at, d) /\ PlaceInv(ps, first, at)
    BY <2>2 DEF Followed
  <2>4. consumed = tail_start => sent = 0
    BY <2>3, Sides
  <2>5. sent = 0 => state = "ST_SESSION" /\ hdr_cnt = 0
    BY <2>3 DEF PlaceInv, Link!Place, Link!InSession
  <2> QED
    BY <2>1, <2>4, <2>5 DEF Streaming, CountInv, InStepAtTail
<1> QED
  BY <1>2, <1>3

\* At the first byte of the tail the framer waits for a session field, and it has
\* framed or counted every message before, however the messages were damaged.
THEOREM InStepAtTheTail == Spec => []InStepAtTail
<1> QED
  BY FuzzInvariant, StepFollows, PTL

LEMMA GapFollows == FuzzInv => GapAtTail
<1>1. SUFFICES ASSUME FuzzInv PROVE GapAtTail
  OBVIOUS
<1>2. CASE phase = "build"
  <2>1. Init
    BY <1>1, <1>2 DEF FuzzInv
  <2>2. gap_count = 0 /\ kept = 0
    BY <2>1 DEF Init, FramerInit
  <2> QED
    BY <2>2 DEF GapAtTail
<1>3. CASE phase # "build"
  <2>1. Streaming
    BY <1>1, <1>3 DEF FuzzInv
  <2>2. PICK ps, first, at, d, s : Followed(ps, first, at, d, s)
    BY <2>1 DEF Streaming
  <2>3. Layout(ps, first, at, d) /\ PlaceInv(ps, first, at) /\ GapsInv(ps, d)
    BY <2>2 DEF Followed
  <2>4. (Judged(ps) > d <=> consumed >= tail_start + Hdr) /\ (d > 0 <=> kept > 0)
    BY <2>3, Sides
  <2>5. gap_count = IF Judged(ps) > d /\ d > 0 THEN 1 ELSE 0
    BY <2>3 DEF GapsInv
  <2>6. tail_start + Hdr = tail_start + SESSION_LEN + SEQ_LEN + COUNT_LEN
    <3>1. tail_start \in Nat
      BY <2>3, Sides
    <3> QED
      BY <3>1, Widths DEF Hdr
  <2> QED
    BY <2>4, <2>5, <2>6 DEF GapAtTail
<1> QED
  BY <1>2, <1>3

\* The number of the tail's first packet is the one gap, wherever the damaged
\* session was cut, and no number inside either session makes another.
THEOREM OneGapAtTheTail == Spec => []GapAtTail
<1> QED
  BY FuzzInvariant, GapFollows, PTL

LEMMA PassFollows == FuzzInv => PassIsDeserved
<1>1. SUFFICES ASSUME FuzzInv, phase = "done"
               PROVE  /\ ~hang_detected
                      /\ tail_updates = SumOf(SubSeq(messages, kept + 1, Len(messages)))
                      /\ updates_before_tail + updates_after_tail = SumOf(messages)
                      /\ updates_after_tail <=
                           tail_updates + IF LastDirty = 0 THEN 0 ELSE messages[LastDirty].effect
                      /\ kept > 0 /\ tail_updates > 0 => Passes
  BY DEF PassIsDeserved
<1>2. Streaming /\ net = << >>
  BY <1>1 DEF FuzzInv
<1>3. MessagesInv /\ CountInv /\ LateInv /\ IdleInv
  BY <1>2 DEF Streaming
<1>4. PICK ps, first, at, d, s : Followed(ps, first, at, d, s)
  BY <1>2 DEF Streaming
<1>5. /\ Layout(ps, first, at, d) /\ PlaceInv(ps, first, at) /\ GapsInv(ps, d)
      /\ Sums(messages, s) /\ SumInv(s)
  BY <1>4 DEF Followed
<1>6. hang_detected = FALSE
  BY <1>3 DEF IdleInv
<1>7. pending = 0
  BY <1>2, <1>3 DEF LateInv
<1>8. /\ consumed \in Nat /\ tail_start \in Nat /\ consumed >= tail_start + Hdr
      /\ taken = Len(messages)
  BY <1>2, <1>5, Sides
<1>9. Hdr \in Nat /\ consumed >= tail_start
  <2>1. Hdr \in Nat
    BY Widths DEF Hdr
  <2> QED
    BY <1>8, <2>1
<1>10. PICK n, k \in Nat : n = Len(messages) /\ k = kept /\ k <= n
  BY <1>3 DEF MessagesInv
<1>11. messages \in Seq([len : Word, effect : Nat])
  BY <1>3 DEF MessagesInv, Kinds
<1>12. SumOf(messages) = s[n]
  BY <1>5, <1>10, SumIs
<1>13. SumOf(SubSeq(messages, k + 1, n)) = s[n] - s[k]
  <2>1. k \in 0 .. Len(messages)
    BY <1>10
  <2> QED
    BY <1>5, <1>10, <1>11, <2>1, SumBehind
<1>14. PICK sn, sk \in Nat : sn = s[n] /\ sk = s[k]
  BY <1>5, <1>10 DEF Sums
<1>15. PICK b, a, y \in Nat : b = updates_before_tail /\ a = updates_after_tail /\ y = tail_updates
  BY <1>5 DEF SumInv
<1>16. b + a = sn
  BY <1>5, <1>7, <1>8, <1>10, <1>14, <1>15 DEF SumInv
<1>17. y = sn - sk
  <2>1. y + 0 = IF n <= k THEN 0 ELSE sn - sk
    BY <1>5, <1>7, <1>8, <1>10, <1>14, <1>15 DEF SumInv
  <2>2. n = k => sn = sk
    BY <1>14
  <2> QED
    BY <1>10, <1>14, <1>15, <2>1, <2>2
<1>18. y <= a /\ a <= y + LastEffect(messages, k)
  <2>1. y <= a /\ a + 0 <= y + LastEffect(messages, k)
    BY <1>5, <1>7, <1>9, <1>10, <1>15 DEF SumInv
  <2> QED
    BY <1>15, <2>1
<1>19. LastEffect(messages, k) = IF LastDirty = 0 THEN 0 ELSE messages[LastDirty].effect
  BY <1>10 DEF LastEffect, LastOf, LastDirty
<1>20. kept > 0 /\ tail_updates > 0 => Passes
  <2>1. SUFFICES ASSUME kept > 0, tail_updates > 0 PROVE Passes
    OBVIOUS
  <2>2. gap_count = 1
    <3>1. Judged(ps) > d /\ d > 0
      BY <1>5, <1>8, <2>1, Sides
    <3> QED
      BY <1>5, <3>1 DEF GapsInv
  <2>3. malformed_count \in Nat
    <3>1. PICK t \in Nat : t = taken
      BY <1>8, <1>10
    <3>2. Empties(messages, t) \in Nat
      BY <3>1, OneMoreMessage
    <3> QED
      BY <1>3, <3>1, <3>2 DEF CountInv, OfLength, Empties, Those
  <2>4. gap_count + malformed_count > 0
    BY <2>2, <2>3
  <2>5. updates_after_tail > 0
    BY <1>15, <1>18, <2>1
  <2> QED
    BY <1>6, <2>4, <2>5 DEF Passes
<1> QED
  BY <1>6, <1>10, <1>12, <1>13, <1>14, <1>15, <1>16, <1>17, <1>18, <1>19, <1>20

\* No stream trips the watchdog, the updates of the tail are all counted behind its
\* first byte, and besides them only those of the last damaged message that
\* reached the table can be.
THEOREM PassesAreDeserved == Spec => []PassIsDeserved
<1> QED
  BY FuzzInvariant, PassFollows, PTL
====
