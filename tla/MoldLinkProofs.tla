--------------------------- MODULE MoldLinkProofs ---------------------------
(***************************************************************************)
(* Theorems about MoldLink, for every width of the fields, every length of *)
(* the messages, every size of packet and number in flight.                *)
(*                                                                         *)
(* The bytes of a packet come from Power, which is recursive, and from     *)
(* FlattenSeq of the community modules, which is a fold.  The first part   *)
(* shows that both have the values their equations promise; from there     *)
(* the argument is one about positions.  LinkInv has five parts:           *)
(*   PacketsInv  the writer's numbers and the packets on the wire          *)
(*   Place       the field of the first packet in which the framer stands  *)
(*   RunInv      the bytes of the message under way that were passed on    *)
(*   GapInv      gaps counted, and places on the wire where the numbers do *)
(*               not go on, are at most three for each fault               *)
(*   DueInv      until a gap is counted the next number is the one due     *)
(* The last part shows that every step of the link is a step of MoldStream.*)
(***************************************************************************)
EXTENDS MCMoldLink, SequenceTheorems, FiniteSetTheorems, WellFoundedInduction, TLAPS

-----------------------------------------------------------------------------
(* Induction and recursion on the natural numbers.                          *)

\* A set that has zero and every successor is all there is.
LEMMA EveryNumber ==
  ASSUME NEW W \in SUBSET Nat, 0 \in W, \A n \in W : n + 1 \in W
  PROVE  W = Nat
<1>1. SUFFICES ASSUME Nat \ W # {} PROVE FALSE
  OBVIOUS
<1>2. PICK n \in Nat \ W : \A m \in Nat \ W : <<m, n>> \notin OpToRel(<, Nat)
  <2>1. Nat \ W \subseteq Nat
    OBVIOUS
  <2> QED
    BY <1>1, <2>1, WFMin, NatLessThanWellFounded
<1>3. \A m \in Nat \ W : ~(m < n)
  BY <1>2, Zenon DEF OpToRel
<1>4. n \in Nat /\ n \notin W /\ n # 0
  OBVIOUS
<1>5. n - 1 \in Nat /\ n - 1 < n /\ (n - 1) + 1 = n
  BY <1>4
<1>6. n - 1 \in W
  BY <1>3, <1>5
<1> QED
  BY <1>4, <1>5, <1>6

\* The first n + 1 values of a recursive function.
Approx(a, step, n) ==
  {g \in [0 .. n -> DOMAIN step] :
     g[0] = a /\ \A m \in 1 .. n : g[m] = step[g[m - 1]][m]}

\* f starts at a and is continued by step.
Unrolls(f, T, a, step) ==
  f \in [Nat -> T] /\ f[0] = a /\ \A n \in Nat : f[n + 1] = step[f[n]][n + 1]

\* Functions can be defined by recursion: a value, and what the next number
\* makes of it.
LEMMA Recursion ==
  ASSUME NEW T, NEW a \in T, NEW step \in [T -> [Nat -> T]]
  PROVE  \E f : Unrolls(f, T, a, step)
<1> DEFINE A(n) == Approx(a, step, n)
           W == {n \in Nat : A(n) # {}}
<1>1. W = Nat
  <2>1. 0 \in W
    <3>1. [m \in 0 .. 0 |-> a] \in A(0)
      BY DEF Approx
    <3> QED
      BY <3>1
  <2>2. ASSUME NEW n \in W PROVE n + 1 \in W
    <3>1. PICK g \in A(n) : TRUE
      BY <2>2
    <3>2. n \in Nat /\ g \in [0 .. n -> T] /\ g[0] = a
          /\ \A m \in 1 .. n : g[m] = step[g[m - 1]][m]
      BY <2>2, <3>1 DEF Approx
    <3>3. PICK h : h = [m \in 0 .. n + 1 |-> IF m <= n THEN g[m] ELSE step[g[n]][n + 1]]
      OBVIOUS
    <3>4. n \in 0 .. n /\ 0 \in 0 .. n /\ g[n] \in T
      BY <3>2
    <3>5. h \in [0 .. n + 1 -> T] /\ h[0] = a
      <4>1. step[g[n]][n + 1] \in T
        BY <3>2, <3>4
      <4> QED
        BY <3>2, <3>3, <3>4, <4>1
    <3>6. ASSUME NEW m \in 1 .. n + 1 PROVE h[m] = step[h[m - 1]][m]
      <4>1. m - 1 \in 0 .. n + 1 /\ m - 1 <= n /\ m \in 0 .. n + 1
        BY <3>2, <3>6
      <4>2. h[m - 1] = g[m - 1]
        BY <3>3, <4>1
      <4>3. CASE m <= n
        <5>1. m \in 1 .. n
          BY <3>2, <4>3
        <5>2. h[m] = g[m] /\ g[m] = step[g[m - 1]][m]
          BY <3>2, <3>3, <4>1, <4>3, <5>1
        <5> QED
          BY <4>2, <5>2
      <4>4. CASE m = n + 1
        <5>1. m - 1 = n /\ ~(m <= n)
          BY <3>2, <4>4
        <5> QED
          BY <3>3, <4>1, <4>2, <4>4, <5>1
      <4> QED
        BY <3>2, <3>6, <4>3, <4>4
    <3>7. h \in A(n + 1)
      BY <3>5, <3>6 DEF Approx
    <3> QED
      BY <3>2, <3>7
  <2> HIDE DEF W
  <2>3. W \in SUBSET Nat
    BY DEF W
  <2> QED
    BY <2>1, <2>2, <2>3, EveryNumber
<1>2. ASSUME NEW n \in Nat, NEW g \in A(n), NEW h \in A(n + 1)
      PROVE  \A m \in 0 .. n : h[m] = g[m]
  <2> DEFINE V == {m \in Nat : m <= n => h[m] = g[m]}
  <2>1. 0 \in V
    BY <1>2 DEF Approx
  <2>2. ASSUME NEW m \in V PROVE m + 1 \in V
    <3>1. SUFFICES ASSUME m + 1 <= n PROVE h[m + 1] = g[m + 1]
      BY <2>2
    <3>2. m \in Nat /\ m + 1 \in 1 .. n /\ m + 1 \in 1 .. n + 1 /\ (m + 1) - 1 = m /\ h[m] = g[m]
      BY <1>2, <2>2, <3>1
    <3>3. g[m + 1] = step[g[m]][m + 1] /\ h[m + 1] = step[h[m]][m + 1]
      BY <3>2 DEF Approx
    <3> QED
      BY <3>2, <3>3
  <2>3. V = Nat
    <3> HIDE DEF V
    <3>1. V \in SUBSET Nat
      BY DEF V
    <3> QED
      BY <2>1, <2>2, <3>1, EveryNumber
  <2> QED
    BY <2>3
<1> DEFINE Pick(n) == CHOOSE g : g \in A(n)
<1>3. \A n \in Nat : Pick(n) \in A(n)
  BY <1>1
<1>4. PICK f : f = [n \in Nat |-> Pick(n)[n]]
  OBVIOUS
<1>5. ASSUME NEW n \in Nat PROVE f[n] \in T /\ f[n + 1] = step[f[n]][n + 1]
  <2>1. PICK g, h : g = Pick(n) /\ h = Pick(n + 1)
    OBVIOUS
  <2>2. g \in A(n) /\ h \in A(n + 1) /\ n + 1 \in Nat
    BY <1>3, <2>1
  <2>3. f[n] = g[n] /\ f[n + 1] = h[n + 1]
    BY <1>4, <2>1, <2>2
  <2>4. n \in 0 .. n /\ n + 1 \in 1 .. n + 1 /\ (n + 1) - 1 = n
    BY <1>5
  <2>5. g[n] \in T /\ h[n + 1] = step[h[n]][n + 1]
    BY <2>2, <2>4 DEF Approx
  <2>6. h[n] = g[n]
    BY <1>2, <2>2, <2>4
  <2> QED
    BY <2>3, <2>5, <2>6
<1>6. f[0] = a
  <2>1. Pick(0) \in A(0)
    BY <1>3
  <2> HIDE DEF Pick
  <2> QED
    BY <1>4, <2>1 DEF Approx
<1>7. f \in [Nat -> T]
  <2> HIDE DEF Pick
  <2>1. f = [n \in Nat |-> f[n]]
    BY <1>4
  <2> QED
    BY <1>5, <2>1
<1> QED
  BY <1>5, <1>6, <1>7 DEF Unrolls

-----------------------------------------------------------------------------
(* Numbers and their bytes.                                                 *)

\* Power is the recursive function it is written as.
LEMMA Powers ==
  /\ Power \in [Nat -> Nat \ {0}]
  /\ Power[0] = 1
  /\ \A n \in Nat : Power[n + 1] = ByteMod * Power[n]
<1>1. ByteMod \in Nat \ {0}
  BY FramerAssumption
<1>2. PICK step : step = [x \in Nat \ {0} |-> [n \in Nat |-> ByteMod * x]]
  OBVIOUS
<1>3. \A x \in Nat \ {0} : ByteMod * x \in Nat \ {0}
  BY <1>1
<1>4. step \in [Nat \ {0} -> [Nat -> Nat \ {0}]]
  BY <1>2, <1>3
<1>5. PICK f : Unrolls(f, Nat \ {0}, 1, step)
  <2>1. 1 \in Nat \ {0}
    OBVIOUS
  <2> QED
    BY <1>4, <2>1, Recursion, Zenon
<1>6. \A n \in Nat : f[n + 1] = ByteMod * f[n]
  BY <1>2, <1>5 DEF Unrolls
<1>7. f = [n \in Nat |-> IF n = 0 THEN 1 ELSE ByteMod * f[n - 1]]
  <2>1. ASSUME NEW n \in Nat PROVE f[n] = IF n = 0 THEN 1 ELSE ByteMod * f[n - 1]
    <3>1. CASE n = 0
      BY <1>5, <3>1 DEF Unrolls
    <3>2. CASE n # 0
      <4>1. n - 1 \in Nat /\ (n - 1) + 1 = n
        BY <3>2
      <4> QED
        BY <1>6, <3>2, <4>1
    <3> QED
      BY <3>1, <3>2
  <2>2. f = [n \in Nat |-> f[n]]
    BY <1>5 DEF Unrolls
  <2> QED
    BY <2>1, <2>2
<1>8. Power = [n \in Nat |-> IF n = 0 THEN 1 ELSE ByteMod * Power[n - 1]]
  BY <1>7, Zenon DEF Power
<1>9. Power[0] = 1 /\ \A n \in Nat : Power[n + 1] = ByteMod * Power[n]
  <2>1. Power[0] = 1
    BY <1>8
  <2>2. ASSUME NEW n \in Nat PROVE Power[n + 1] = ByteMod * Power[n]
    <3>1. n + 1 \in Nat /\ n + 1 # 0 /\ (n + 1) - 1 = n
      OBVIOUS
    <3> QED
      BY <1>8, <3>1
  <2> QED
    BY <2>1, <2>2
<1>10. \A n \in Nat : Power[n] \in Nat \ {0}
  <2> DEFINE W == {n \in Nat : Power[n] \in Nat \ {0}}
  <2>1. 0 \in W /\ \A n \in W : n + 1 \in W
    BY <1>3, <1>9
  <2>2. W \in SUBSET Nat
    OBVIOUS
  <2> HIDE DEF W
  <2>3. W = Nat
    BY <2>1, <2>2, EveryNumber
  <2> QED
    BY <2>3 DEF W
<1> QED
  BY <1>8, <1>9, <1>10

\* A number whose first bytes have been taken.
Taken(v, len, n) == v \div Power[len - n]

\* The next byte of a number continues it.
LEMMA DigitShifts ==
  ASSUME NEW v \in Nat, NEW len \in Nat, v < Power[len], NEW n \in Nat, n < len
  PROVE  /\ Digits(v, len)[n + 1] \in Byte
         /\ Shift(Taken(v, len, n), Digits(v, len)[n + 1], len) = Taken(v, len, n + 1)
<1>1. PICK k, b, p, all : k = len - (n + 1) /\ b = ByteMod /\ p = Power[k] /\ all = Power[len]
  OBVIOUS
<1>2. k \in Nat /\ len - n = k + 1 /\ b \in Nat /\ b > 0
  BY <1>1, FramerAssumption
<1>3. p \in Nat /\ p > 0 /\ all \in Nat /\ v < all /\ Power[k + 1] = b * p
  <2>1. Power[k] \in Nat \ {0} /\ Power[len] \in Nat \ {0} /\ Power[k + 1] = ByteMod * Power[k]
    BY <1>2, Powers
  <2> QED
    BY <1>1, <2>1
<1>4. PICK q : q = v \div p
  OBVIOUS
<1>5. q \in Nat /\ q <= v
  BY <1>3, <1>4
<1>6. v \div (b * p) = q \div b
  BY <1>2, <1>3, <1>4
<1>7. PICK d \in Int, m \in Int : d = q \div b /\ m = q % b /\ q = b * d + m /\ m >= 0 /\ m < b
  BY <1>2, <1>5
<1>8. q % all = q
  BY <1>3, <1>5
<1>9. n + 1 \in 1 .. len /\ len - (n + 1) = k
  BY <1>1
<1>10. Digits(v, len)[n + 1] = m
  BY <1>1, <1>4, <1>7, <1>9 DEF Digits
<1>11. Taken(v, len, n) = d /\ Taken(v, len, n + 1) = q
  BY <1>1, <1>2, <1>3, <1>4, <1>6, <1>7, <1>9 DEF Taken
<1>12. d * b + m = q
  BY <1>2, <1>7
<1>13. Shift(d, m, len) = q
  BY <1>1, <1>8, <1>12 DEF Shift
<1> QED
  BY <1>1, <1>2, <1>7, <1>10, <1>11, <1>13 DEF Byte

\* Before its first byte nothing is taken of a number, after its last all.
LEMMA TakenEnds ==
  ASSUME NEW v \in Nat, NEW len \in Nat, v < Power[len]
  PROVE  Taken(v, len, 0) = 0 /\ Taken(v, len, len) = v
<1>1. len - 0 = len /\ len - len = 0 /\ Power[len] \in Nat /\ Power[0] = 1
  BY Powers
<1>2. PICK p : p = Power[len]
  OBVIOUS
<1>3. v \div p = 0 /\ v \div 1 = v
  BY <1>1, <1>2
<1> QED
  BY <1>1, <1>2, <1>3 DEF Taken

\* The digits of a number are bytes, one for each place.
LEMMA DigitsTyped ==
  ASSUME NEW v \in Nat, NEW len \in Nat, v < Power[len]
  PROVE  Digits(v, len) \in Seq(Byte) /\ Len(Digits(v, len)) = len
<1>1. ASSUME NEW i \in 1 .. len PROVE (v \div Power[len - i]) % ByteMod \in Byte
  <2>1. i - 1 \in Nat /\ i - 1 < len /\ (i - 1) + 1 = i
    OBVIOUS
  <2>2. Digits(v, len)[i] \in Byte
    BY <2>1, DigitShifts
  <2> QED
    BY <2>2 DEF Digits
<1> QED
  BY <1>1 DEF Digits

-----------------------------------------------------------------------------
(* The bytes of a packet.                                                   *)

\* A row of sequences, laid end to end, is what their concatenation makes of it.
LEMMA Flattened ==
  ASSUME NEW S, NEW n \in Nat, NEW rows \in Seq(Seq(S)), Len(rows) = n,
         NEW f \in [0 .. n -> Seq(S)], f[0] = << >>,
         \A i \in 1 .. n : f[i] = f[i - 1] \o rows[i]
  PROVE  FlattenSeq(rows) = f[n]
<1>1. CASE n = 0
  <2>1. rows = << >>
    BY <1>1
  <2> QED
    BY <1>1, <2>1 DEF FlattenSeq
<1>2. CASE n # 0
  <2> DEFINE flat == CHOOSE g : g = [i \in 1 .. Len(rows) |->
                       IF i = 1 THEN rows[i] ELSE g[i - 1] \o rows[i]]
  <2>1. FlattenSeq(rows) = flat[n]
    BY <1>2 DEF FlattenSeq
  <2>2. PICK f0 : f0 = [i \in 1 .. n |-> f[i]]
    OBVIOUS
  <2>3. ASSUME NEW i \in 1 .. n
        PROVE  f0[i] = IF i = 1 THEN rows[i] ELSE f0[i - 1] \o rows[i]
    <3>1. f0[i] = f[i - 1] \o rows[i] /\ rows[i] \in Seq(S)
      <4>1. f0[i] = f[i]
        BY <2>2
      <4>2. f[i] = f[i - 1] \o rows[i]
        BY <2>3
      <4>3. rows[i] \in Seq(S)
        <5>1. i \in DOMAIN rows
          BY <2>3
        <5> QED
          BY <5>1
      <4> QED
        BY <4>1, <4>2, <4>3
    <3>2. CASE i = 1
      <4>1. i - 1 = 0
        BY <3>2
      <4>2. << >> \o rows[i] = rows[i]
        BY <3>1, ConcatEmptySeq
      <4> QED
        BY <3>1, <3>2, <4>1, <4>2
    <3>3. CASE i # 1
      <4>1. i - 1 \in 1 .. n
        BY <3>3
      <4> QED
        BY <2>2, <3>1, <3>3, <4>1
    <3> QED
      BY <3>2, <3>3
  <2>4. f0 = [i \in 1 .. Len(rows) |-> IF i = 1 THEN rows[i] ELSE f0[i - 1] \o rows[i]]
    <3>1. f0 = [i \in 1 .. n |-> f0[i]]
      BY <2>2
    <3> QED
      BY <2>3, <3>1
  <2>5. flat = [i \in 1 .. Len(rows) |-> IF i = 1 THEN rows[i] ELSE flat[i - 1] \o rows[i]]
    BY <2>4
  <2> HIDE DEF flat
  <2> DEFINE W == {m \in Nat : m + 1 \in 1 .. n => flat[m + 1] = f0[m + 1]}
  <2>6. 0 \in W
    <3>1. flat[1] = rows[1] /\ f0[1] = rows[1]
      <4>1. 1 \in 1 .. n
        BY <1>2
      <4>2. 1 \in 1 .. Len(rows)
        BY <4>1
      <4> QED
        BY <2>3, <2>5, <4>1, <4>2
    <3> QED
      BY <3>1
  <2>7. ASSUME NEW m \in W PROVE m + 1 \in W
    <3>1. SUFFICES ASSUME (m + 1) + 1 \in 1 .. n
                   PROVE  flat[(m + 1) + 1] = f0[(m + 1) + 1]
      BY <2>7
    <3>2. PICK i : i = (m + 1) + 1
      OBVIOUS
    <3>3. m \in Nat /\ m + 1 \in 1 .. n /\ i - 1 = m + 1 /\ i # 1 /\ i \in 1 .. Len(rows)
      BY <2>7, <3>1, <3>2
    <3>4. flat[m + 1] = f0[m + 1]
      BY <2>7, <3>3
    <3>5. flat[i] = flat[i - 1] \o rows[i]
      BY <2>5, <3>3
    <3>6. f0[i] = f0[i - 1] \o rows[i]
      BY <2>3, <3>3
    <3> QED
      BY <3>2, <3>3, <3>4, <3>5, <3>6
  <2>8. W = Nat
    <3>1. W \in SUBSET Nat
      OBVIOUS
    <3> HIDE DEF W
    <3> QED
      BY <2>6, <2>7, <3>1, EveryNumber
  <2>9. flat[n] = f0[n]
    <3>1. n - 1 \in Nat /\ (n - 1) + 1 = n /\ n \in 1 .. n
      BY <1>2
    <3>2. n - 1 \in W
      BY <2>8, <3>1
    <3> QED
      BY <3>1, <3>2
  <2> QED
    BY <1>2, <2>1, <2>2, <2>9
<1> QED
  BY <1>1, <1>2

\* Two sequences end to end.
EndToEndIs(S, s, t) ==
  /\ s \o t \in Seq(S) /\ Len(s) \in Nat /\ Len(t) \in Nat
  /\ Len(s \o t) = Len(s) + Len(t)
  /\ \A i \in 1 .. Len(s) : (s \o t)[i] = s[i]
  /\ \A j \in 1 .. Len(t) : (s \o t)[Len(s) + j] = t[j]

\* Two sequences end to end, place by place.
LEMMA Joined ==
  ASSUME NEW S, NEW s \in Seq(S), NEW t \in Seq(S)
  PROVE  EndToEndIs(S, s, t)
<1>1. /\ s \o t \in Seq(S) /\ Len(s) \in Nat /\ Len(t) \in Nat
      /\ Len(s \o t) = Len(s) + Len(t)
  BY ConcatProperties
<1>2. ASSUME NEW i \in 1 .. Len(s) + Len(t)
      PROVE  (s \o t)[i] = IF i <= Len(s) THEN s[i] ELSE t[i - Len(s)]
  BY <1>1, ConcatProperties
<1>3. ASSUME NEW i \in 1 .. Len(s) PROVE (s \o t)[i] = s[i]
  <2>1. i \in 1 .. Len(s) + Len(t) /\ i <= Len(s)
    BY <1>1
  <2> QED
    BY <1>2, <2>1
<1>4. ASSUME NEW j \in 1 .. Len(t) PROVE (s \o t)[Len(s) + j] = t[j]
  <2>1. /\ Len(s) + j \in 1 .. Len(s) + Len(t) /\ ~(Len(s) + j <= Len(s))
        /\ (Len(s) + j) - Len(s) = j
    BY <1>1
  <2> QED
    BY <1>2, <2>1
<1> QED
  BY <1>1, <1>3, <1>4 DEF EndToEndIs

HeaderLen == SESSION_LEN + SEQ_LEN + COUNT_LEN

\* The records of the first i messages of a packet, and where they end.
Rows(p, i) == [j \in 1 .. i |-> Record(p.lens[j])]
Text(p, i) == FlattenSeq(Rows(p, i))
Off(p, i)  == HeaderLen + Len(Text(p, i))

\* The widths of the fields are positive, and a word has two bytes.
LEMMA Sizes ==
  /\ SESSION_LEN \in Nat \ {0} /\ SEQ_LEN \in Nat \ {0} /\ COUNT_LEN = 2 /\ LEN_LEN = 2
  /\ HeaderLen \in Nat /\ HeaderLen = SESSION_LEN + SEQ_LEN + 2
  /\ SeqWrap \in Nat \ {0} /\ Power[2] \in Nat \ {0} /\ 0 \in Byte
  /\ Power[2] = ByteMod * ByteMod /\ EndCount \in Nat /\ EndCount > 1
<1>1. SESSION_LEN \in Nat \ {0} /\ SEQ_LEN \in Nat \ {0} /\ COUNT_LEN = 2 /\ LEN_LEN = 2
      /\ ByteMod \in Nat /\ ByteMod > 1
  BY FramerAssumption DEF COUNT_LEN, LEN_LEN
<1>2. Power[0] = 1 /\ Power[0 + 1] = ByteMod * Power[0] /\ Power[1 + 1] = ByteMod * Power[1]
      /\ Power[SEQ_LEN] \in Nat \ {0} /\ Power[2] \in Nat \ {0}
  BY <1>1, Powers
<1>3. Power[2] = ByteMod * ByteMod
  BY <1>1, <1>2
<1>4. \A b \in Nat : b > 1 => b * b > 2
  OBVIOUS
<1> QED
  BY <1>1, <1>2, <1>3, <1>4 DEF HeaderLen, SeqWrap, Byte, EndCount

\* The length of a message fits its prefix.
LEMMA Lengths == Length \subseteq Nat /\ \A l \in Length : l < Power[2]
  BY LinkAssumption, Sizes DEF Word

\* A record is a length prefix of two bytes and the message.
LEMMA RecordTyped ==
  ASSUME NEW l \in Length
  PROVE  /\ Record(l) \in Seq(Byte) /\ Len(Record(l)) = l + 2
         /\ Record(l)[1] = Digits(l, 2)[1] /\ Record(l)[2] = Digits(l, 2)[2]
<1>1. l \in Nat /\ l < Power[2] /\ LEN_LEN = 2
  BY Lengths, Sizes
<1>2. PICK d : d = Digits(l, 2)
  OBVIOUS
<1>3. d \in Seq(Byte) /\ Len(d) = 2
  BY <1>1, <1>2, DigitsTyped
<1>4. PICK body : body = [i \in 1 .. l |-> i % ByteMod]
  OBVIOUS
<1>5. body \in Seq(Byte) /\ Len(body) = l
  <2>1. ASSUME NEW i \in 1 .. l PROVE i % ByteMod \in Byte
    BY <1>1, FramerAssumption DEF Byte
  <2> QED
    BY <1>1, <1>4, <2>1
<1>6. Record(l) = d \o body
  BY <1>1, <1>2, <1>4 DEF Record
<1>7. /\ d \o body \in Seq(Byte) /\ Len(d \o body) = 2 + l
      /\ (d \o body)[1] = d[1] /\ (d \o body)[2] = d[2]
  <2>1. /\ d \o body \in Seq(Byte) /\ Len(d \o body) = Len(d) + Len(body)
        /\ \A i \in 1 .. Len(d) : (d \o body)[i] = d[i]
    <3>1. EndToEndIs(Byte, d, body)
      BY <1>3, <1>5, Joined, Zenon
    <3> QED
      BY <3>1 DEF EndToEndIs
  <2>2. 1 \in 1 .. Len(d) /\ 2 \in 1 .. Len(d)
    BY <1>3
  <2> QED
    BY <1>3, <1>5, <2>1, <2>2
<1> QED
  BY <1>1, <1>2, <1>6, <1>7

\* The records of a packet one after the other.
LEMMA TextGrows ==
  ASSUME NEW p, p.lens \in Seq(Length)
  PROVE  /\ Text(p, 0) = << >>
         /\ \A i \in 0 .. Len(p.lens) : Text(p, i) \in Seq(Byte)
         /\ \A i \in 1 .. Len(p.lens) :
              Text(p, i) = Text(p, i - 1) \o Record(p.lens[i])
<1>1. PICK n, lens, T : n = Len(p.lens) /\ lens = p.lens /\ T = Seq(Byte)
  OBVIOUS
<1>2. n \in Nat /\ \A i \in 1 .. n : lens[i] \in Length
  BY <1>1
<1>3. ASSUME NEW i \in 1 .. n PROVE Record(lens[i]) \in T
  BY <1>1, <1>2, RecordTyped
<1>4. PICK step : step = [x \in T |-> [i \in Nat |->
                            IF i \in 1 .. n THEN x \o Record(lens[i]) ELSE x]]
  OBVIOUS
<1>5. step \in [T -> [Nat -> T]]
  <2>1. ASSUME NEW x \in T, NEW i \in Nat
        PROVE  (IF i \in 1 .. n THEN x \o Record(lens[i]) ELSE x) \in T
    <3>1. CASE i \in 1 .. n
      <4>1. PICK r : r = Record(lens[i])
        OBVIOUS
      <4>2. r \in Seq(Byte) /\ x \in Seq(Byte)
        BY <1>1, <1>3, <3>1, <4>1
      <4>3. x \o r \in Seq(Byte)
        BY <4>2, ConcatProperties
      <4> QED
        BY <1>1, <3>1, <4>1, <4>3
    <3>2. CASE i \notin 1 .. n
      BY <2>1, <3>2
    <3> QED
      BY <3>1, <3>2
  <2> QED
    BY <1>4, <2>1
<1>6. PICK f : Unrolls(f, T, << >>, step)
  <2>1. << >> \in T
    BY <1>1
  <2> QED
    BY <1>5, <2>1, Recursion, Zenon
<1>7. f \in [Nat -> T] /\ f[0] = << >>
  BY <1>6 DEF Unrolls
<1>8. ASSUME NEW i \in 1 .. n PROVE f[i] = f[i - 1] \o Record(lens[i])
  <2>1. i \in Nat /\ i - 1 \in Nat /\ (i - 1) + 1 = i
    BY <1>2
  <2>2. f[i] = step[f[i - 1]][i]
    BY <1>6, <2>1 DEF Unrolls
  <2>3. f[i - 1] \in T
    BY <1>7, <2>1
  <2> QED
    BY <1>4, <2>1, <2>2, <2>3
<1>9. ASSUME NEW k \in 0 .. n PROVE Text(p, k) = f[k]
  <2>1. PICK rows, g : rows = Rows(p, k) /\ g = [i \in 0 .. k |-> f[i]]
    OBVIOUS
  <2>2. k \in Nat /\ \A i \in 1 .. k : i \in 1 .. n
    BY <1>2
  <2>3. rows = [j \in 1 .. k |-> Record(lens[j])]
    BY <1>1, <2>1 DEF Rows
  <2>4. rows \in Seq(T) /\ Len(rows) = k
    BY <1>3, <2>2, <2>3
  <2>5. g \in [0 .. k -> T] /\ g[0] = << >>
    BY <1>7, <2>1, <2>2
  <2>6. ASSUME NEW i \in 1 .. k PROVE g[i] = g[i - 1] \o rows[i]
    <3>1. i \in 0 .. k /\ i - 1 \in 0 .. k /\ i \in 1 .. n
      BY <2>2
    <3>2. rows[i] = Record(lens[i])
      BY <2>3
    <3> QED
      BY <1>8, <2>1, <3>1, <3>2
  <2>7. FlattenSeq(rows) = g[k]
    <3>1. rows \in Seq(Seq(Byte)) /\ g \in [0 .. k -> Seq(Byte)]
      BY <1>1, <2>4, <2>5
    <3> QED
      BY <2>2, <2>4, <2>5, <2>6, <3>1, Flattened
  <2> QED
    BY <2>1, <2>2, <2>7 DEF Text
<1>10. Text(p, 0) = << >>
  BY <1>2, <1>7, <1>9
<1>11. ASSUME NEW i \in 0 .. n PROVE Text(p, i) \in Seq(Byte)
  BY <1>1, <1>2, <1>7, <1>9
<1>12. ASSUME NEW i \in 1 .. n PROVE Text(p, i) = Text(p, i - 1) \o Record(lens[i])
  <2>1. i \in 0 .. n /\ i - 1 \in 0 .. n
    BY <1>2
  <2> QED
    BY <1>8, <1>9, <2>1
<1> QED
  BY <1>1, <1>10, <1>11, <1>12

\* Where the records of a packet end.
LEMMA Offsets ==
  ASSUME NEW p, p.lens \in Seq(Length)
  PROVE  /\ Off(p, 0) = HeaderLen
         /\ \A i \in 0 .. Len(p.lens) : Off(p, i) \in Nat /\ Off(p, i) >= HeaderLen
         /\ \A i \in 1 .. Len(p.lens) : Off(p, i) = Off(p, i - 1) + 2 + p.lens[i]
         /\ \A i, j \in 0 .. Len(p.lens) : i < j => Off(p, i) < Off(p, j)
<1>1. PICK n : n = Len(p.lens)
  OBVIOUS
<1>2. n \in Nat /\ \A i \in 1 .. n : p.lens[i] \in Length /\ p.lens[i] \in Nat
  <2>1. PICK lens \in Seq(Length) : lens = p.lens
    OBVIOUS
  <2>2. Len(lens) \in Nat /\ \A i \in 1 .. Len(lens) : lens[i] \in Length
    OBVIOUS
  <2> QED
    BY <1>1, <2>1, <2>2, Lengths
<1>3. Off(p, 0) = HeaderLen
  <2>1. Len(Text(p, 0)) = 0
    BY TextGrows
  <2> QED
    BY <2>1, Sizes DEF Off
<1>4. ASSUME NEW i \in 0 .. n PROVE Off(p, i) \in Nat /\ Off(p, i) >= HeaderLen
  <2>1. Text(p, i) \in Seq(Byte)
    BY <1>1, TextGrows
  <2>2. Len(Text(p, i)) \in Nat
    BY <2>1
  <2> QED
    BY <2>2, Sizes DEF Off
<1>5. ASSUME NEW i \in 1 .. n PROVE Off(p, i) = Off(p, i - 1) + 2 + p.lens[i]
  <2>1. i - 1 \in 0 .. n
    BY <1>2
  <2>2. PICK a, r : a = Text(p, i - 1) /\ r = Record(p.lens[i])
    OBVIOUS
  <2>3. a \in Seq(Byte) /\ Text(p, i) = a \o r
    BY <1>1, <2>1, <2>2, TextGrows
  <2>4. r \in Seq(Byte) /\ Len(r) = p.lens[i] + 2
    BY <1>2, <2>2, RecordTyped
  <2>5. Len(a \o r) = Len(a) + Len(r) /\ Len(a) \in Nat
    <3>1. EndToEndIs(Byte, a, r)
      BY <2>3, <2>4, Joined, Zenon
    <3> QED
      BY <3>1 DEF EndToEndIs
  <2>6. Off(p, i) = HeaderLen + Len(a \o r) /\ Off(p, i - 1) = HeaderLen + Len(a)
    BY <2>2, <2>3 DEF Off
  <2>7. PICK x, y, h : x = Len(a) /\ y = p.lens[i] /\ h = HeaderLen
    OBVIOUS
  <2>8. x \in Nat /\ y \in Nat /\ h \in Nat
    BY <1>2, <2>5, <2>7, Sizes
  <2>9. h + (x + (y + 2)) = h + x + 2 + y
    BY <2>8
  <2> QED
    BY <2>4, <2>5, <2>6, <2>7, <2>9
<1>6. ASSUME NEW i \in 0 .. n
      PROVE  \A j \in 0 .. n : i < j => Off(p, i) < Off(p, j)
  <2> DEFINE W == {m \in Nat : i + 1 + m <= n => Off(p, i) < Off(p, i + 1 + m)}
  <2>1. 0 \in W
    <3>1. SUFFICES ASSUME i + 1 <= n PROVE Off(p, i) < Off(p, i + 1)
      OBVIOUS
    <3>2. i + 1 \in 1 .. n /\ (i + 1) - 1 = i
      BY <1>2, <3>1
    <3>3. Off(p, i + 1) = Off(p, i) + 2 + p.lens[i + 1] /\ p.lens[i + 1] \in Nat
      BY <1>2, <1>5, <3>2
    <3> QED
      BY <1>4, <3>3
  <2>2. ASSUME NEW m \in W PROVE m + 1 \in W
    <3>1. SUFFICES ASSUME i + 1 + (m + 1) <= n PROVE Off(p, i) < Off(p, i + 1 + (m + 1))
      BY <2>2
    <3>2. PICK k : k = i + 1 + m
      OBVIOUS
    <3>3. m \in Nat /\ k \in 0 .. n /\ k + 1 \in 1 .. n /\ (k + 1) - 1 = k
          /\ i + 1 + (m + 1) = k + 1
      BY <1>2, <2>2, <3>1, <3>2
    <3>4. Off(p, i) < Off(p, k)
      BY <2>2, <3>2, <3>3
    <3>5. Off(p, k + 1) = Off(p, k) + 2 + p.lens[k + 1] /\ p.lens[k + 1] \in Nat
      BY <1>2, <1>5, <3>3
    <3>6. Off(p, i) \in Nat /\ Off(p, k) \in Nat
      BY <1>4, <3>3
    <3> QED
      BY <3>3, <3>4, <3>5, <3>6
  <2>3. W = Nat
    <3>1. W \in SUBSET Nat
      OBVIOUS
    <3> HIDE DEF W
    <3> QED
      BY <2>1, <2>2, <3>1, EveryNumber
  <2>4. ASSUME NEW j \in 0 .. n, i < j PROVE Off(p, i) < Off(p, j)
    <3>1. j - (i + 1) \in Nat /\ i + 1 + (j - (i + 1)) = j
      BY <1>2, <2>4
    <3>2. j - (i + 1) \in W
      BY <2>3, <3>1
    <3> QED
      BY <3>1, <3>2
  <2> QED
    BY <2>4
<1> QED
  BY <1>1, <1>3, <1>4, <1>5, <1>6

\* The sequence number and the count stand at fixed places of the header.
LEMMA HeaderBytes ==
  ASSUME NEW p \in Packet
  PROVE  /\ PacketHeader(p) \in Seq(Byte) /\ Len(PacketHeader(p)) = HeaderLen
         /\ \A j \in 1 .. SEQ_LEN :
              PacketHeader(p)[SESSION_LEN + j] = Digits(p.seq, SEQ_LEN)[j]
         /\ \A j \in 1 .. 2 :
              PacketHeader(p)[SESSION_LEN + SEQ_LEN + j] = Digits(p.count, 2)[j]
<1>1. PICK z, d, c : /\ z = [i \in 1 .. SESSION_LEN |-> 0]
                     /\ d = Digits(p.seq, SEQ_LEN) /\ c = Digits(p.count, 2)
  OBVIOUS
<1>2. PICK ls, lq : ls = SESSION_LEN /\ lq = SEQ_LEN
  OBVIOUS
<1>3. ls \in Nat /\ lq \in Nat /\ HeaderLen = ls + lq + 2 /\ 0 \in Byte
  BY <1>2, Sizes
<1>4. z \in Seq(Byte) /\ Len(z) = ls
  BY <1>1, <1>2, <1>3
<1>5. d \in Seq(Byte) /\ Len(d) = lq
  <2>1. p.seq \in Nat /\ p.seq < Power[SEQ_LEN] /\ SEQ_LEN \in Nat
    BY Sizes DEF Packet, SeqWrap
  <2> QED
    BY <1>1, <1>2, <2>1, DigitsTyped
<1>6. c \in Seq(Byte) /\ Len(c) = 2
  <2>1. p.count \in Nat /\ p.count < Power[2]
    BY Sizes DEF Packet, Word
  <2> QED
    BY <1>1, <2>1, DigitsTyped
<1>7. PacketHeader(p) = (z \o d) \o c
  BY <1>1, Sizes DEF PacketHeader
<1>8. PICK zd : zd = z \o d
  OBVIOUS
<1>9. /\ zd \in Seq(Byte) /\ Len(zd) = ls + lq
      /\ \A j \in 1 .. lq : zd[ls + j] = d[j]
  <2>1. /\ z \o d \in Seq(Byte) /\ Len(z) \in Nat /\ Len(d) \in Nat
        /\ Len(z \o d) = Len(z) + Len(d)
        /\ \A q \in 1 .. Len(z) : (z \o d)[q] = z[q]
        /\ \A q \in 1 .. Len(d) : (z \o d)[Len(z) + q] = d[q]
    <3>1. EndToEndIs(Byte, z, d)
      BY <1>4, <1>5, Joined, Zenon
    <3> QED
      BY <3>1 DEF EndToEndIs
  <2> QED
    BY <1>4, <1>5, <1>8, <2>1
<1>10. /\ zd \o c \in Seq(Byte) /\ Len(zd \o c) = ls + lq + 2
       /\ \A i \in 1 .. ls + lq : (zd \o c)[i] = zd[i]
       /\ \A j \in 1 .. 2 : (zd \o c)[ls + lq + j] = c[j]
  <2>1. /\ zd \o c \in Seq(Byte) /\ Len(zd) \in Nat /\ Len(c) \in Nat
        /\ Len(zd \o c) = Len(zd) + Len(c)
        /\ \A q \in 1 .. Len(zd) : (zd \o c)[q] = zd[q]
        /\ \A q \in 1 .. Len(c) : (zd \o c)[Len(zd) + q] = c[q]
    <3>1. EndToEndIs(Byte, zd, c)
      BY <1>6, <1>9, Joined, Zenon
    <3> QED
      BY <3>1 DEF EndToEndIs
  <2> QED
    BY <1>6, <1>9, <2>1
<1>11. ASSUME NEW j \in 1 .. lq PROVE (zd \o c)[ls + j] = d[j]
  <2>1. ls + j \in 1 .. ls + lq
    BY <1>3
  <2> QED
    BY <1>9, <1>10, <2>1
<1> QED
  BY <1>1, <1>2, <1>3, <1>7, <1>8, <1>10, <1>11

\* A record stands behind those before it, whatever follows it.
LEMMA RecordAt ==
  ASSUME NEW p, p.lens \in Seq(Length), NEW i \in 1 .. Len(p.lens),
         NEW k \in i .. Len(p.lens), NEW j \in 1 .. 2
  PROVE  /\ Text(p, k)[Len(Text(p, i - 1)) + j] = Digits(p.lens[i], 2)[j]
         /\ Len(Text(p, i - 1)) + 2 <= Len(Text(p, k))
<1>1. PICK n, at : n = Len(p.lens) /\ at = Len(Text(p, i - 1)) + j
  OBVIOUS
<1>2. n \in Nat /\ \A m \in 1 .. n : p.lens[m] \in Length /\ p.lens[m] \in Nat
  <2>1. PICK lens \in Seq(Length) : lens = p.lens
    OBVIOUS
  <2>2. Len(lens) \in Nat /\ \A m \in 1 .. Len(lens) : lens[m] \in Length
    OBVIOUS
  <2> QED
    BY <1>1, <2>1, <2>2, Lengths
<1>3. i \in 1 .. n /\ i - 1 \in 0 .. n
  BY <1>1, <1>2
<1>4. PICK len : len = Len(Text(p, i - 1))
  OBVIOUS
<1>5. len \in Nat /\ at = len + j
  <2>1. Text(p, i - 1) \in Seq(Byte)
    BY <1>1, <1>3, TextGrows
  <2> QED
    BY <1>1, <1>4, <2>1
<1>6. ASSUME NEW m \in 1 .. n
      PROVE  /\ Text(p, m - 1) \in Seq(Byte) /\ Record(p.lens[m]) \in Seq(Byte)
             /\ Text(p, m) = Text(p, m - 1) \o Record(p.lens[m])
             /\ Len(Text(p, m - 1)) \in Nat
             /\ Len(Text(p, m)) = Len(Text(p, m - 1)) + (p.lens[m] + 2)
             /\ \A q \in 1 .. Len(Text(p, m - 1)) : Text(p, m)[q] = Text(p, m - 1)[q]
             /\ \A q \in 1 .. p.lens[m] + 2 :
                  Text(p, m)[Len(Text(p, m - 1)) + q] = Record(p.lens[m])[q]
  <2>1. m - 1 \in 0 .. n
    BY <1>2
  <2>2. PICK a, r : a = Text(p, m - 1) /\ r = Record(p.lens[m])
    OBVIOUS
  <2>3. a \in Seq(Byte) /\ Text(p, m) = a \o r
    BY <1>1, <2>1, <2>2, TextGrows
  <2>4. r \in Seq(Byte) /\ Len(r) = p.lens[m] + 2
    BY <1>2, <2>2, RecordTyped
  <2>5. /\ a \o r \in Seq(Byte) /\ Len(a) \in Nat /\ Len(r) \in Nat
        /\ Len(a \o r) = Len(a) + Len(r)
        /\ \A q \in 1 .. Len(a) : (a \o r)[q] = a[q]
        /\ \A q \in 1 .. Len(r) : (a \o r)[Len(a) + q] = r[q]
    <3>1. EndToEndIs(Byte, a, r)
      BY <2>3, <2>4, Joined, Zenon
    <3> QED
      BY <3>1 DEF EndToEndIs
  <2> QED
    BY <2>2, <2>3, <2>4, <2>5
<1>7. Record(p.lens[i])[j] = Digits(p.lens[i], 2)[j]
  <2>1. p.lens[i] \in Length /\ (j = 1 \/ j = 2)
    BY <1>2, <1>3
  <2> QED
    BY <2>1, RecordTyped
<1> DEFINE Holds(m) == /\ Text(p, m)[at] = Digits(p.lens[i], 2)[j]
                       /\ len + 2 <= Len(Text(p, m))
           W == {m \in Nat : i + m <= n => Holds(i + m)}
<1>8. 0 \in W
  <2>1. j \in 1 .. p.lens[i] + 2
    <3>1. p.lens[i] \in Nat
      BY <1>2, <1>3
    <3> QED
      BY <3>1
  <2>2. Text(p, i)[at] = Digits(p.lens[i], 2)[j]
    BY <1>3, <1>4, <1>5, <1>6, <1>7, <2>1
  <2>3. Len(Text(p, i)) = len + (p.lens[i] + 2) /\ p.lens[i] \in Nat
    BY <1>2, <1>3, <1>4, <1>6
  <2>4. len + 2 <= Len(Text(p, i))
    BY <1>5, <2>3
  <2>5. i + 0 = i
    BY <1>3
  <2> QED
    BY <2>2, <2>4, <2>5
<1>9. ASSUME NEW m \in W PROVE m + 1 \in W
  <2>1. SUFFICES ASSUME i + (m + 1) <= n PROVE Holds(i + (m + 1))
    BY <1>9
  <2>2. PICK b : b = i + m
    OBVIOUS
  <2>3. m \in Nat /\ b <= n /\ b + 1 \in 1 .. n /\ (b + 1) - 1 = b /\ i + (m + 1) = b + 1
    BY <1>2, <1>3, <1>9, <2>1, <2>2
  <2>4. Holds(b)
    BY <1>9, <2>2, <2>3
  <2> HIDE DEF Holds, W
  <2>5. Text(p, b)[at] = Digits(p.lens[i], 2)[j] /\ len + 2 <= Len(Text(p, b))
    BY <2>4 DEF Holds
  <2>6. /\ Len(Text(p, b)) \in Nat
        /\ Len(Text(p, b + 1)) = Len(Text(p, b)) + (p.lens[b + 1] + 2)
        /\ \A q \in 1 .. Len(Text(p, b)) : Text(p, b + 1)[q] = Text(p, b)[q]
    BY <1>6, <2>3
  <2>7. p.lens[b + 1] \in Nat
    BY <1>2, <2>3
  <2>8. at \in 1 .. Len(Text(p, b))
    BY <1>5, <2>5, <2>6
  <2>9. Text(p, b + 1)[at] = Digits(p.lens[i], 2)[j]
    BY <2>5, <2>6, <2>8
  <2>10. len + 2 <= Len(Text(p, b + 1))
    BY <1>5, <2>5, <2>6, <2>7
  <2> QED
    BY <2>3, <2>9, <2>10 DEF Holds
<1>10. W = Nat
  <2>1. W \in SUBSET Nat
    OBVIOUS
  <2> HIDE DEF W
  <2> QED
    BY <1>8, <1>9, <2>1, EveryNumber
<1>11. k - i \in Nat /\ i + (k - i) = k /\ k <= n
  BY <1>1, <1>2, <1>3
<1>12. k - i \in W
  BY <1>10, <1>11
<1>13. Holds(k)
  BY <1>11, <1>12
<1> QED
  BY <1>4, <1>5, <1>13

\* What stands where in a packet.
LEMMA BytesAt ==
  ASSUME NEW p \in Packet
  PROVE  /\ Len(PacketBytes(p)) = Off(p, Len(p.lens))
         /\ \A j \in 1 .. SEQ_LEN :
              PacketBytes(p)[SESSION_LEN + j] = Digits(p.seq, SEQ_LEN)[j]
         /\ \A j \in 1 .. 2 :
              PacketBytes(p)[SESSION_LEN + SEQ_LEN + j] = Digits(p.count, 2)[j]
         /\ \A i \in 1 .. Len(p.lens) : \A j \in 1 .. 2 :
              PacketBytes(p)[Off(p, i - 1) + j] = Digits(p.lens[i], 2)[j]
<1>1. p.lens \in Seq(Length)
  BY DEF Packet
<1>2. PICK h, t, n : h = PacketHeader(p) /\ t = Text(p, n) /\ n = Len(p.lens)
  OBVIOUS
<1>3. n \in Nat /\ DOMAIN p.lens = 1 .. n
  BY <1>1, <1>2
<1>4. PacketBytes(p) = h \o t
  BY <1>2, <1>3 DEF PacketBytes, Text, Rows
<1>5. h \in Seq(Byte) /\ Len(h) = HeaderLen
  BY <1>2, HeaderBytes
<1>6. t \in Seq(Byte)
  BY <1>1, <1>2, <1>3, TextGrows
<1>7. /\ Len(h \o t) = HeaderLen + Len(t) /\ Len(t) \in Nat
      /\ \A i \in 1 .. HeaderLen : (h \o t)[i] = h[i]
      /\ \A j \in 1 .. Len(t) : (h \o t)[HeaderLen + j] = t[j]
  <2>1. /\ h \o t \in Seq(Byte) /\ Len(h) \in Nat /\ Len(t) \in Nat
        /\ Len(h \o t) = Len(h) + Len(t)
        /\ \A q \in 1 .. Len(h) : (h \o t)[q] = h[q]
        /\ \A q \in 1 .. Len(t) : (h \o t)[Len(h) + q] = t[q]
    <3>1. EndToEndIs(Byte, h, t)
      BY <1>5, <1>6, Joined, Zenon
    <3> QED
      BY <3>1 DEF EndToEndIs
  <2> QED
    BY <1>5, <2>1
<1>8. Len(PacketBytes(p)) = Off(p, n)
  BY <1>2, <1>4, <1>7 DEF Off
<1>9. ASSUME NEW j \in 1 .. SEQ_LEN
      PROVE  PacketBytes(p)[SESSION_LEN + j] = Digits(p.seq, SEQ_LEN)[j]
  <2>1. SESSION_LEN + j \in 1 .. HeaderLen
    BY Sizes
  <2> QED
    BY <1>2, <1>4, <1>7, <2>1, HeaderBytes
<1>10. ASSUME NEW j \in 1 .. 2
       PROVE  PacketBytes(p)[SESSION_LEN + SEQ_LEN + j] = Digits(p.count, 2)[j]
  <2>1. SESSION_LEN + SEQ_LEN + j \in 1 .. HeaderLen
    BY Sizes
  <2> QED
    BY <1>2, <1>4, <1>7, <2>1, HeaderBytes
<1>11. ASSUME NEW i \in 1 .. n, NEW j \in 1 .. 2
       PROVE  PacketBytes(p)[Off(p, i - 1) + j] = Digits(p.lens[i], 2)[j]
  <2>1. PICK a : a = Len(Text(p, i - 1))
    OBVIOUS
  <2>2. i - 1 \in 0 .. n /\ n \in i .. n
    BY <1>3
  <2>3. Text(p, i - 1) \in Seq(Byte)
    BY <1>1, <1>2, <2>2, TextGrows
  <2>4. a \in Nat
    BY <2>1, <2>3
  <2>5. t[a + j] = Digits(p.lens[i], 2)[j] /\ a + 2 <= Len(t)
    BY <1>1, <1>2, <2>1, <2>2, RecordAt
  <2>6. a + j \in 1 .. Len(t)
    BY <1>7, <2>4, <2>5
  <2>7. (h \o t)[HeaderLen + (a + j)] = t[a + j]
    BY <1>7, <2>6
  <2>8. Off(p, i - 1) + j = HeaderLen + (a + j)
    BY <2>1, <2>4, Sizes DEF Off
  <2> QED
    BY <1>4, <2>5, <2>7, <2>8
<1> QED
  BY <1>2, <1>8, <1>9, <1>10, <1>11

\* How many messages have ended can be read off the position.
LEMMA Ended ==
  ASSUME NEW p \in Packet, NEW i \in 0 .. Len(p.lens), NEW n \in Nat,
         i = 0 \/ Off(p, i) <= n, i = Len(p.lens) \/ n < Off(p, i + 1)
  PROVE  EndedBy(p, n) = i
<1>1. p.lens \in Seq(Length)
  BY DEF Packet
<1>2. PICK all : all = Len(p.lens)
  OBVIOUS
<1>3. all \in Nat /\ DOMAIN p.lens = 1 .. all /\ i \in 0 .. all
  BY <1>1, <1>2
<1>4. \A j \in 1 .. all :
        Len(PacketHeader(p)) + Len(FlattenSeq([m \in 1 .. j |-> Record(p.lens[m])])) = Off(p, j)
  BY HeaderBytes DEF Off, Text, Rows
<1>5. EndedBy(p, n) = Cardinality({j \in 1 .. all : Off(p, j) <= n})
  <2>1. {j \in 1 .. all : Off(p, j) <= n}
        = {j \in DOMAIN p.lens : Len(PacketHeader(p))
             + Len(FlattenSeq([m \in 1 .. j |-> Record(p.lens[m])])) <= n}
    BY <1>3, <1>4
  <2> QED
    BY <2>1 DEF EndedBy
<1>6. ASSUME NEW j \in 1 .. all PROVE Off(p, j) <= n <=> j <= i
  <2>1. j \in 0 .. all /\ Off(p, j) \in Nat
    BY <1>1, <1>2, <1>3, Offsets
  <2>2. CASE j <= i
    <3>1. i # 0 /\ i \in 0 .. all /\ Off(p, i) <= n /\ Off(p, i) \in Nat
      BY <1>1, <1>2, <1>3, <2>2, Offsets
    <3>2. j = i \/ Off(p, j) < Off(p, i)
      <4>1. j = i \/ j < i
        BY <1>3, <2>2
      <4> QED
        BY <1>1, <1>2, <1>3, <2>1, <4>1, Offsets
    <3> QED
      BY <2>1, <2>2, <3>1, <3>2
  <2>3. CASE ~(j <= i)
    <3>1. i + 1 \in 0 .. all /\ (j = i + 1 \/ i + 1 < j) /\ n < Off(p, i + 1)
      BY <1>2, <1>3, <2>3
    <3>2. Off(p, i + 1) \in Nat /\ (j = i + 1 \/ Off(p, i + 1) < Off(p, j))
      BY <1>1, <1>2, <2>1, <3>1, Offsets
    <3> QED
      BY <2>1, <2>3, <3>1, <3>2
  <2> QED
    BY <2>2, <2>3
<1>7. {j \in 1 .. all : Off(p, j) <= n} = 1 .. i
  BY <1>3, <1>6
<1>8. Cardinality(1 .. i) = i
  <2>1. i \in Int /\ 1 \in Int
    BY <1>3
  <2>2. Cardinality(1 .. i) = IF 1 > i THEN 0 ELSE i - 1 + 1
    BY <2>1, FS_Interval
  <2> QED
    BY <1>3, <2>2
<1> QED
  BY <1>5, <1>7, <1>8

-----------------------------------------------------------------------------
(* Where the framer stands in a packet.                                     *)

\* The last number the feed can reach.
LastSeq == start_seq + MaxMessages

\* The packets of the writer: the count says how many messages there are, or is
\* that of a heartbeat or of the end of the session.
Sound ==
  {p \in Packet :
     /\ p.seq + Len(p.lens) <= LastSeq /\ Len(p.lens) <= msgs_per_packet
     /\ IF p.lens = << >> THEN p.count \in {0, EndCount}
        ELSE p.count = Len(p.lens) /\ p.count # EndCount}

\* The message of p that is under way, the count being of those still to come.
Current(p) == Len(p.lens) - count_reg + 1

InSession(n) ==
  /\ state = "ST_SESSION" /\ hdr_cnt = n /\ n < SESSION_LEN
  /\ seq_reg = 0 /\ count_reg = 0 /\ msg_len_reg = 0

InSeq(p, n) ==
  /\ state = "ST_SEQ" /\ hdr_cnt < SEQ_LEN /\ n = SESSION_LEN + hdr_cnt
  /\ seq_reg = Taken(p.seq, SEQ_LEN, hdr_cnt) /\ count_reg = 0 /\ msg_len_reg = 0

InCount(p, n) ==
  /\ state = "ST_COUNT" /\ hdr_cnt < 2 /\ n = SESSION_LEN + SEQ_LEN + hdr_cnt
  /\ seq_reg = p.seq /\ count_reg = Taken(p.count, 2, hdr_cnt) /\ msg_len_reg = 0

InLength(p, n) ==
  /\ state = "ST_MSG_LEN" /\ hdr_cnt < 2 /\ count_reg \in 1 .. Len(p.lens)
  /\ n = Off(p, Current(p) - 1) + hdr_cnt
  /\ seq_reg = 0 /\ msg_len_reg = Taken(p.lens[Current(p)], 2, hdr_cnt)

InBody(p, n) ==
  /\ state = "ST_MSG_BODY" /\ hdr_cnt = 0 /\ count_reg \in 1 .. Len(p.lens)
  /\ n = Off(p, Current(p) - 1) + 2 + body_cnt /\ body_cnt \in Nat
  /\ body_cnt < p.lens[Current(p)]
  /\ seq_reg = 0 /\ msg_len_reg = p.lens[Current(p)]

\* n bytes of p have been taken.
Stands(p, n) ==
  /\ hdr_cnt \in Nat
  /\ InSession(n) \/ InSeq(p, n) \/ InCount(p, n) \/ InLength(p, n) \/ InBody(p, n)

\* Where it stands when n bytes of p have been taken, the end being the start
\* of the next packet.
Moved(p, n) ==
  /\ n <= Len(PacketBytes(p))
  /\ IF n = Len(PacketBytes(p)) THEN hdr_cnt = 0 /\ InSession(0) ELSE Stands(p, n)

\* What the later lemmas use of a packet.
LEMMA PacketFacts ==
  ASSUME NEW p \in Sound
  PROVE  /\ p \in Packet /\ p.lens \in Seq(Length) /\ Len(p.lens) \in Nat
         /\ p.seq \in Nat /\ p.seq < Power[SEQ_LEN] /\ p.count \in Nat /\ p.count < Power[2]
         /\ \A i \in 1 .. Len(p.lens) :
              p.lens[i] \in Length /\ p.lens[i] \in Nat /\ p.lens[i] < Power[2]
         /\ Len(PacketBytes(p)) \in Nat /\ Len(PacketBytes(p)) >= HeaderLen
         /\ Len(PacketBytes(p)) = Off(p, Len(p.lens))
<1>1. p \in Packet
  BY DEF Sound
<1>2. p.lens \in Seq(Length) /\ p.seq \in 0 .. SeqWrap - 1 /\ p.count \in 0 .. Power[2] - 1
  BY <1>1 DEF Packet, Word
<1>3. PICK lens \in Seq(Length) : lens = p.lens
  BY <1>2
<1>4. Len(lens) \in Nat /\ \A i \in 1 .. Len(lens) : lens[i] \in Length
  OBVIOUS
<1>5. \A i \in 1 .. Len(p.lens) :
        p.lens[i] \in Length /\ p.lens[i] \in Nat /\ p.lens[i] < Power[2]
  BY <1>3, <1>4, Lengths
<1>6. Len(PacketBytes(p)) = Off(p, Len(p.lens))
  BY <1>1, BytesAt
<1>7. Len(p.lens) \in 0 .. Len(p.lens)
  BY <1>3, <1>4
<1>8. Off(p, Len(p.lens)) \in Nat /\ Off(p, Len(p.lens)) >= HeaderLen
  BY <1>2, <1>7, Offsets
<1> QED
  BY <1>1, <1>2, <1>3, <1>4, <1>5, <1>6, <1>8, Sizes DEF SeqWrap

\* A byte of the session field.
LEMMA SessionMoves ==
  ASSUME NEW p \in Sound, NEW n \in Nat, hdr_cnt \in Nat, InSession(n), NEW b, SessionByte(b)
  PROVE  Moved(p, n + 1)'
<1>1. n + 1 < HeaderLen /\ HeaderLen <= Len(PacketBytes(p)) /\ Len(PacketBytes(p)) \in Nat
      /\ SESSION_LEN \in Nat
  BY PacketFacts, Sizes DEF InSession
<1>2. UNCHANGED <<seq_reg, count_reg, msg_len_reg>>
  BY DEF SessionByte, header
<1>3. CASE Ends(SESSION_LEN)
  <2>1. state' = "ST_SEQ" /\ hdr_cnt' = 0 /\ n + 1 = SESSION_LEN
    BY <1>1, <1>3 DEF SessionByte, NextByte, Ends, InSession
  <2>2. Taken(p.seq, SEQ_LEN, 0) = 0
    BY PacketFacts, TakenEnds, Sizes
  <2>3. InSeq(p, n + 1)'
    BY <1>1, <1>2, <2>1, <2>2, Sizes DEF InSeq, InSession
  <2>4. Stands(p, n + 1)'
    BY <2>1, <2>3 DEF Stands
  <2> QED
    BY <1>1, <2>4, Sizes DEF Moved
<1>4. CASE ~Ends(SESSION_LEN)
  <2>1. state' = state /\ hdr_cnt' = hdr_cnt + 1 /\ hdr_cnt = n /\ n # SESSION_LEN - 1
    BY <1>4 DEF SessionByte, NextByte, Ends, InSession
  <2>2. InSession(n + 1)'
    BY <1>1, <1>2, <2>1 DEF InSession
  <2>3. Stands(p, n + 1)'
    BY <2>1, <2>2 DEF Stands
  <2> QED
    BY <1>1, <2>3, Sizes DEF Moved
<1> QED
  BY <1>3, <1>4

\* A byte of the sequence number.
LEMMA SeqMoves ==
  ASSUME NEW p \in Sound, NEW n \in Nat, hdr_cnt \in Nat, InSeq(p, n),
         SeqByte(PacketBytes(p)[n + 1])
  PROVE  Moved(p, n + 1)'
<1>1. PICK h : h = hdr_cnt
  OBVIOUS
<1>2. h \in Nat /\ h < SEQ_LEN /\ n = SESSION_LEN + h /\ SESSION_LEN \in Nat /\ SEQ_LEN \in Nat
  BY <1>1, Sizes DEF InSeq
<1>3. n + 1 < HeaderLen /\ HeaderLen <= Len(PacketBytes(p)) /\ Len(PacketBytes(p)) \in Nat
  BY <1>2, PacketFacts, Sizes
<1>4. PacketBytes(p)[n + 1] = Digits(p.seq, SEQ_LEN)[h + 1]
  <2>1. h + 1 \in 1 .. SEQ_LEN /\ n + 1 = SESSION_LEN + (h + 1)
    BY <1>2
  <2> QED
    BY <2>1, PacketFacts, BytesAt
<1>5. seq_reg' = Taken(p.seq, SEQ_LEN, h + 1)
  <2>1. Shift(Taken(p.seq, SEQ_LEN, h), Digits(p.seq, SEQ_LEN)[h + 1], SEQ_LEN)
        = Taken(p.seq, SEQ_LEN, h + 1)
    BY <1>2, PacketFacts, DigitShifts
  <2> QED
    BY <1>1, <1>4, <2>1 DEF SeqByte, InSeq
<1>6. UNCHANGED <<count_reg, msg_len_reg>>
  BY DEF SeqByte
<1>7. CASE Ends(SEQ_LEN)
  <2>1. state' = "ST_COUNT" /\ hdr_cnt' = 0 /\ h + 1 = SEQ_LEN
    BY <1>1, <1>2, <1>7 DEF SeqByte, NextByte, Ends
  <2>2. seq_reg' = p.seq /\ Taken(p.count, 2, 0) = 0
    BY <1>2, <1>5, <2>1, PacketFacts, TakenEnds
  <2>3. n + 1 = SESSION_LEN + SEQ_LEN + 0
    BY <1>2, <2>1
  <2>4. InCount(p, n + 1)'
    BY <1>6, <2>1, <2>2, <2>3 DEF InCount, InSeq
  <2>5. Stands(p, n + 1)'
    BY <2>1, <2>4 DEF Stands
  <2> QED
    BY <1>3, <2>5, Sizes DEF Moved
<1>8. CASE ~Ends(SEQ_LEN)
  <2>1. state' = "ST_SEQ" /\ hdr_cnt' = h + 1 /\ h + 1 < SEQ_LEN
    BY <1>1, <1>2, <1>8 DEF SeqByte, NextByte, Ends
  <2>2. n + 1 = SESSION_LEN + (h + 1)
    BY <1>2
  <2>3. InSeq(p, n + 1)'
    BY <1>5, <1>6, <2>1, <2>2 DEF InSeq
  <2>4. hdr_cnt' \in Nat
    BY <1>2, <2>1
  <2>5. Stands(p, n + 1)'
    BY <2>3, <2>4 DEF Stands
  <2> QED
    BY <1>3, <2>5, Sizes DEF Moved
<1> QED
  BY <1>7, <1>8

\* The last byte of the header completes the count.
LEMMA FullCount ==
  ASSUME NEW p \in Sound, NEW n \in Nat, hdr_cnt \in Nat, InCount(p, n)
  PROVE  /\ Shift(count_reg, PacketBytes(p)[n + 1], 2) = Taken(p.count, 2, hdr_cnt + 1)
         /\ hdr_cnt = 1 => Taken(p.count, 2, hdr_cnt + 1) = p.count
<1>1. PICK h : h = hdr_cnt
  OBVIOUS
<1>2. h \in Nat /\ h < 2 /\ n = SESSION_LEN + SEQ_LEN + h
      /\ SESSION_LEN \in Nat /\ SEQ_LEN \in Nat
  BY <1>1, Sizes DEF InCount
<1>3. h + 1 \in 1 .. 2 /\ n + 1 = SESSION_LEN + SEQ_LEN + (h + 1)
  BY <1>2
<1>4. PacketBytes(p)[n + 1] = Digits(p.count, 2)[h + 1]
  BY <1>3, PacketFacts, BytesAt
<1>5. Shift(Taken(p.count, 2, h), Digits(p.count, 2)[h + 1], 2) = Taken(p.count, 2, h + 1)
  BY <1>2, PacketFacts, DigitShifts
<1>6. Taken(p.count, 2, 2) = p.count
  BY PacketFacts, TakenEnds
<1> QED
  BY <1>1, <1>4, <1>5, <1>6 DEF InCount

\* A byte of the count; the last one decides whether messages follow.
LEMMA CountMoves ==
  ASSUME NEW p \in Sound, NEW n \in Nat, hdr_cnt \in Nat, InCount(p, n),
         CountByte(PacketBytes(p)[n + 1]) \/ HeaderDone(PacketBytes(p)[n + 1])
  PROVE  Moved(p, n + 1)'
<1>1. PICK h, b : h = hdr_cnt /\ b = PacketBytes(p)[n + 1]
  OBVIOUS
<1>2. h \in Nat /\ h < 2 /\ n = SESSION_LEN + SEQ_LEN + h /\ COUNT_LEN = 2
      /\ SESSION_LEN \in Nat /\ SEQ_LEN \in Nat /\ HeaderLen = SESSION_LEN + SEQ_LEN + 2
  BY <1>1, Sizes DEF InCount
<1>3. HeaderLen <= Len(PacketBytes(p)) /\ Len(PacketBytes(p)) \in Nat
  BY PacketFacts
<1>4. Shift(count_reg, b, COUNT_LEN) = Taken(p.count, 2, h + 1)
      /\ (h = 1 => Taken(p.count, 2, h + 1) = p.count)
  BY <1>1, <1>2, FullCount
<1>5. CASE CountByte(b)
  <2>1. /\ state' = "ST_COUNT" /\ hdr_cnt' = h + 1 /\ h # 1
        /\ count_reg' = Taken(p.count, 2, h + 1)
        /\ UNCHANGED <<seq_reg, msg_len_reg>>
    BY <1>1, <1>2, <1>4, <1>5 DEF CountByte, NextByte, Ends, header
  <2>2. h = 0
    BY <1>2, <2>1
  <2>3. InCount(p, n + 1)'
    BY <1>2, <2>1, <2>2 DEF InCount
  <2> QED
    BY <1>2, <1>3, <2>1, <2>2, <2>3 DEF Moved, Stands
<1>6. CASE HeaderDone(b)
  <2>1. h = 1
    BY <1>1, <1>2, <1>6 DEF HeaderDone, Ends
  <2>2. Shift(count_reg, b, COUNT_LEN) = p.count
    BY <1>4, <2>1
  <2>3. /\ state' = IF p.count \in {0, EndCount} THEN "ST_SESSION" ELSE "ST_MSG_LEN"
        /\ count_reg' = IF p.count = EndCount THEN 0 ELSE p.count
        /\ seq_reg' = 0 /\ hdr_cnt' = 0 /\ msg_len_reg' = 0
    BY <1>6, <2>2 DEF HeaderDone, InCount
  <2>4. n + 1 = HeaderLen
    BY <1>2, <2>1
  <2>5. CASE p.count \in {0, EndCount}
    <3>1. p.lens = << >>
      <4>1. p.count = 0 => p.lens = << >>
        BY PacketFacts DEF Sound
      <4> QED
        BY <2>5, <4>1 DEF Sound
    <3>2. Len(PacketBytes(p)) = HeaderLen
      <4>1. Len(p.lens) = 0 /\ p.lens \in Seq(Length)
        BY <3>1, PacketFacts
      <4> QED
        BY <4>1, PacketFacts, Offsets
    <3>3. state' = "ST_SESSION" /\ count_reg' = 0
      BY <2>3, <2>5
    <3>4. InSession(0)'
      BY <2>3, <3>3, Sizes DEF InSession
    <3> QED
      BY <1>3, <2>3, <2>4, <3>2, <3>4 DEF Moved
  <2>6. CASE p.count \notin {0, EndCount}
    <3>1. p.lens # << >> /\ p.count = Len(p.lens) /\ Len(p.lens) \in Nat /\ Len(p.lens) > 0
      <4>1. p.lens # << >> /\ p.count = Len(p.lens)
        BY <2>6 DEF Sound
      <4> QED
        BY <2>6, <4>1, PacketFacts
    <3>2. state' = "ST_MSG_LEN" /\ count_reg' = Len(p.lens)
      BY <2>3, <2>6, <3>1
    <3>3. Current(p)' = 1 /\ 1 \in 1 .. Len(p.lens)
      BY <3>1, <3>2 DEF Current
    <3>4. Off(p, 1 - 1) = HeaderLen /\ Off(p, 0) < Off(p, Len(p.lens))
      BY <3>1, PacketFacts, Offsets
    <3>5. Taken(p.lens[1], 2, 0) = 0
      BY <3>3, PacketFacts, TakenEnds
    <3>6. InLength(p, n + 1)'
      <4>1. n + 1 = Off(p, 1 - 1) + 0
        BY <1>2, <2>4, <3>4
      <4> QED
        BY <2>3, <3>1, <3>2, <3>3, <3>5, <4>1 DEF InLength
    <3>7. n + 1 < Len(PacketBytes(p))
      BY <2>4, <3>4, PacketFacts
    <3> QED
      BY <1>2, <1>3, <2>3, <3>6, <3>7 DEF Moved, Stands
  <2> QED
    BY <2>5, <2>6
<1> QED
  BY <1>1, <1>5, <1>6

\* Behind its last byte a message is done, and with the last one the packet.
LEMMA MessageDone ==
  ASSUME NEW p \in Sound, NEW n \in Nat, count_reg \in 1 .. Len(p.lens),
         n = Off(p, Current(p)), count_reg' = count_reg - 1, state' = AfterMessage,
         hdr_cnt' = 0, seq_reg' = 0, msg_len_reg' = 0
  PROVE  Moved(p, n)'
<1>1. PICK i, all : i = Current(p) /\ all = Len(p.lens)
  OBVIOUS
<1>2. all \in Nat /\ i \in 1 .. all /\ count_reg = all - i + 1 /\ count_reg' = all - i
  BY <1>1, PacketFacts DEF Current
<1>3. Len(PacketBytes(p)) = Off(p, all) /\ Len(PacketBytes(p)) \in Nat
  BY <1>1, PacketFacts
<1>4. CASE count_reg = 1
  <2>1. i = all /\ state' = "ST_SESSION" /\ count_reg' = 0
    BY <1>2, <1>4 DEF AfterMessage
  <2>2. InSession(0)'
    BY <2>1, Sizes DEF InSession
  <2> QED
    BY <1>1, <1>3, <2>1, <2>2 DEF Moved
<1>5. CASE count_reg # 1
  <2>1. i + 1 \in 1 .. all /\ i < all /\ state' = "ST_MSG_LEN" /\ count_reg' \in 1 .. all
    BY <1>2, <1>5 DEF AfterMessage
  <2>2. Current(p)' = i + 1 /\ (i + 1) - 1 = i
    BY <1>1, <1>2 DEF Current
  <2>3. i \in 0 .. all /\ all \in 0 .. all
    BY <1>2
  <2>4. Off(p, i) < Off(p, all) /\ Off(p, i) \in Nat
    BY <1>1, <2>1, <2>3, PacketFacts, Offsets
  <2>5. Taken(p.lens[i + 1], 2, 0) = 0
    BY <1>1, <2>1, PacketFacts, TakenEnds
  <2>6. InLength(p, n)'
    <3>1. n = Off(p, i) + 0
      BY <1>1, <2>4
    <3> QED
      BY <1>1, <2>1, <2>2, <2>5, <3>1 DEF InLength
  <2> QED
    BY <1>1, <1>3, <2>4, <2>6 DEF Moved, Stands
<1> QED
  BY <1>4, <1>5

\* Facts about the message under way.
LEMMA CurrentIs ==
  ASSUME NEW p \in Sound, count_reg \in 1 .. Len(p.lens)
  PROVE  /\ Current(p) \in 1 .. Len(p.lens)
         /\ p.lens[Current(p)] \in Nat /\ p.lens[Current(p)] < Power[2]
         /\ Off(p, Current(p) - 1) \in Nat /\ Off(p, Current(p) - 1) >= HeaderLen
         /\ Off(p, Current(p)) = Off(p, Current(p) - 1) + 2 + p.lens[Current(p)]
         /\ Off(p, Current(p)) <= Len(PacketBytes(p))
         /\ \A j \in 1 .. 2 : PacketBytes(p)[Off(p, Current(p) - 1) + j]
                              = Digits(p.lens[Current(p)], 2)[j]
<1>1. PICK i, all : i = Current(p) /\ all = Len(p.lens)
  OBVIOUS
<1>2. all \in Nat /\ i \in 1 .. all /\ i \in 0 .. all /\ i - 1 \in 0 .. all /\ all \in 0 .. all
  BY <1>1, PacketFacts DEF Current
<1>3. Off(p, i) <= Off(p, all)
  <2>1. Off(p, i) \in Nat /\ (i = all \/ i < all)
    BY <1>1, <1>2, PacketFacts, Offsets
  <2>2. i < all => Off(p, i) < Off(p, all)
    BY <1>1, <1>2, PacketFacts, Offsets
  <2> QED
    BY <1>1, <1>2, <2>1, <2>2, PacketFacts
<1>4. p.lens[i] \in Nat /\ p.lens[i] < Power[2]
  BY <1>1, <1>2, PacketFacts
<1>5. Off(p, i - 1) \in Nat /\ Off(p, i - 1) >= HeaderLen
  BY <1>1, <1>2, PacketFacts, Offsets
<1>6. Off(p, i) = Off(p, i - 1) + 2 + p.lens[i]
  BY <1>1, <1>2, PacketFacts, Offsets
<1>7. \A j \in 1 .. 2 : PacketBytes(p)[Off(p, i - 1) + j] = Digits(p.lens[i], 2)[j]
  BY <1>1, <1>2, PacketFacts, BytesAt
<1> QED
  BY <1>1, <1>2, <1>3, <1>4, <1>5, <1>6, <1>7, PacketFacts

\* A byte of a length prefix; an empty message is done with it.
LEMMA LengthMoves ==
  ASSUME NEW p \in Sound, NEW n \in Nat, hdr_cnt \in Nat, InLength(p, n), NEW b,
         b = PacketBytes(p)[n + 1], LengthByte(b) \/ ZeroLength(b) \/ LengthDone(b)
  PROVE  Moved(p, n + 1)'
<1>1. PICK h, i, len, off :
        h = hdr_cnt /\ i = Current(p) /\ len = p.lens[i] /\ off = Off(p, i - 1)
  OBVIOUS
<1>2. count_reg \in 1 .. Len(p.lens)
  BY DEF InLength
<1>3. /\ i \in 1 .. Len(p.lens) /\ len \in Nat /\ len < Power[2] /\ off \in Nat
      /\ Off(p, i) = off + 2 + len /\ off + 2 + len <= Len(PacketBytes(p))
      /\ Len(PacketBytes(p)) \in Nat
      /\ \A j \in 1 .. 2 : PacketBytes(p)[off + j] = Digits(len, 2)[j]
  BY <1>1, <1>2, CurrentIs, PacketFacts
<1>4. h \in Nat /\ h < 2 /\ n = off + h /\ msg_len_reg = Taken(len, 2, h) /\ LEN_LEN = 2
  BY <1>1, Sizes DEF InLength
<1>5. b = Digits(len, 2)[h + 1]
  <2>1. h + 1 \in 1 .. 2 /\ n + 1 = off + (h + 1)
    BY <1>3, <1>4
  <2> QED
    BY <1>3, <2>1
<1>6. Shift(msg_len_reg, b, LEN_LEN) = Taken(len, 2, h + 1)
  BY <1>3, <1>4, <1>5, DigitShifts
<1>7. h = 1 => Taken(len, 2, h + 1) = len
  BY <1>3, TakenEnds
<1>8. seq_reg = 0
  BY DEF InLength
<1>9. CASE LengthByte(b)
  <2>1. /\ state' = "ST_MSG_LEN" /\ hdr_cnt' = h + 1 /\ h # 1
        /\ msg_len_reg' = Taken(len, 2, h + 1)
        /\ count_reg' = count_reg /\ seq_reg' = 0
    BY <1>1, <1>4, <1>6, <1>8, <1>9 DEF LengthByte, NextByte, Ends, header
  <2>2. h = 0
    BY <1>4, <2>1
  <2>3. Current(p)' = i
    BY <1>1, <2>1 DEF Current
  <2>4. InLength(p, n + 1)'
    <3>1. n + 1 = off + (h + 1) /\ h + 1 < 2
      BY <1>3, <1>4, <2>2
    <3>2. count_reg' \in 1 .. Len(p.lens)
      BY <1>2, <2>1
    <3>3. msg_len_reg' = Taken(p.lens[i], 2, h + 1) /\ n + 1 = Off(p, i - 1) + (h + 1)
      BY <1>1, <2>1, <3>1
    <3> QED
      BY <2>1, <2>3, <3>1, <3>2, <3>3 DEF InLength
  <2>5. n + 1 < Len(PacketBytes(p))
    BY <1>3, <1>4, <2>2
  <2> QED
    BY <1>3, <1>4, <2>1, <2>4, <2>5 DEF Moved, Stands
<1>10. CASE ZeroLength(b)
  <2>1. h = 1
    BY <1>1, <1>4, <1>10 DEF ZeroLength, Ends
  <2>2. len = 0
    BY <1>6, <1>7, <1>10, <2>1 DEF ZeroLength
  <2>3. /\ count_reg' = count_reg - 1 /\ state' = AfterMessage /\ hdr_cnt' = 0
        /\ seq_reg' = 0 /\ msg_len_reg' = 0
    BY <1>8, <1>10 DEF ZeroLength, header
  <2>4. n + 1 \in Nat /\ n + 1 = Off(p, Current(p))
    BY <1>1, <1>3, <1>4, <2>1, <2>2
  <2> QED
    BY <1>2, <2>3, <2>4, MessageDone
<1>11. CASE LengthDone(b)
  <2>1. h = 1
    BY <1>1, <1>4, <1>11 DEF LengthDone, Ends
  <2>2. len # 0 /\ msg_len_reg' = len
    BY <1>6, <1>7, <1>11, <2>1 DEF LengthDone
  <2>3. /\ state' = "ST_MSG_BODY" /\ hdr_cnt' = 0 /\ body_cnt' = 0
        /\ count_reg' = count_reg /\ seq_reg' = 0
    BY <1>8, <1>11 DEF LengthDone, header
  <2>4. Current(p)' = i
    BY <1>1, <2>3 DEF Current
  <2>5. n + 1 = off + 2 + 0 /\ 0 < len /\ n + 1 < Len(PacketBytes(p))
    BY <1>3, <1>4, <2>1, <2>2
  <2>6. InBody(p, n + 1)'
    BY <1>1, <1>2, <2>2, <2>3, <2>4, <2>5 DEF InBody
  <2> QED
    BY <1>3, <2>3, <2>5, <2>6 DEF Moved, Stands
<1> QED
  BY <1>9, <1>10, <1>11

\* A byte of a message.
LEMMA BodyMoves ==
  ASSUME NEW p \in Sound, NEW n \in Nat, hdr_cnt \in Nat, InBody(p, n), NEW b,
         BodyByte(b) \/ BodyDone(b)
  PROVE  Moved(p, n + 1)'
<1>1. PICK i, len, off : i = Current(p) /\ len = p.lens[i] /\ off = Off(p, i - 1)
  OBVIOUS
<1>2. count_reg \in 1 .. Len(p.lens)
  BY DEF InBody
<1>3. /\ i \in 1 .. Len(p.lens) /\ len \in Nat /\ off \in Nat
      /\ Off(p, i) = off + 2 + len /\ off + 2 + len <= Len(PacketBytes(p))
      /\ Len(PacketBytes(p)) \in Nat
  BY <1>1, <1>2, CurrentIs, PacketFacts
<1>4. /\ body_cnt \in Nat /\ body_cnt < len /\ n = off + 2 + body_cnt /\ msg_len_reg = len
      /\ seq_reg = 0 /\ hdr_cnt = 0
  BY <1>1 DEF InBody
<1>5. CASE BodyByte(b)
  <2>1. /\ state' = "ST_MSG_BODY" /\ hdr_cnt' = 0 /\ body_cnt' = body_cnt + 1
        /\ count_reg' = count_reg /\ seq_reg' = 0 /\ msg_len_reg' = len
        /\ body_cnt # len - 1
    BY <1>4, <1>5 DEF BodyByte, header
  <2>2. Current(p)' = i
    BY <1>1, <2>1 DEF Current
  <2>3. /\ body_cnt' \in Nat /\ body_cnt' < len /\ n + 1 = off + 2 + body_cnt'
        /\ n + 1 < Len(PacketBytes(p))
    BY <1>3, <1>4, <2>1
  <2>4. InBody(p, n + 1)'
    BY <1>1, <1>2, <2>1, <2>2, <2>3 DEF InBody
  <2> QED
    BY <1>3, <2>1, <2>3, <2>4 DEF Moved, Stands
<1>6. CASE BodyDone(b)
  <2>1. /\ count_reg' = count_reg - 1 /\ state' = AfterMessage /\ hdr_cnt' = 0
        /\ seq_reg' = 0 /\ msg_len_reg' = 0 /\ body_cnt = len - 1
    BY <1>4, <1>6 DEF BodyDone, header
  <2>2. body_cnt + 1 = len
    BY <1>3, <1>4, <2>1
  <2>3. n + 1 \in Nat /\ n + 1 = Off(p, i)
    BY <1>3, <1>4, <2>2
  <2> QED
    BY <1>1, <1>2, <2>1, <2>3, MessageDone
<1> QED
  BY <1>5, <1>6

\* A byte of the packet takes the framer one place further, and the last one
\* back to the start.
LEMMA ByteMoves ==
  ASSUME NEW p \in Sound, NEW n \in Nat, Stands(p, n), FramerByte(PacketBytes(p)[n + 1])
  PROVE  Moved(p, n + 1)'
<1>1. PICK b : b = PacketBytes(p)[n + 1]
  OBVIOUS
<1>2. hdr_cnt \in Nat /\ FramerByte(b)
  BY <1>1 DEF Stands
<1>3. CASE InSession(n)
  <2>1. SessionByte(b)
    BY <1>2, <1>3 DEF InSession, FramerByte, SeqByte, CountByte, HeaderDone, LengthByte,
                      ZeroLength, LengthDone, BodyByte, BodyDone
  <2> QED
    BY <1>2, <1>3, <2>1, SessionMoves
<1>4. CASE InSeq(p, n)
  <2>1. SeqByte(b)
    BY <1>2, <1>4 DEF InSeq, FramerByte, SessionByte, CountByte, HeaderDone, LengthByte,
                      ZeroLength, LengthDone, BodyByte, BodyDone
  <2> QED
    BY <1>1, <1>2, <1>4, <2>1, SeqMoves
<1>5. CASE InCount(p, n)
  <2>1. CountByte(b) \/ HeaderDone(b)
    BY <1>2, <1>5 DEF InCount, FramerByte, SessionByte, SeqByte, LengthByte,
                      ZeroLength, LengthDone, BodyByte, BodyDone
  <2> QED
    BY <1>1, <1>2, <1>5, <2>1, CountMoves
<1>6. CASE InLength(p, n)
  <2>1. LengthByte(b) \/ ZeroLength(b) \/ LengthDone(b)
    BY <1>2, <1>6 DEF InLength, FramerByte, SessionByte, SeqByte, CountByte, HeaderDone,
                      BodyByte, BodyDone
  <2> QED
    BY <1>1, <1>2, <1>6, <2>1, LengthMoves
<1>7. CASE InBody(p, n)
  <2>1. BodyByte(b) \/ BodyDone(b)
    BY <1>2, <1>7 DEF InBody, FramerByte, SessionByte, SeqByte, CountByte, HeaderDone,
                      LengthByte, ZeroLength, LengthDone
  <2> QED
    BY <1>1, <1>2, <1>7, <2>1, BodyMoves
<1> QED
  BY <1>3, <1>4, <1>5, <1>6, <1>7 DEF Stands

-----------------------------------------------------------------------------
(* The invariants of the link.                                              *)

PacketsInv ==
  /\ seq \in Nat /\ batch \in Seq(Length) /\ seq + Len(batch) <= LastSeq
  /\ Len(batch) < msgs_per_packet
  /\ net \in Seq(Sound) /\ sent \in Nat /\ faults \in 0 .. MaxFaults

\* Between packets the framer waits for a session field; otherwise it stands
\* in the first packet on the wire.
Place == IF sent = 0 THEN hdr_cnt = 0 /\ InSession(0)
         ELSE net # << >> /\ Stands(Head(net), sent)

\* The bytes passed through are those of the message under way.
RunInv == (IF out_last THEN 0 ELSE run) = IF state = "ST_MSG_BODY" THEN body_cnt ELSE 0

\* The number behind packet i on the wire, the framer's expectation before the
\* first, and the number of packet i, the writer's next one behind the last.
After(n, e, i) == IF i = 0 THEN e ELSE n[i].seq + Len(n[i].lens)
At(n, s, i)    == IF i = Len(n) + 1 THEN s ELSE n[i].seq

\* The places where the numbers do not go on: each is a gap that the framer has
\* yet to count.  The first is open until the header of the packet has been judged.
Seams(n, s, e, open) ==
  {i \in 1 .. Len(n) + 1 : At(n, s, i) # After(n, e, i - 1) /\ (i = 1 => open)}

Breaks == Seams(net, seq, expected_seq, ~first_pkt /\ sent < HeaderLen)

\* A fault leaves three places at most where the numbers do not go on.
GapInv ==
  /\ gap_count \in Nat /\ expected_seq \in Nat /\ first_pkt \in BOOLEAN
  /\ sent >= HeaderLen => ~first_pkt /\ expected_seq = After(net, 0, 1)
  /\ gap_count + Cardinality(Breaks) <= 3 * faults

\* The number of the next message.
NextNumber == IF sent >= HeaderLen THEN Head(net).seq + EndedBy(Head(net), sent)
              ELSE expected_seq

DueInv == gap_count = 0 => in_order /\ (due_number # 0 => ~first_pkt /\ due_number = NextNumber)

LinkInv == PacketsInv /\ Place /\ RunInv /\ GapInv /\ DueInv

-----------------------------------------------------------------------------
(* What the writer and the network do to the packets on the wire.           *)

\* RemoveAt, place by place.
LEMMA Removed ==
  ASSUME NEW T, NEW s \in Seq(T), NEW i \in 1 .. Len(s)
  PROVE  /\ RemoveAt(s, i) \in Seq(T) /\ Len(RemoveAt(s, i)) = Len(s) - 1
         /\ \A k \in 1 .. Len(s) - 1 : RemoveAt(s, i)[k] = IF k < i THEN s[k] ELSE s[k + 1]
<1>1. PICK n : n = Len(s)
  OBVIOUS
<1>2. n \in Nat /\ i \in 1 .. n /\ \A k \in 1 .. n : s[k] \in T
  BY <1>1
<1>3. PICK a, b : a = SubSeq(s, 1, i - 1) /\ b = SubSeq(s, i + 1, n)
  OBVIOUS
<1>4. a \in Seq(T) /\ Len(a) = i - 1 /\ \A k \in 1 .. i - 1 : a[k] = s[k]
  BY <1>2, <1>3, SubSeqProperties
<1>5. b \in Seq(T) /\ Len(b) = n - i /\ \A k \in 1 .. n - i : b[k] = s[i + k]
  BY <1>2, <1>3, SubSeqProperties
<1>6. /\ a \o b \in Seq(T) /\ Len(a \o b) = Len(a) + Len(b)
      /\ \A k \in 1 .. Len(a) : (a \o b)[k] = a[k]
      /\ \A k \in 1 .. Len(b) : (a \o b)[Len(a) + k] = b[k]
  <2>1. EndToEndIs(T, a, b)
    BY <1>4, <1>5, Joined
  <2> QED
    BY <2>1 DEF EndToEndIs
<1>7. /\ a \o b \in Seq(T) /\ Len(a \o b) = n - 1
      /\ \A k \in 1 .. i - 1 : (a \o b)[k] = s[k]
      /\ \A k \in 1 .. n - i : (a \o b)[(i - 1) + k] = s[i + k]
  <2>1. (i - 1) + (n - i) = n - 1
    BY <1>2
  <2> QED
    BY <1>4, <1>5, <1>6, <2>1
<1>8. ASSUME NEW k \in 1 .. n - 1
      PROVE  (a \o b)[k] = IF k < i THEN s[k] ELSE s[k + 1]
  <2>1. CASE k < i
    <3>1. k \in 1 .. i - 1
      BY <1>2, <2>1
    <3> QED
      BY <1>7, <2>1, <3>1
  <2>2. CASE ~(k < i)
    <3>1. PICK m : m = k - (i - 1)
      OBVIOUS
    <3>2. m \in 1 .. n - i /\ (i - 1) + m = k /\ i + m = k + 1
      BY <1>2, <2>2, <3>1
    <3>3. (a \o b)[(i - 1) + m] = s[i + m]
      BY <1>7, <3>2
    <3> QED
      BY <2>2, <3>2, <3>3
  <2> QED
    BY <2>1, <2>2
<1> QED
  BY <1>1, <1>3, <1>7, <1>8 DEF RemoveAt

\* InsertAt, place by place.
LEMMA Inserted ==
  ASSUME NEW T, NEW s \in Seq(T), NEW i \in 1 .. Len(s), NEW e \in T
  PROVE  /\ InsertAt(s, i, e) \in Seq(T) /\ Len(InsertAt(s, i, e)) = Len(s) + 1
         /\ \A k \in 1 .. Len(s) + 1 :
              InsertAt(s, i, e)[k] = IF k < i THEN s[k] ELSE IF k = i THEN e ELSE s[k - 1]
<1>1. PICK n : n = Len(s)
  OBVIOUS
<1>2. n \in Nat /\ i \in 1 .. n /\ \A k \in 1 .. n : s[k] \in T
  BY <1>1
<1>3. PICK a, b : a = SubSeq(s, 1, i - 1) /\ b = SubSeq(s, i, n)
  OBVIOUS
<1>4. a \in Seq(T) /\ Len(a) = i - 1 /\ \A k \in 1 .. i - 1 : a[k] = s[k]
  BY <1>2, <1>3, SubSeqProperties
<1>5. b \in Seq(T) /\ Len(b) = n - i + 1 /\ \A k \in 1 .. n - i + 1 : b[k] = s[i + k - 1]
  BY <1>2, <1>3, SubSeqProperties
<1>6. PICK c : c = Append(a, e)
  OBVIOUS
<1>7. a \o <<e>> = c
  BY <1>4, <1>6, AppendIsConcat
<1>8. /\ c \in Seq(T) /\ Len(c) = i
      /\ \A k \in 1 .. i - 1 : c[k] = s[k]
      /\ c[i] = e
  BY <1>2, <1>4, <1>6, AppendProperties
<1>9. /\ c \o b \in Seq(T) /\ Len(c \o b) = Len(c) + Len(b)
      /\ \A k \in 1 .. Len(c) : (c \o b)[k] = c[k]
      /\ \A k \in 1 .. Len(b) : (c \o b)[Len(c) + k] = b[k]
  <2>1. EndToEndIs(T, c, b)
    BY <1>5, <1>8, Joined
  <2> QED
    BY <2>1 DEF EndToEndIs
<1>10. /\ c \o b \in Seq(T) /\ Len(c \o b) = n + 1
       /\ \A k \in 1 .. i : (c \o b)[k] = c[k]
       /\ \A k \in 1 .. n - i + 1 : (c \o b)[i + k] = s[i + k - 1]
  <2>1. i + (n - i + 1) = n + 1
    BY <1>2
  <2> QED
    BY <1>5, <1>8, <1>9, <2>1
<1>11. ASSUME NEW k \in 1 .. n + 1
       PROVE  (c \o b)[k] = IF k < i THEN s[k] ELSE IF k = i THEN e ELSE s[k - 1]
  <2>1. CASE k <= i
    <3>1. k \in 1 .. i /\ (k < i => k \in 1 .. i - 1)
      BY <1>2, <2>1
    <3> QED
      BY <1>2, <1>8, <1>10, <2>1, <3>1
  <2>2. CASE ~(k <= i)
    <3>1. PICK m : m = k - i
      OBVIOUS
    <3>2. m \in 1 .. n - i + 1 /\ i + m = k /\ i + m - 1 = k - 1
      BY <1>2, <2>2, <3>1
    <3>3. (c \o b)[i + m] = s[i + m - 1]
      BY <1>10, <3>2
    <3>4. ~(k < i) /\ k # i
      BY <1>2, <2>2
    <3>5. PICK x, y : x = i + m /\ y = i + m - 1
      OBVIOUS
    <3>6. (c \o b)[x] = s[y] /\ x = k /\ y = k - 1
      BY <3>2, <3>3, <3>5
    <3> QED
      BY <3>4, <3>6
  <2> QED
    BY <2>1, <2>2
<1> QED
  BY <1>1, <1>3, <1>7, <1>10, <1>11 DEF InsertAt

\* Two neighbours swapped, place by place.
LEMMA Swapped ==
  ASSUME NEW T, NEW s \in Seq(T), NEW i \in 1 .. Len(s), i < Len(s)
  PROVE  LET r == [s EXCEPT ![i] = s[i + 1], ![i + 1] = s[i]]
         IN  /\ r \in Seq(T) /\ Len(r) = Len(s)
             /\ \A k \in 1 .. Len(s) : k \notin {i, i + 1} => r[k] = s[k]
<1>1. i + 1 \in 1 .. Len(s) /\ s[i] \in T /\ s[i + 1] \in T
  BY LenProperties
<1>2. PICK q : q = [s EXCEPT ![i] = s[i + 1]]
  OBVIOUS
<1>3. /\ q \in Seq(T) /\ Len(q) = Len(s)
      /\ \A k \in 1 .. Len(s) : q[k] = IF k = i THEN s[i + 1] ELSE s[k]
  BY <1>1, <1>2, ExceptSeq
<1>4. PICK r : r = [q EXCEPT ![i + 1] = s[i]]
  OBVIOUS
<1>5. /\ r \in Seq(T) /\ Len(r) = Len(s)
      /\ \A k \in 1 .. Len(s) : r[k] = IF k = i + 1 THEN s[i] ELSE q[k]
  BY <1>1, <1>3, <1>4, ExceptSeq
<1>6. [s EXCEPT ![i] = s[i + 1], ![i + 1] = s[i]] = r
  BY <1>2, <1>4
<1> QED
  BY <1>3, <1>5, <1>6

\* Seams are places on the wire, so there are finitely many.
LEMMA SeamsFinite ==
  ASSUME NEW n, Len(n) \in Nat, NEW s, NEW e, NEW open
  PROVE  IsFiniteSet(Seams(n, s, e, open)) /\ Cardinality(Seams(n, s, e, open)) \in Nat
<1>1. IsFiniteSet(1 .. Len(n) + 1)
  <2>1. 1 \in Int /\ Len(n) + 1 \in Int
    OBVIOUS
  <2> QED
    BY <2>1, FS_Interval
<1>2. Seams(n, s, e, open) \in SUBSET (1 .. Len(n) + 1)
  BY DEF Seams
<1>3. IsFiniteSet(Seams(n, s, e, open))
  BY <1>1, <1>2, FS_Subset
<1> QED
  BY <1>3, FS_CardinalityType

\* Outside C, A has no more members than B.
LEMMA NoMore ==
  ASSUME NEW A, NEW B, NEW C, IsFiniteSet(A), IsFiniteSet(B), IsFiniteSet(C),
         NEW f, f \in [A \ C -> B],
         \A x, y \in A \ C : f[x] = f[y] => x = y
  PROVE  Cardinality(A) <= Cardinality(B) + Cardinality(C)
<1>1. PICK D : D = A \ C
  OBVIOUS
<1>2. f \in Injection(D, B)
  BY <1>1 DEF Injection, IsInjective
<1>3. IsFiniteSet(D) /\ Cardinality(D) <= Cardinality(B)
  BY <1>2, FS_Injection
<1>4. IsFiniteSet(D \cup C) /\ Cardinality(D \cup C) <= Cardinality(D) + Cardinality(C)
  <2>1. Cardinality(D \cup C) = Cardinality(D) + Cardinality(C) - Cardinality(D \cap C)
        /\ IsFiniteSet(D \cup C)
    BY <1>3, FS_Union
  <2>2. D \cap C = {}
    BY <1>1
  <2>3. Cardinality(D) \in Nat /\ Cardinality(C) \in Nat
    BY <1>3, FS_CardinalityType
  <2> QED
    BY <2>1, <2>2, <2>3, FS_EmptySet
<1>5. A \in SUBSET (D \cup C)
  BY <1>1
<1>6. Cardinality(A) <= Cardinality(D \cup C)
  BY <1>4, <1>5, FS_Subset
<1>7. /\ Cardinality(A) \in Nat /\ Cardinality(B) \in Nat /\ Cardinality(C) \in Nat
      /\ Cardinality(D) \in Nat /\ Cardinality(D \cup C) \in Nat
  BY <1>3, <1>4, FS_CardinalityType
<1> QED
  BY <1>3, <1>4, <1>6, <1>7

\* A packet that continues the numbers adds no seam.
LEMMA SeamsAppend ==
  ASSUME NEW T, NEW n \in Seq(T), NEW p \in T, NEW s, NEW t, NEW e, NEW open,
         p.seq = s, t = p.seq + Len(p.lens)
  PROVE  Seams(Append(n, p), t, e, open) = Seams(n, s, e, open)
<1>1. PICK k, m : k = Len(n) /\ m = Append(n, p)
  OBVIOUS
<1>2. k \in Nat /\ Len(m) = k + 1 /\ m[k + 1] = p /\ \A i \in 1 .. k : m[i] = n[i]
  BY <1>1, AppendProperties
<1>3. ASSUME NEW i \in 1 .. k + 1
      PROVE  At(m, t, i) = At(n, s, i) /\ After(m, e, i - 1) = After(n, e, i - 1)
  <2>1. i # Len(m) + 1 /\ (i = k + 1 \/ i \in 1 .. k) /\ (i \in 1 .. k => i # k + 1)
    BY <1>2
  <2>2. i - 1 = 0 \/ i - 1 \in 1 .. k
    BY <1>2
  <2>3. At(m, t, i) = At(n, s, i)
    BY <1>1, <1>2, <2>1 DEF At
  <2>4. After(m, e, i - 1) = After(n, e, i - 1)
    BY <1>2, <2>2 DEF After
  <2> QED
    BY <2>3, <2>4
<1>4. At(m, t, (k + 1) + 1) = t /\ After(m, e, k + 1) = t /\ ((k + 1) + 1) - 1 = k + 1
  BY <1>2 DEF At, After
<1>5. ASSUME NEW i PROVE i \in Seams(m, t, e, open) <=> i \in Seams(n, s, e, open)
  <2>1. CASE i \in 1 .. k + 1
    <3>1. i \in 1 .. Len(m) + 1
      BY <1>2, <2>1
    <3> QED
      BY <1>1, <1>3, <2>1, <3>1 DEF Seams
  <2>2. CASE i \notin 1 .. k + 1
    <3>1. i \in 1 .. Len(m) + 1 => i = (k + 1) + 1
      BY <1>2, <2>2
    <3>2. i \notin Seams(m, t, e, open)
      BY <1>4, <3>1 DEF Seams
    <3> QED
      BY <1>1, <2>2, <3>2 DEF Seams
  <2> QED
    BY <2>1, <2>2
<1> QED
  BY <1>1, <1>5

\* A lost packet leaves one place where the numbers may not go on.
LEMMA SeamsRemove ==
  ASSUME NEW T, NEW n \in Seq(T), NEW i \in 1 .. Len(n), NEW s, NEW e, NEW open
  PROVE  Cardinality(Seams(RemoveAt(n, i), s, e, open)) <= Cardinality(Seams(n, s, e, open)) + 1
<1>1. PICK k, m : k = Len(n) /\ m = RemoveAt(n, i)
  OBVIOUS
<1>2. /\ k \in Nat /\ i \in 1 .. k /\ Len(m) = k - 1 /\ Len(m) \in Nat
      /\ \A j \in 1 .. k - 1 : m[j] = IF j < i THEN n[j] ELSE n[j + 1]
  <2>1. Len(n) \in Nat /\ k \in Nat /\ i \in 1 .. k
    BY <1>1
  <2>2. Len(m) = k - 1 /\ \A j \in 1 .. k - 1 : m[j] = IF j < i THEN n[j] ELSE n[j + 1]
    BY <1>1, Removed
  <2> QED
    BY <2>1, <2>2
<1>3. PICK A, B : A = Seams(m, s, e, open) /\ B = Seams(n, s, e, open)
  OBVIOUS
<1>4. IsFiniteSet(A) /\ IsFiniteSet(B) /\ IsFiniteSet({i}) /\ Cardinality({i}) = 1
  BY <1>1, <1>2, <1>3, SeamsFinite, FS_Singleton
<1>5. ASSUME NEW j \in A \ {i}
      PROVE  (IF j < i THEN j ELSE j + 1) \in B
  <2>1. j \in 1 .. k /\ j # i /\ At(m, s, j) # After(m, e, j - 1) /\ (j = 1 => open)
    BY <1>2, <1>3 DEF Seams
  <2>2. CASE j < i
    <3>1. j \in 1 .. k - 1 /\ j # Len(m) + 1 /\ j # k + 1 /\ j \in 1 .. k + 1
          /\ (j - 1 = 0 \/ (j - 1 \in 1 .. k - 1 /\ j - 1 < i))
      BY <1>2, <2>1, <2>2
    <3>2. At(m, s, j) = At(n, s, j) /\ After(m, e, j - 1) = After(n, e, j - 1)
      BY <1>1, <1>2, <2>2, <3>1 DEF At, After
    <3> QED
      BY <1>1, <1>3, <2>1, <2>2, <3>1, <3>2 DEF Seams
  <2>3. CASE ~(j < i)
    <3>1. PICK h : h = j - 1
      OBVIOUS
    <3>2. j > i /\ j + 1 \in 1 .. k + 1 /\ j + 1 # 1 /\ (j + 1) - 1 = j /\ j # 0
          /\ h \in 1 .. k - 1 /\ ~(h < i) /\ h + 1 = j /\ h # 0
      BY <1>2, <2>1, <2>3, <3>1
    <3>3. m[h] = n[j]
      BY <1>2, <3>2
    <3>4. After(m, e, h) = After(n, e, j)
      BY <3>2, <3>3 DEF After
    <3>5. At(m, s, j) = At(n, s, j + 1)
      <4>1. CASE j = k
        BY <1>1, <1>2, <4>1 DEF At
      <4>2. CASE j # k
        <5>1. j \in 1 .. k - 1 /\ j # Len(m) + 1 /\ j + 1 # k + 1
          BY <1>2, <2>1, <4>2
        <5> QED
          BY <1>1, <1>2, <2>3, <5>1 DEF At
      <4> QED
        BY <4>1, <4>2
    <3>6. j + 1 \in B
      BY <1>1, <1>3, <2>1, <3>1, <3>2, <3>4, <3>5 DEF Seams
    <3> QED
      BY <2>3, <3>6
  <2> QED
    BY <2>2, <2>3
<1>6. PICK f : f = [j \in A \ {i} |-> IF j < i THEN j ELSE j + 1]
  OBVIOUS
<1>7. f \in [A \ {i} -> B]
  BY <1>5, <1>6
<1>8. \A x, y \in A \ {i} : f[x] = f[y] => x = y
  <2>1. A \subseteq Int /\ i \in Int
    BY <1>2, <1>3 DEF Seams
  <2> QED
    BY <1>6, <2>1
<1>9. Cardinality(A) <= Cardinality(B) + Cardinality({i})
  BY <1>4, <1>7, <1>8, NoMore
<1> QED
  BY <1>1, <1>3, <1>4, <1>9

\* A repeated packet leaves one place, between the two copies.
LEMMA SeamsInsert ==
  ASSUME NEW T, NEW n \in Seq(T), NEW i \in 1 .. Len(n), NEW s, NEW e, NEW open
  PROVE  Cardinality(Seams(InsertAt(n, i, n[i]), s, e, open))
         <= Cardinality(Seams(n, s, e, open)) + 1
<1>1. PICK k, m : k = Len(n) /\ m = InsertAt(n, i, n[i])
  OBVIOUS
<1>2. k \in Nat /\ i \in 1 .. k /\ i + 1 \in Nat /\ n[i] \in T
  BY <1>1
<1>3. /\ Len(m) = k + 1
      /\ \A j \in 1 .. k + 1 : m[j] = IF j < i THEN n[j] ELSE IF j = i THEN n[i] ELSE n[j - 1]
  <2>1. PICK p : p = n[i]
    OBVIOUS
  <2>2. /\ Len(InsertAt(n, i, p)) = Len(n) + 1
        /\ \A j \in 1 .. Len(n) + 1 :
             InsertAt(n, i, p)[j] = IF j < i THEN n[j] ELSE IF j = i THEN p ELSE n[j - 1]
    BY <1>2, <2>1, Inserted
  <2> QED
    BY <1>1, <2>1, <2>2
<1>4. PICK A, B : A = Seams(m, s, e, open) /\ B = Seams(n, s, e, open)
  OBVIOUS
<1>5. IsFiniteSet(A) /\ IsFiniteSet(B) /\ IsFiniteSet({i + 1}) /\ Cardinality({i + 1}) = 1
  <2>1. Len(m) \in Nat /\ Len(n) \in Nat
    BY <1>1, <1>2, <1>3
  <2> QED
    BY <1>4, <2>1, SeamsFinite, FS_Singleton
<1>6. ASSUME NEW j \in A \ {i + 1}
      PROVE  (IF j <= i THEN j ELSE j - 1) \in B
  <2>1. j \in 1 .. k + 2 /\ j # i + 1 /\ At(m, s, j) # After(m, e, j - 1) /\ (j = 1 => open)
    BY <1>2, <1>3, <1>4 DEF Seams
  <2>2. CASE j <= i
    <3>1. j \in 1 .. k + 1 /\ j # Len(m) + 1 /\ j # k + 1
          /\ (j - 1 = 0 \/ (j - 1 \in 1 .. k + 1 /\ j - 1 < i))
      BY <1>2, <1>3, <2>1, <2>2
    <3>2. m[j] = n[j]
      BY <1>2, <1>3, <2>2, <3>1
    <3>3. At(m, s, j) = At(n, s, j) /\ After(m, e, j - 1) = After(n, e, j - 1)
      BY <1>1, <1>3, <3>1, <3>2 DEF At, After
    <3> QED
      BY <1>1, <1>4, <2>1, <2>2, <3>1, <3>3 DEF Seams
  <2>3. CASE ~(j <= i)
    <3>1. PICK h : h = j - 1
      OBVIOUS
    <3>2. /\ h \in 1 .. k + 1 /\ h > i /\ h + 1 = j /\ h # 0 /\ h # 1 /\ ~(h < i) /\ h # i
          /\ h - 1 \in 1 .. k /\ h - 1 # 0
      BY <1>2, <2>1, <2>3, <3>1
    <3>3. m[h] = n[h - 1]
      BY <1>3, <3>2
    <3>4. After(m, e, h) = After(n, e, h - 1)
      BY <3>2, <3>3 DEF After
    <3>5. At(m, s, j) = At(n, s, h)
      <4>1. CASE j = k + 2
        <5>1. j = Len(m) + 1 /\ h = Len(n) + 1
          BY <1>1, <1>2, <1>3, <3>2, <4>1
        <5> QED
          BY <5>1 DEF At
      <4>2. CASE j # k + 2
        <5>1. j \in 1 .. k + 1 /\ j # Len(m) + 1 /\ h # Len(n) + 1 /\ ~(j < i) /\ j # i
          BY <1>1, <1>2, <1>3, <2>1, <2>3, <3>2, <4>2
        <5>2. m[j] = n[h]
          BY <1>3, <3>1, <5>1
        <5> QED
          BY <5>1, <5>2 DEF At
      <4> QED
        BY <4>1, <4>2
    <3>6. h \in B
      BY <1>1, <1>4, <2>1, <3>1, <3>2, <3>4, <3>5 DEF Seams
    <3> QED
      BY <2>3, <3>1, <3>6
  <2> QED
    BY <2>2, <2>3
<1>7. PICK f : f = [j \in A \ {i + 1} |-> IF j <= i THEN j ELSE j - 1]
  OBVIOUS
<1>8. f \in [A \ {i + 1} -> B]
  BY <1>6, <1>7
<1>9. \A x, y \in A \ {i + 1} : f[x] = f[y] => x = y
  <2>1. A \subseteq Int /\ i \in Int
    BY <1>2, <1>4 DEF Seams
  <2> QED
    BY <1>7, <2>1
<1>10. Cardinality(A) <= Cardinality(B) + Cardinality({i + 1})
  BY <1>5, <1>8, <1>9, NoMore
<1> QED
  BY <1>1, <1>4, <1>5, <1>10

\* Two packets swapped touch three places.
LEMMA SeamsSwap ==
  ASSUME NEW T, NEW n \in Seq(T), NEW m \in Seq(T), NEW i \in 1 .. Len(n), Len(m) = Len(n),
         \A j \in 1 .. Len(n) : j \notin {i, i + 1} => m[j] = n[j],
         NEW s, NEW e, NEW open
  PROVE  Cardinality(Seams(m, s, e, open)) <= Cardinality(Seams(n, s, e, open)) + 3
<1>1. PICK k : k = Len(n)
  OBVIOUS
<1>2. k \in Nat /\ Len(m) = k /\ i \in 1 .. k
  BY <1>1
<1>3. PICK A, B, C : /\ A = Seams(m, s, e, open) /\ B = Seams(n, s, e, open)
                     /\ C = {i, i + 1, i + 2}
  OBVIOUS
<1>4. IsFiniteSet(C) /\ Cardinality(C) <= 3
  <2>1. i \in Int /\ i + 2 \in Int /\ C = i .. i + 2
    BY <1>2, <1>3
  <2>2. Cardinality(i .. i + 2) = IF i > i + 2 THEN 0 ELSE (i + 2) - i + 1
    BY <2>1, FS_Interval
  <2>3. IsFiniteSet(i .. i + 2)
    BY <2>1, FS_Interval
  <2> QED
    BY <2>1, <2>2, <2>3
<1>5. IsFiniteSet(A) /\ IsFiniteSet(B)
  BY <1>1, <1>2, <1>3, SeamsFinite
<1>6. ASSUME NEW j \in A \ C PROVE j \in B
  <2>1. /\ j \in 1 .. k + 1 /\ j # i /\ j # i + 1 /\ j # i + 2
        /\ At(m, s, j) # After(m, e, j - 1) /\ (j = 1 => open)
    BY <1>2, <1>3 DEF Seams
  <2>2. (j = k + 1 \/ j \in 1 .. k) /\ (j - 1 = 0 \/ j - 1 \in 1 .. k)
        /\ j - 1 # i /\ j - 1 # i + 1
    BY <1>2, <2>1
  <2>3. At(m, s, j) = At(n, s, j)
    BY <1>1, <1>2, <2>1, <2>2 DEF At
  <2>4. After(m, e, j - 1) = After(n, e, j - 1)
    BY <1>1, <2>2 DEF After
  <2> QED
    BY <1>1, <1>3, <2>1, <2>3, <2>4 DEF Seams
<1>7. PICK f : f = [j \in A \ C |-> j]
  OBVIOUS
<1>8. f \in [A \ C -> B] /\ \A x, y \in A \ C : f[x] = f[y] => x = y
  BY <1>6, <1>7
<1>9. Cardinality(A) <= Cardinality(B) + Cardinality(C)
  BY <1>4, <1>5, <1>8, NoMore
<1>10. Cardinality(A) \in Nat /\ Cardinality(B) \in Nat /\ Cardinality(C) \in Nat
  BY <1>4, <1>5, FS_CardinalityType
<1> QED
  BY <1>3, <1>4, <1>9, <1>10

\* The first place closes when the header of the packet has been judged, and
\* the places behind it do not depend on what was expected.
LEMMA SeamsJudged ==
  ASSUME NEW n, NEW s, NEW e, NEW d, NEW open, Len(n) \in Nat
  PROVE  Seams(n, s, d, FALSE) = Seams(n, s, e, open) \ {1}
<1>1. ASSUME NEW i \in 2 .. Len(n) + 1 PROVE After(n, d, i - 1) = After(n, e, i - 1)
  <2>1. i - 1 # 0
    OBVIOUS
  <2> QED
    BY <2>1 DEF After
<1>2. ASSUME NEW i
      PROVE  i \in Seams(n, s, d, FALSE) <=> i \in Seams(n, s, e, open) \ {1}
  <2>1. CASE i \in 2 .. Len(n) + 1
    <3>1. i \in 1 .. Len(n) + 1 /\ i # 1
      BY <2>1
    <3> QED
      BY <1>1, <2>1, <3>1 DEF Seams
  <2>2. CASE i \notin 2 .. Len(n) + 1
    <3>1. i \in 1 .. Len(n) + 1 => i = 1
      BY <2>2
    <3> QED
      BY <3>1 DEF Seams
  <2> QED
    BY <2>1, <2>2
<1> QED
  BY <1>2

\* When the first packet is done the places move up.
LEMMA SeamsTail ==
  ASSUME NEW T, NEW n \in Seq(T), n # << >>, NEW s, NEW e, NEW d, NEW open, d = After(n, e, 1)
  PROVE  Cardinality(Seams(Tail(n), s, d, open)) <= Cardinality(Seams(n, s, e, FALSE))
<1>1. PICK k, m : k = Len(n) /\ m = Tail(n)
  OBVIOUS
<1>2. k \in Nat /\ k > 0 /\ Len(m) = k - 1 /\ \A j \in 1 .. k - 1 : m[j] = n[j + 1]
  <2>1. k \in Nat /\ k > 0
    BY <1>1, EmptySeq
  <2> QED
    BY <1>1, <2>1, HeadTailProperties
<1>3. PICK A, B : A = Seams(m, s, d, open) /\ B = Seams(n, s, e, FALSE)
  OBVIOUS
<1>4. IsFiniteSet(A) /\ IsFiniteSet(B) /\ IsFiniteSet({}) /\ Cardinality({}) = 0
  <2>1. Len(m) \in Nat /\ Len(n) \in Nat
    BY <1>1, <1>2
  <2> QED
    BY <1>3, <2>1, SeamsFinite, FS_EmptySet
<1>5. ASSUME NEW j \in A PROVE j + 1 \in B
  <2>1. j \in 1 .. k /\ At(m, s, j) # After(m, d, j - 1)
    BY <1>2, <1>3 DEF Seams
  <2>2. At(m, s, j) = At(n, s, j + 1)
    <3>1. CASE j = k
      <4>1. j = Len(m) + 1 /\ j + 1 = Len(n) + 1
        BY <1>1, <1>2, <3>1
      <4> QED
        BY <4>1 DEF At
    <3>2. CASE j # k
      <4>1. j \in 1 .. k - 1 /\ j # Len(m) + 1 /\ j + 1 # Len(n) + 1
        BY <1>1, <1>2, <2>1, <3>2
      <4> QED
        BY <1>2, <4>1 DEF At
    <3> QED
      BY <3>1, <3>2
  <2>3. After(m, d, j - 1) = After(n, e, j)
    <3>1. CASE j = 1
      BY <3>1 DEF After
    <3>2. CASE j # 1
      <4>1. PICK h : h = j - 1
        OBVIOUS
      <4>2. h \in 1 .. k - 1 /\ h + 1 = j /\ h # 0 /\ j # 0
        BY <1>2, <2>1, <3>2, <4>1
      <4>3. m[h] = n[j]
        BY <1>2, <4>2
      <4>4. After(m, d, h) = After(n, e, j)
        BY <4>2, <4>3 DEF After
      <4> QED
        BY <4>1, <4>4
    <3> QED
      BY <3>1, <3>2
  <2>4. j + 1 \in 1 .. k + 1 /\ j + 1 # 1 /\ (j + 1) - 1 = j
    BY <1>2, <2>1
  <2> QED
    BY <1>1, <1>3, <2>1, <2>2, <2>3, <2>4 DEF Seams
<1>6. PICK f : f = [j \in A \ {} |-> j + 1]
  OBVIOUS
<1>7. f \in [A \ {} -> B]
  BY <1>5, <1>6
<1>8. \A x, y \in A \ {} : f[x] = f[y] => x = y
  <2>1. A \subseteq Int
    BY <1>2, <1>3 DEF Seams
  <2> QED
    BY <1>6, <2>1
<1>9. Cardinality(A) \in Nat /\ Cardinality(B) \in Nat
  BY <1>4, FS_CardinalityType
<1>10. Cardinality(A) <= Cardinality(B)
  <2>1. PICK c : c = Cardinality({})
    OBVIOUS
  <2>2. Cardinality(A) <= Cardinality(B) + c /\ c = 0
    BY <1>4, <1>7, <1>8, <2>1, NoMore
  <2> QED
    BY <1>9, <2>2
<1> QED
  BY <1>1, <1>3, <1>10

\* What the writer and the network leave alone: the framer and the packet that
\* is being received.
Held ==
  /\ UNCHANGED <<framerVars, sent, due_number, in_order, run>>
  /\ sent # 0 /\ net # << >> => net' # << >> /\ Head(net') = Head(net)

\* The numbers of the feed stay below the wrap of the sequence number.
LEMMA Bounds ==
  /\ LastSeq \in Nat /\ LastSeq < SeqWrap /\ start_seq \in Nat /\ start_seq <= LastSeq
  /\ msgs_per_packet \in Nat /\ msgs_per_packet > 0 /\ msgs_per_packet < EndCount
  /\ EndCount = Power[2] - 1 /\ EndCount \in Word /\ 0 \in Word
<1>1. start_seq \in Nat /\ MaxMessages \in Nat /\ start_seq + MaxMessages < SeqWrap
      /\ msgs_per_packet \in 1 .. EndCount - 1
  BY LinkAssumption
<1> QED
  BY <1>1, Sizes DEF LastSeq, EndCount, Word

\* The packets of add() and close(), and heartbeats, are sound.
LEMMA Packed ==
  ASSUME NEW first \in Nat, NEW b \in Seq(Length), first + Len(b) <= LastSeq,
         Len(b) <= msgs_per_packet
  PROVE  PackPacket(first, b) \in Sound /\ PackPacket(first, b).seq = first
         /\ PackPacket(first, b).lens = b
<1>1. PICK p : p = PackPacket(first, b)
  OBVIOUS
<1>2. p = [seq |-> first, count |-> Len(b), lens |-> b]
  BY <1>1 DEF PackPacket
<1>3. p.seq = first /\ p.count = Len(b) /\ p.lens = b /\ Len(b) \in Nat
  BY <1>2
<1>4. first \in 0 .. SeqWrap - 1 /\ Len(b) \in Word /\ Len(b) # EndCount
  BY <1>3, Bounds, Sizes DEF Word
<1>5. p \in Packet
  BY <1>2, <1>4 DEF Packet
<1>6. b = << >> => Len(b) = 0
  OBVIOUS
<1> QED
  BY <1>1, <1>3, <1>4, <1>5, <1>6 DEF Sound

\* So is the packet that ends the session; it carries the next number.
LEMMA Ending ==
  ASSUME NEW first \in Nat, first <= LastSeq
  PROVE  LET p == EndOfSessionPacket(first)
         IN  p \in Sound /\ p.seq = first /\ p.seq + Len(p.lens) = first
<1>1. PICK p : p = EndOfSessionPacket(first)
  OBVIOUS
<1>2. p = [seq |-> first, count |-> EndCount, lens |-> << >>]
  BY <1>1 DEF EndOfSessionPacket
<1>3. p.seq = first /\ p.count = EndCount /\ p.lens = << >> /\ Len(p.lens) = 0
  BY <1>2
<1>4. first \in 0 .. SeqWrap - 1 /\ << >> \in Seq(Length)
  BY Bounds, Sizes
<1>5. p \in Packet
  BY <1>2, <1>4, Bounds DEF Packet
<1>6. p.seq + Len(p.lens) = first /\ Len(p.lens) <= msgs_per_packet
  BY <1>3, Bounds
<1> QED
  BY <1>1, <1>3, <1>5, <1>6 DEF Sound

\* A packet on the end of the wire changes nothing for those before it.
LEMMA Queued ==
  ASSUME NEW n \in Seq(Sound), NEW p \in Sound
  PROVE  /\ Append(n, p) \in Seq(Sound)
         /\ n # << >> => Append(n, p) # << >> /\ Head(Append(n, p)) = Head(n)
<1>1. PICK S : S = Sound
  OBVIOUS
<1>2. n \in Seq(S) /\ p \in S
  BY <1>1
<1>3. /\ Append(n, p) \in Seq(S) /\ Append(n, p) # << >>
      /\ Head(Append(n, p)) = IF n = << >> THEN p ELSE Head(n)
  BY <1>2, AppendProperties, HeadTailAppend
<1> QED
  BY <1>1, <1>3

SeamsStay == \A e, open : Seams(net', seq', e, open) = Seams(net, seq, e, open)

\* A message written, with the packet that it may complete.
LEMMA AddStep ==
  ASSUME PacketsInv, NEW len \in Length, AddMessage(len)
  PROVE  PacketsInv' /\ Held /\ faults' = faults /\ SeamsStay
<1>1. PICK filled : filled = Append(batch, len)
  OBVIOUS
<1>2. filled \in Seq(Length) /\ Len(filled) = Len(batch) + 1 /\ Len(batch) \in Nat
  BY <1>1, AppendProperties DEF PacketsInv
<1>3. seq \in Nat /\ seq + Len(filled) <= LastSeq /\ Len(filled) <= msgs_per_packet
  <2>1. seq \in Nat /\ Len(batch) < msgs_per_packet
    BY DEF PacketsInv
  <2>2. seq + Len(batch) < LastSeq
    BY DEF AddMessage, LastSeq
  <2> QED
    BY <1>2, <2>1, <2>2, Bounds
<1>4. CASE Len(filled) = msgs_per_packet
  <2>1. PICK p : p = PackPacket(seq, filled)
    OBVIOUS
  <2>2. p \in Sound /\ p.seq = seq /\ p.lens = filled
    BY <1>2, <1>3, <2>1, Packed
  <2>3. net' = Append(net, p) /\ seq' = seq + Len(filled) /\ batch' = << >>
        /\ UNCHANGED <<framerVars, closed, sent, faults, due_number, in_order, run>>
    BY <1>1, <1>4, <2>1 DEF AddMessage
  <2>4. net \in Seq(Sound)
    BY DEF PacketsInv
  <2>5. Append(net, p) \in Seq(Sound)
        /\ (net # << >> => Append(net, p) # << >> /\ Head(Append(net, p)) = Head(net))
    BY <2>2, <2>4, Queued
  <2>6. Held
    BY <2>3, <2>5 DEF Held
  <2>7. PacketsInv'
    <3>1. seq' \in Nat /\ seq' + Len(batch') <= LastSeq /\ Len(batch') < msgs_per_packet
          /\ batch' \in Seq(Length)
      BY <1>2, <1>3, <2>3, Bounds
    <3> QED
      BY <2>3, <2>5, <3>1 DEF PacketsInv
  <2>8. SeamsStay
    <3>1. ASSUME NEW e, NEW open
          PROVE  Seams(Append(net, p), seq', e, open) = Seams(net, seq, e, open)
      <4>1. seq' = p.seq + Len(p.lens)
        BY <2>2, <2>3
      <4> QED
        BY <2>2, <2>4, <4>1, SeamsAppend
    <3> QED
      BY <2>3, <3>1 DEF SeamsStay
  <2> QED
    BY <2>3, <2>6, <2>7, <2>8
<1>5. CASE Len(filled) # msgs_per_packet
  <2>1. net' = net /\ seq' = seq /\ batch' = filled
        /\ UNCHANGED <<framerVars, closed, sent, faults, due_number, in_order, run>>
    BY <1>1, <1>5 DEF AddMessage
  <2>2. Len(filled) < msgs_per_packet
    BY <1>2, <1>3, <1>5, Bounds
  <2> QED
    BY <1>2, <1>3, <2>1, <2>2 DEF PacketsInv, Held, SeamsStay
<1> QED
  BY <1>4, <1>5

\* The partial batch and the end of the session.
LEMMA CloseStep ==
  ASSUME PacketsInv, Close
  PROVE  PacketsInv' /\ Held /\ faults' = faults /\ SeamsStay
<1>1. PICK last, next : last = EndOfSessionPacket(next) /\ next = seq + Len(batch)
  OBVIOUS
<1>2. batch \in Seq(Length) /\ Len(batch) \in Nat /\ seq \in Nat /\ next \in Nat
      /\ next <= LastSeq /\ Len(batch) <= msgs_per_packet /\ net \in Seq(Sound)
  BY <1>1, Bounds DEF PacketsInv
<1>3. last \in Sound /\ last.seq = next /\ last.seq + Len(last.lens) = next
  BY <1>1, <1>2, Ending
<1>4. seq' = next /\ batch' = << >> /\ faults' = faults
      /\ UNCHANGED <<framerVars, sent, due_number, in_order, run>>
  BY <1>1 DEF Close
<1>5. PICK n \in Seq(Sound) :
        /\ net' = Append(n, last)
        /\ net # << >> => n # << >> /\ Head(n) = Head(net)
        /\ \A e, open : Seams(n, next, e, open) = Seams(net, seq, e, open)
  <2>1. CASE batch = << >>
    <3>1. net' = (net \o << >>) \o <<last>>
      BY <1>1, <2>1 DEF Close
    <3>2. net \o << >> = net
      BY <1>2, ConcatEmptySeq
    <3>3. net \o <<last>> = Append(net, last)
      BY <1>2, <1>3, AppendIsConcat
    <3>4. next = seq
      BY <1>1, <1>2, <2>1
    <3> QED
      BY <1>2, <3>1, <3>2, <3>3, <3>4
  <2>2. CASE batch # << >>
    <3>1. PICK p : p = PackPacket(seq, batch)
      OBVIOUS
    <3>2. p \in Sound /\ p.seq = seq /\ p.lens = batch
      BY <1>1, <1>2, <3>1, Packed
    <3>3. net' = (net \o <<p>>) \o <<last>>
      BY <1>1, <2>2, <3>1 DEF Close
    <3>4. PICK n : n = Append(net, p)
      OBVIOUS
    <3>5. n \in Seq(Sound) /\ (net # << >> => n # << >> /\ Head(n) = Head(net))
      BY <1>2, <3>2, <3>4, Queued
    <3>6. net \o <<p>> = n
      BY <1>2, <3>2, <3>4, AppendIsConcat
    <3>7. n \o <<last>> = Append(n, last)
      BY <1>3, <3>5, AppendIsConcat
    <3>8. ASSUME NEW e, NEW open
          PROVE  Seams(n, next, e, open) = Seams(net, seq, e, open)
      <4>1. next = p.seq + Len(p.lens)
        BY <1>1, <3>2
      <4> QED
        BY <1>2, <3>2, <3>4, <4>1, SeamsAppend
    <3> QED
      BY <3>3, <3>5, <3>6, <3>7, <3>8
  <2> QED
    BY <2>1, <2>2
<1>6. Append(n, last) \in Seq(Sound)
      /\ (n # << >> => Append(n, last) # << >> /\ Head(Append(n, last)) = Head(n))
  BY <1>3, Queued
<1>7. Held
  BY <1>4, <1>5, <1>6 DEF Held
<1>8. PacketsInv'
  <2>1. seq' + Len(batch') <= LastSeq /\ Len(batch') < msgs_per_packet /\ batch' \in Seq(Length)
    BY <1>2, <1>4, Bounds
  <2> QED
    BY <1>2, <1>4, <1>5, <1>6, <2>1 DEF PacketsInv
<1>9. SeamsStay
  <2>1. ASSUME NEW e, NEW open
        PROVE  Seams(Append(n, last), next, e, open) = Seams(n, next, e, open)
    BY <1>3, SeamsAppend
  <2> QED
    BY <1>4, <1>5, <2>1 DEF SeamsStay
<1> QED
  BY <1>4, <1>7, <1>8, <1>9

\* An empty packet with the next number.
LEMMA HeartbeatStep ==
  ASSUME PacketsInv, Heartbeat
  PROVE  PacketsInv' /\ Held /\ faults' = faults /\ SeamsStay
<1>1. PICK p : p = PackPacket(seq, << >>)
  OBVIOUS
<1>2. seq \in Nat /\ seq <= LastSeq /\ net \in Seq(Sound) /\ batch \in Seq(Length)
  <2>1. seq \in Nat /\ seq + Len(batch) <= LastSeq /\ Len(batch) \in Nat /\ net \in Seq(Sound)
        /\ batch \in Seq(Length)
    BY DEF PacketsInv
  <2> QED
    BY <2>1, Bounds
<1>3. p \in Sound /\ p.seq = seq /\ p.lens = << >>
  <2>1. PICK b : b = << >>
    OBVIOUS
  <2>2. b \in Seq(Length) /\ Len(b) = 0 /\ seq + Len(b) <= LastSeq /\ Len(b) <= msgs_per_packet
    BY <1>2, <2>1, Bounds
  <2>3. PackPacket(seq, b) \in Sound /\ PackPacket(seq, b).seq = seq /\ PackPacket(seq, b).lens = b
    BY <1>2, <2>2, Packed
  <2> QED
    BY <1>1, <2>1, <2>3
<1>4. net' = Append(net, p) /\ seq' = seq /\ batch' = batch /\ faults' = faults
      /\ UNCHANGED <<framerVars, sent, due_number, in_order, run>>
  BY <1>1 DEF Heartbeat
<1>5. Append(net, p) \in Seq(Sound)
      /\ (net # << >> => Append(net, p) # << >> /\ Head(Append(net, p)) = Head(net))
  BY <1>2, <1>3, Queued
<1>6. Held
  BY <1>4, <1>5 DEF Held
<1>7. PacketsInv'
  BY <1>4, <1>5 DEF PacketsInv
<1>8. SeamsStay
  <2>1. ASSUME NEW e, NEW open
        PROVE  Seams(Append(net, p), seq, e, open) = Seams(net, seq, e, open)
    <3>1. PICK t : t = p.seq + Len(p.lens)
      OBVIOUS
    <3>2. Len(p.lens) = 0 /\ t = seq
      BY <1>2, <1>3, <3>1
    <3>3. Seams(Append(net, p), t, e, open) = Seams(net, seq, e, open)
      BY <1>2, <1>3, <3>1, SeamsAppend
    <3> QED
      BY <3>2, <3>3
  <2> QED
    BY <1>4, <2>1 DEF SeamsStay
<1> QED
  BY <1>4, <1>6, <1>7, <1>8

\* A network fault costs three seams at most.
LEMMA FaultStep ==
  ASSUME PacketsInv, Lose \/ Repeat \/ Swap
  PROVE  /\ PacketsInv' /\ Held /\ faults' = faults + 1
         /\ \A e, open : Cardinality(Seams(net', seq', e, open))
                         <= Cardinality(Seams(net, seq, e, open)) + 3
<1>1. net \in Seq(Sound) /\ Len(net) \in Nat /\ sent \in Nat
  BY DEF PacketsInv
<1>2. PICK i \in Untouched : \E m :
        /\ Fault(m)
        /\ \/ m = RemoveAt(net, i)
           \/ m = InsertAt(net, i, net[i])
           \/ i < Len(net) /\ m = [net EXCEPT ![i] = net[i + 1], ![i + 1] = net[i]]
  BY DEF Lose, Repeat, Swap
<1>3. PICK m :
        /\ Fault(m)
        /\ \/ m = RemoveAt(net, i)
           \/ m = InsertAt(net, i, net[i])
           \/ i < Len(net) /\ m = [net EXCEPT ![i] = net[i + 1], ![i + 1] = net[i]]
  BY <1>2
<1>4. net' = m /\ faults' = faults + 1 /\ faults < MaxFaults /\ seq' = seq /\ batch' = batch
      /\ UNCHANGED <<framerVars, sent, due_number, in_order, run>>
  BY <1>3 DEF Fault
<1>5. i \in 1 .. Len(net) /\ (i > 1 \/ sent = 0) /\ net[i] \in Sound
  BY <1>1, <1>2 DEF Untouched
<1>6. PICK k : k = Len(net)
  OBVIOUS
<1>7. /\ m \in Seq(Sound)
      /\ i > 1 => Len(m) > 0 /\ m[1] = net[1]
      /\ \A e, open : Cardinality(Seams(m, seq, e, open))
                      <= Cardinality(Seams(net, seq, e, open)) + 3
  <2>1. CASE m = RemoveAt(net, i)
    <3>1. /\ m \in Seq(Sound) /\ Len(m) = k - 1
          /\ \A j \in 1 .. k - 1 : m[j] = IF j < i THEN net[j] ELSE net[j + 1]
      BY <1>1, <1>5, <1>6, <2>1, Removed
    <3>2. i > 1 => Len(m) > 0 /\ m[1] = net[1]
      BY <1>1, <1>5, <1>6, <3>1
    <3>3. ASSUME NEW e, NEW open
          PROVE  Cardinality(Seams(m, seq, e, open)) <= Cardinality(Seams(net, seq, e, open)) + 3
      <4>1. PICK a, b : /\ a = Cardinality(Seams(m, seq, e, open))
                        /\ b = Cardinality(Seams(net, seq, e, open))
        OBVIOUS
      <4>2. a <= b + 1
        BY <1>1, <1>5, <2>1, <4>1, SeamsRemove
      <4>3. a \in Nat /\ b \in Nat
        BY <1>1, <3>1, <4>1, SeamsFinite
      <4> QED
        BY <4>1, <4>2, <4>3
    <3> QED
      BY <3>1, <3>2, <3>3
  <2>2. CASE m = InsertAt(net, i, net[i])
    <3>1. /\ m \in Seq(Sound) /\ Len(m) = k + 1
          /\ \A j \in 1 .. k + 1 :
               m[j] = IF j < i THEN net[j] ELSE IF j = i THEN net[i] ELSE net[j - 1]
      <4>1. PICK e \in Sound : e = net[i]
        BY <1>5
      <4>2. /\ InsertAt(net, i, e) \in Seq(Sound) /\ Len(InsertAt(net, i, e)) = Len(net) + 1
            /\ \A j \in 1 .. Len(net) + 1 :
                 InsertAt(net, i, e)[j] = IF j < i THEN net[j] ELSE IF j = i THEN e ELSE net[j - 1]
        BY <1>1, <1>5, Inserted
      <4> QED
        BY <1>6, <2>2, <4>1, <4>2
    <3>2. i > 1 => Len(m) > 0 /\ m[1] = net[1]
      BY <1>1, <1>5, <1>6, <3>1
    <3>3. ASSUME NEW e, NEW open
          PROVE  Cardinality(Seams(m, seq, e, open)) <= Cardinality(Seams(net, seq, e, open)) + 3
      <4>1. PICK a, b : /\ a = Cardinality(Seams(m, seq, e, open))
                        /\ b = Cardinality(Seams(net, seq, e, open))
        OBVIOUS
      <4>2. a <= b + 1
        BY <1>1, <1>5, <2>2, <4>1, SeamsInsert
      <4>3. a \in Nat /\ b \in Nat
        BY <1>1, <3>1, <4>1, SeamsFinite
      <4> QED
        BY <4>1, <4>2, <4>3
    <3> QED
      BY <3>1, <3>2, <3>3
  <2>3. CASE i < Len(net) /\ m = [net EXCEPT ![i] = net[i + 1], ![i + 1] = net[i]]
    <3>1. /\ m \in Seq(Sound) /\ Len(m) = k
          /\ \A j \in 1 .. k : j \notin {i, i + 1} => m[j] = net[j]
      BY <1>1, <1>5, <1>6, <2>3, Swapped
    <3>2. i > 1 => Len(m) > 0 /\ m[1] = net[1]
      BY <1>1, <1>5, <1>6, <3>1
    <3>3. ASSUME NEW e, NEW open
          PROVE  Cardinality(Seams(m, seq, e, open)) <= Cardinality(Seams(net, seq, e, open)) + 3
      BY <1>1, <1>5, <1>6, <3>1, SeamsSwap
    <3> QED
      BY <3>1, <3>2, <3>3
  <2> QED
    BY <1>3, <2>1, <2>2, <2>3
<1>8. Held
  <2>1. SUFFICES ASSUME sent # 0, net # << >> PROVE m # << >> /\ Head(m) = Head(net)
    BY <1>4 DEF Held
  <2>2. i > 1
    BY <1>5, <2>1
  <2>3. Len(m) > 0 /\ m[1] = net[1] /\ m # << >>
    BY <1>7, <2>2
  <2> QED
    BY <1>1, <1>7, <2>1, <2>3
<1>9. PacketsInv'
  <2>1. faults' \in 0 .. MaxFaults
    BY <1>4, LinkAssumption DEF PacketsInv
  <2> QED
    BY <1>4, <1>7, <2>1 DEF PacketsInv
<1> QED
  BY <1>4, <1>7, <1>8, <1>9

\* The number behind a packet is below the wrap.
LEMMA BelowWrap ==
  ASSUME NEW p \in Sound
  PROVE  (p.seq + Len(p.lens)) % SeqWrap = p.seq + Len(p.lens)
<1>1. PICK v, w : v = p.seq + Len(p.lens) /\ w = SeqWrap
  OBVIOUS
<1>2. v \in Nat /\ v <= LastSeq /\ LastSeq \in Nat /\ LastSeq < w /\ w \in Nat
  <2>1. p.seq \in Nat /\ Len(p.lens) \in Nat
    BY PacketFacts
  <2>2. p.seq + Len(p.lens) <= LastSeq
    BY DEF Sound
  <2> QED
    BY <1>1, <2>1, <2>2, Bounds, Sizes
<1>3. v % w = v
  BY <1>2
<1> QED
  BY <1>1, <1>3

\* The last byte of the header is where HeaderDone takes it to be, and the count
\* is complete with it.
LEMMA HeaderEnds ==
  ASSUME NEW p \in Sound, NEW n \in Nat, Stands(p, n), NEW b, b = PacketBytes(p)[n + 1],
         HeaderDone(b)
  PROVE  /\ InCount(p, n) /\ hdr_cnt = 1 /\ n + 1 = HeaderLen
         /\ Shift(count_reg, b, COUNT_LEN) = p.count
<1>1. state = "ST_COUNT" /\ hdr_cnt = 1 /\ hdr_cnt \in Nat
  BY Sizes DEF HeaderDone, Ends, Stands
<1>2. InCount(p, n)
  BY <1>1 DEF Stands, InSession, InSeq, InCount, InLength, InBody
<1>3. n = SESSION_LEN + SEQ_LEN + 1
  BY <1>1, <1>2 DEF InCount
<1>4. n + 1 = HeaderLen
  BY <1>3, Sizes
<1> QED
  BY <1>1, <1>2, <1>4, FullCount, Sizes

\* What a byte of a packet does to the registers of the sequence check: the last
\* byte of the header judges, every other leaves them alone.
LEMMA HeaderStep ==
  ASSUME NEW p \in Sound, NEW n \in Nat, Stands(p, n), FramerByte(PacketBytes(p)[n + 1])
  PROVE  IF n + 1 = HeaderLen
         THEN /\ gap_count' = IF ~first_pkt /\ p.seq # expected_seq THEN Inc(gap_count)
                              ELSE gap_count
              /\ first_pkt' = FALSE /\ expected_seq' = p.seq + Len(p.lens)
         ELSE UNCHANGED <<gap_count, first_pkt, expected_seq>>
<1>1. PICK b : b = PacketBytes(p)[n + 1]
  OBVIOUS
<1>2. hdr_cnt \in Nat /\ FramerByte(b)
  BY <1>1 DEF Stands
<1>3. CASE HeaderDone(b)
  <2>1. InCount(p, n) /\ hdr_cnt = 1 /\ n + 1 = HeaderLen
    BY <1>1, <1>3, HeaderEnds
  <2>2. Shift(count_reg, b, COUNT_LEN) = p.count
    BY <1>1, <1>3, HeaderEnds
  <2>3. seq_reg = p.seq
    BY <2>1 DEF InCount
  <2>4. Contrib(p.count) = Len(p.lens)
    <3>1. CASE p.lens = << >>
      <4>1. p.count \in {0, EndCount} /\ Len(p.lens) = 0
        BY <3>1 DEF Sound
      <4> QED
        BY <4>1 DEF Contrib
    <3>2. CASE p.lens # << >>
      <4>1. p.count = Len(p.lens) /\ p.count # EndCount
        BY <3>2 DEF Sound
      <4>2. Len(p.lens) # 0
        BY <3>2, PacketFacts
      <4> QED
        BY <4>1, <4>2 DEF Contrib
    <3> QED
      BY <3>1, <3>2
  <2>5. (p.seq + Len(p.lens)) % SeqWrap = p.seq + Len(p.lens)
    BY BelowWrap
  <2>6. /\ gap_count' = IF Gap(p.seq) THEN Inc(gap_count) ELSE gap_count
        /\ first_pkt' = FALSE
        /\ expected_seq' = (p.seq + Contrib(p.count)) % SeqWrap
    BY <1>3, <2>2, <2>3 DEF HeaderDone
  <2> QED
    BY <2>1, <2>4, <2>5, <2>6 DEF Gap
<1>4. CASE ~HeaderDone(b)
  <2>1. UNCHANGED <<gap_count, first_pkt, expected_seq>>
    BY <1>2, <1>4 DEF FramerByte, SessionByte, SeqByte, CountByte, LengthByte, ZeroLength,
                      LengthDone, BodyByte, BodyDone, header
  <2>2. n + 1 # HeaderLen
    <3>1. CASE InSession(n)
      BY <3>1, Sizes DEF InSession
    <3>2. CASE InSeq(p, n)
      BY <3>2, <1>2, Sizes DEF InSeq
    <3>3. CASE InCount(p, n)
      <4>1. ~Ends(COUNT_LEN)
        BY <1>2, <1>4, <3>3 DEF InCount, FramerByte, SessionByte, SeqByte, CountByte,
                                LengthByte, ZeroLength, LengthDone, BodyByte, BodyDone
      <4>2. hdr_cnt # 1
        BY <4>1, Sizes DEF Ends
      <4> QED
        BY <1>2, <3>3, <4>2, Sizes DEF InCount
    <3>4. CASE InLength(p, n)
      <4>1. count_reg \in 1 .. Len(p.lens) /\ n = Off(p, Current(p) - 1) + hdr_cnt
        BY <3>4 DEF InLength
      <4>2. Off(p, Current(p) - 1) \in Nat /\ Off(p, Current(p) - 1) >= HeaderLen
        BY <4>1, CurrentIs
      <4> QED
        BY <1>2, <4>1, <4>2, Sizes
    <3>5. CASE InBody(p, n)
      <4>1. count_reg \in 1 .. Len(p.lens) /\ n = Off(p, Current(p) - 1) + 2 + body_cnt
            /\ body_cnt \in Nat
        BY <3>5 DEF InBody
      <4>2. Off(p, Current(p) - 1) \in Nat /\ Off(p, Current(p) - 1) >= HeaderLen
        BY <4>1, CurrentIs
      <4> QED
        BY <4>1, <4>2, Sizes
    <3> QED
      BY <3>1, <3>2, <3>3, <3>4, <3>5 DEF Stands
  <2> QED
    BY <2>1, <2>2
<1> QED
  BY <1>3, <1>4

\* How many messages of the packet have ended, before and behind the byte.
LEMMA InHeader ==
  ASSUME NEW p \in Sound, NEW n \in Nat, n <= HeaderLen
  PROVE  EndedBy(p, n) = 0
<1>1. p \in Packet /\ p.lens \in Seq(Length) /\ Len(p.lens) \in Nat
  BY PacketFacts
<1>2. Len(p.lens) # 0 => n < Off(p, 0 + 1)
  <2>1. SUFFICES ASSUME Len(p.lens) # 0 PROVE n < Off(p, 0 + 1)
    OBVIOUS
  <2>2. 0 \in 0 .. Len(p.lens) /\ 1 \in 0 .. Len(p.lens) /\ 0 < 1
    BY <1>1, <2>1
  <2>3. Off(p, 0) = HeaderLen /\ Off(p, 0) < Off(p, 1) /\ Off(p, 1) \in Nat
    BY <1>1, <2>2, Offsets
  <2> QED
    BY <2>3, Sizes
<1>3. 0 \in 0 .. Len(p.lens)
  BY <1>1
<1> QED
  BY <1>1, <1>2, <1>3, Ended

\* Inside message i of a packet i - 1 have ended, behind its last byte i.
LEMMA Within ==
  ASSUME NEW p \in Sound, NEW i \in 1 .. Len(p.lens), NEW n \in Nat,
         Off(p, i - 1) <= n, n < Off(p, i)
  PROVE  /\ EndedBy(p, n) = i - 1
         /\ EndedBy(p, n + 1) = IF n + 1 = Off(p, i) THEN i ELSE i - 1
<1>1. PICK k, all : k = i - 1 /\ all = Len(p.lens)
  OBVIOUS
<1>2. p \in Packet /\ p.lens \in Seq(Length) /\ all \in Nat /\ i \in 1 .. all
      /\ k \in 0 .. all /\ k + 1 = i /\ i \in 0 .. all /\ k # all
  BY <1>1, PacketFacts
<1>3. Off(p, k) \in Nat /\ Off(p, i) \in Nat /\ Off(p, k) <= n /\ n < Off(p, k + 1)
  BY <1>1, <1>2, Offsets
<1>4. EndedBy(p, n) = k
  BY <1>1, <1>2, <1>3, Ended
<1>5. CASE n + 1 = Off(p, i)
  <2>1. i = all \/ n + 1 < Off(p, i + 1)
    <3>1. SUFFICES ASSUME i # all PROVE n + 1 < Off(p, i + 1)
      OBVIOUS
    <3>2. i + 1 \in 0 .. all /\ i < i + 1
      BY <1>2, <3>1
    <3> QED
      BY <1>1, <1>2, <1>5, <3>2, Offsets
  <2>2. Off(p, i) <= n + 1 /\ n + 1 \in Nat
    BY <1>3, <1>5
  <2>3. EndedBy(p, n + 1) = i
    BY <1>1, <1>2, <2>1, <2>2, Ended
  <2> QED
    BY <1>1, <1>4, <1>5, <2>3
<1>6. CASE n + 1 # Off(p, i)
  <2>1. n + 1 \in Nat /\ Off(p, k) <= n + 1 /\ n + 1 < Off(p, k + 1)
    BY <1>2, <1>3, <1>6
  <2>2. EndedBy(p, n + 1) = k
    BY <1>1, <1>2, <2>1, Ended
  <2> QED
    BY <1>1, <1>4, <1>6, <2>2
<1> QED
  BY <1>5, <1>6

\* The framer in a packet: the messages that have ended, and the length it holds.
LEMMA Counted ==
  ASSUME NEW p \in Sound, NEW n \in Nat, Stands(p, n)
  PROVE  /\ n < Len(PacketBytes(p))
         /\ EndedBy(p, n) \in Nat
         /\ EndedBy(p, n + 1) \in {EndedBy(p, n), EndedBy(p, n) + 1}
         /\ n < HeaderLen => EndedBy(p, n) = 0 /\ EndedBy(p, n + 1) = 0
         /\ n + 1 = Len(PacketBytes(p)) => EndedBy(p, n + 1) = Len(p.lens)
         /\ state = "ST_MSG_BODY" => /\ msg_len_reg = p.lens[EndedBy(p, n) + 1]
<1>1. PICK all, size : all = Len(p.lens) /\ size = Len(PacketBytes(p))
  OBVIOUS
<1>2. all \in Nat /\ size \in Nat /\ size >= HeaderLen /\ size = Off(p, all)
      /\ p.lens \in Seq(Length)
  BY <1>1, PacketFacts
<1>3. hdr_cnt \in Nat
  BY DEF Stands
<1>4. CASE InSession(n) \/ InSeq(p, n) \/ InCount(p, n)
  <2>1. n < HeaderLen /\ state # "ST_MSG_BODY"
    BY <1>3, <1>4, Sizes DEF InSession, InSeq, InCount
  <2>2. n <= HeaderLen /\ n + 1 <= HeaderLen /\ n + 1 \in Nat
    BY <2>1, Sizes
  <2>3. EndedBy(p, n) = 0 /\ EndedBy(p, n + 1) = 0
    BY <2>2, InHeader
  <2>4. n + 1 = size => all = 0
    <3>1. SUFFICES ASSUME n + 1 = size, all # 0 PROVE FALSE
      OBVIOUS
    <3>2. 0 \in 0 .. all /\ all \in 0 .. all /\ 0 < all
      BY <1>2, <3>1
    <3>3. Off(p, 0) = HeaderLen /\ Off(p, 0) < Off(p, all)
      BY <1>1, <1>2, <3>2, Offsets
    <3> QED
      BY <1>2, <2>2, <3>1, <3>3, Sizes
  <2>5. n < size
    BY <1>2, <2>1, Sizes
  <2> QED
    BY <1>1, <2>1, <2>3, <2>4, <2>5
<1>5. CASE InLength(p, n) \/ InBody(p, n)
  <2>1. PICK i, off, len : i = Current(p) /\ off = Off(p, i - 1) /\ len = p.lens[i]
    OBVIOUS
  <2>2. count_reg \in 1 .. all
    BY <1>1, <1>5 DEF InLength, InBody
  <2>3. /\ i \in 1 .. all /\ len \in Nat /\ off \in Nat /\ off >= HeaderLen
        /\ Off(p, i) = off + 2 + len /\ Off(p, i) <= size
    BY <1>1, <2>1, <2>2, CurrentIs
  <2>4. off <= n /\ n < off + 2 + len
    <3>1. CASE InLength(p, n)
      <4>1. n = off + hdr_cnt /\ hdr_cnt < 2
        BY <2>1, <3>1 DEF InLength
      <4> QED
        BY <1>3, <2>3, <4>1
    <3>2. CASE InBody(p, n)
      <4>1. n = off + 2 + body_cnt /\ body_cnt \in Nat /\ body_cnt < len
        BY <2>1, <3>2 DEF InBody
      <4> QED
        BY <2>3, <4>1
    <3> QED
      BY <1>5, <3>1, <3>2
  <2>5. /\ EndedBy(p, n) = i - 1
        /\ EndedBy(p, n + 1) = IF n + 1 = Off(p, i) THEN i ELSE i - 1
    BY <1>1, <2>1, <2>3, <2>4, Within
  <2>6. ~(n < HeaderLen) /\ n < size
    BY <1>2, <2>3, <2>4, Sizes
  <2>7. n + 1 = size => n + 1 = Off(p, i) /\ i = all
    <3>1. SUFFICES ASSUME n + 1 = size PROVE n + 1 = Off(p, i) /\ i = all
      OBVIOUS
    <3>2. n + 1 = Off(p, i)
      BY <2>3, <2>4, <3>1
    <3>3. i \in 0 .. all /\ all \in 0 .. all /\ (i = all \/ i < all)
      BY <1>2, <2>3
    <3>4. i < all => Off(p, i) < Off(p, all)
      BY <1>1, <1>2, <3>3, Offsets
    <3>5. i = all
      BY <1>2, <3>1, <3>2, <3>3, <3>4
    <3> QED
      BY <3>2, <3>5
  <2>8. state = "ST_MSG_BODY" => msg_len_reg = len
    BY <1>5, <2>1 DEF InLength, InBody
  <2>9. i - 1 \in Nat /\ (i - 1) + 1 = i
    BY <2>3
  <2> QED
    BY <1>1, <2>1, <2>5, <2>6, <2>7, <2>8, <2>9
<1> QED
  BY <1>4, <1>5 DEF Stands

\* A byte that arrives belongs to the first packet on the wire, in which the
\* framer stands.
LEMMA Receiving ==
  ASSUME PacketsInv, Place, ReceiveByte
  PROVE  /\ net # << >> /\ Head(net) \in Sound /\ Tail(net) \in Seq(Sound) /\ sent \in Nat
         /\ Stands(Head(net), sent) /\ FramerByte(PacketBytes(Head(net))[sent + 1])
<1>1. net # << >> /\ net \in Seq(Sound) /\ sent \in Nat
  BY DEF ReceiveByte, PacketsInv
<1>2. Head(net) \in Sound /\ Tail(net) \in Seq(Sound)
  BY <1>1, HeadTailProperties
<1>3. Stands(Head(net), sent)
  <2>1. CASE sent = 0
    BY <2>1 DEF Place, Stands
  <2>2. CASE sent # 0
    BY <2>2 DEF Place
  <2> QED
    BY <2>1, <2>2
<1>4. FramerByte(PacketBytes(Head(net))[sent + 1])
  BY DEF ReceiveByte
<1> QED
  BY <1>1, <1>2, <1>3, <1>4

\* A byte that arrives moves the framer within the packet or to the next one.
LEMMA PlaceReceives ==
  ASSUME PacketsInv, Place, ReceiveByte
  PROVE  PacketsInv' /\ Place'
<1>1. PICK p, n : p = Head(net) /\ n = sent
  OBVIOUS
<1>2. /\ net # << >> /\ p \in Sound /\ Tail(net) \in Seq(Sound) /\ n \in Nat
      /\ Stands(p, n) /\ FramerByte(PacketBytes(p)[n + 1])
  BY <1>1, Receiving
<1>3. /\ net' = IF n + 1 = Len(PacketBytes(p)) THEN Tail(net) ELSE net
      /\ sent' = IF n + 1 = Len(PacketBytes(p)) THEN 0 ELSE n + 1
      /\ UNCHANGED <<batch, seq, closed, faults>>
  BY <1>1 DEF ReceiveByte
<1>4. Moved(p, n + 1)'
  BY <1>2, ByteMoves
<1>5. PacketsInv'
  BY <1>2, <1>3 DEF PacketsInv
<1>6. CASE n + 1 = Len(PacketBytes(p))
  <2>1. hdr_cnt' = 0 /\ InSession(0)'
    BY <1>4, <1>6 DEF Moved
  <2> QED
    BY <1>3, <1>5, <1>6, <2>1 DEF Place
<1>7. CASE n + 1 # Len(PacketBytes(p))
  <2>1. Stands(p, n + 1)'
    BY <1>4, <1>7 DEF Moved
  <2>2. sent' = n + 1 /\ net' # << >> /\ Head(net') = p /\ n + 1 # 0
    BY <1>1, <1>2, <1>3, <1>7
  <2> QED
    BY <1>5, <2>1, <2>2 DEF Place
<1> QED
  BY <1>5, <1>6, <1>7

\* Bytes passed through are counted as the framer counts them.
LEMMA RunReceives ==
  ASSUME PacketsInv, Place, RunInv, ReceiveByte
  PROVE  RunInv'
<1>1. PICK b, r : b = PacketBytes(Head(net))[sent + 1] /\ r = IF out_last THEN 0 ELSE run
  OBVIOUS
<1>2. FramerByte(b) /\ run' = r + (IF out_valid' THEN 1 ELSE 0)
  BY <1>1 DEF ReceiveByte
<1>3. r = IF state = "ST_MSG_BODY" THEN body_cnt ELSE 0
  BY <1>1 DEF RunInv
<1>4. CASE BodyByte(b)
  <2>1. out_valid' = TRUE /\ out_last' = FALSE /\ body_cnt' = body_cnt + 1
        /\ state = "ST_MSG_BODY" /\ state' = "ST_MSG_BODY"
    BY <1>4 DEF BodyByte
  <2> QED
    BY <1>2, <1>3, <2>1 DEF RunInv
<1>5. CASE BodyDone(b)
  <2>1. out_last' = TRUE /\ state' # "ST_MSG_BODY"
    BY <1>5 DEF BodyDone, AfterMessage
  <2> QED
    BY <2>1 DEF RunInv
<1>6. CASE ~BodyByte(b) /\ ~BodyDone(b)
  <2>1. state # "ST_MSG_BODY" /\ out_valid' = FALSE /\ out_last' = FALSE
    BY <1>2, <1>6 DEF FramerByte, SessionByte, SeqByte, CountByte, HeaderDone, LengthByte,
                      ZeroLength, LengthDone, NoOutput
  <2>2. state' = "ST_MSG_BODY" => body_cnt' = 0
    BY <1>2, <1>6 DEF FramerByte, SessionByte, SeqByte, CountByte, HeaderDone, LengthByte,
                      ZeroLength, LengthDone, NextByte, AfterMessage
  <2>3. run' = 0
    BY <1>2, <1>3, <2>1
  <2> QED
    BY <2>1, <2>2, <2>3 DEF RunInv
<1> QED
  BY <1>4, <1>5, <1>6

-----------------------------------------------------------------------------
(* The numbers.                                                             *)

\* A gap that is counted closes the first seam; none opens.
LEMMA GapReceives ==
  ASSUME PacketsInv, Place, GapInv, ReceiveByte
  PROVE  GapInv' /\ (gap_count' = 0 => gap_count = 0)
         /\ (sent + 1 = HeaderLen /\ gap_count' = 0 /\ ~first_pkt
             => Head(net).seq = expected_seq)
<1>1. PICK p, n, size, e, all, k :
        /\ p = Head(net) /\ n = sent /\ size = Len(PacketBytes(p)) /\ e = expected_seq
        /\ all = p.seq + Len(p.lens) /\ k = Len(net)
  OBVIOUS
<1>2. /\ net # << >> /\ p \in Sound /\ Tail(net) \in Seq(Sound) /\ n \in Nat
      /\ Stands(p, n) /\ FramerByte(PacketBytes(p)[n + 1]) /\ net \in Seq(Sound)
  BY <1>1, Receiving DEF PacketsInv
<1>3. /\ net' = IF n + 1 = size THEN Tail(net) ELSE net
      /\ sent' = IF n + 1 = size THEN 0 ELSE n + 1
      /\ seq' = seq /\ faults' = faults
  BY <1>1 DEF ReceiveByte
<1>4. IF n + 1 = HeaderLen
      THEN /\ gap_count' = IF ~first_pkt /\ p.seq # e THEN Inc(gap_count) ELSE gap_count
           /\ first_pkt' = FALSE /\ expected_seq' = all
      ELSE gap_count' = gap_count /\ first_pkt' = first_pkt /\ expected_seq' = e
  <2>1. IF n + 1 = HeaderLen
        THEN /\ gap_count' = IF ~first_pkt /\ p.seq # expected_seq THEN Inc(gap_count)
                             ELSE gap_count
             /\ first_pkt' = FALSE /\ expected_seq' = p.seq + Len(p.lens)
        ELSE UNCHANGED <<gap_count, first_pkt, expected_seq>>
    BY <1>2, HeaderStep
  <2> QED
    BY <1>1, <2>1
<1>5. /\ n < size /\ size \in Nat /\ size >= HeaderLen /\ HeaderLen \in Nat /\ HeaderLen > 0
      /\ all \in Nat /\ k \in Nat /\ k > 0
  <2>1. p.seq \in Nat /\ Len(p.lens) \in Nat /\ size \in Nat /\ size >= HeaderLen
    BY <1>1, <1>2, PacketFacts
  <2>2. k \in Nat /\ k > 0
    BY <1>1, <1>2, EmptySeq
  <2> QED
    BY <1>1, <1>2, <2>1, <2>2, Counted, Sizes
<1>6. p = net[1] /\ After(net, e, 1) = all /\ After(net, 0, 1) = all
      /\ At(net, seq, 1) = p.seq /\ After(net, e, 0) = e
  <2>1. p = net[1] /\ 1 # k + 1
    BY <1>1, <1>2, <1>5
  <2> QED
    BY <1>1, <2>1 DEF After, At
<1>7. /\ gap_count \in Nat /\ e \in Nat /\ first_pkt \in BOOLEAN
      /\ n >= HeaderLen => ~first_pkt /\ e = all
      /\ gap_count + Cardinality(Breaks) <= 3 * faults
      /\ faults \in Nat /\ 3 * faults < CountMod
  <2>1. faults \in 0 .. MaxFaults /\ MaxFaults \in Nat /\ 3 * MaxFaults < CountMod
        /\ CountMod \in Nat
    BY LinkAssumption, FramerAssumption DEF PacketsInv
  <2>2. faults \in Nat /\ 3 * faults < CountMod
    BY <2>1
  <2> QED
    BY <1>1, <1>6, <2>2 DEF GapInv
<1>8. PICK open, B, C : /\ open = (~first_pkt /\ n < HeaderLen)
                        /\ B = Seams(net, seq, e, open) /\ C = Seams(net, seq, all, FALSE)
  OBVIOUS
<1>9. B = Breaks
  BY <1>1, <1>8 DEF Breaks
<1>10. /\ IsFiniteSet(B) /\ Cardinality(B) \in Nat /\ Cardinality(C) \in Nat
       /\ C = B \ {1}
  <2>1. Len(net) \in Nat
    BY <1>1, <1>5
  <2>2. Seams(net, seq, all, FALSE) = Seams(net, seq, e, open) \ {1}
    BY <2>1, SeamsJudged, Zenon
  <2>3. /\ IsFiniteSet(B) /\ Cardinality(B) \in Nat /\ Cardinality(C) \in Nat
    BY <1>8, <2>1, SeamsFinite
  <2> QED
    BY <1>8, <2>2, <2>3
<1>11. 1 \in B <=> p.seq # e /\ ~first_pkt /\ n < HeaderLen
  <2>1. 1 \in 1 .. k + 1 /\ 1 - 1 = 0
    BY <1>5
  <2> QED
    BY <1>1, <1>6, <1>8, <2>1 DEF Seams
<1>12. Cardinality(C) = IF 1 \in B THEN Cardinality(B) - 1 ELSE Cardinality(B)
  BY <1>10, FS_RemoveElement
<1>13. gap_count + 1 < CountMod => Inc(gap_count) = gap_count + 1
  BY <1>7, FramerAssumption DEF Inc
<1>14. n + 1 = HeaderLen /\ ~first_pkt /\ p.seq # e => gap_count' = gap_count + 1
  <2>1. SUFFICES ASSUME n + 1 = HeaderLen, ~first_pkt, p.seq # e
                 PROVE  gap_count' = gap_count + 1
    OBVIOUS
  <2>2. n < HeaderLen
    BY <1>2, <2>1, <1>5
  <2>3. 1 \in B
    BY <1>11, <2>1, <2>2
  <2>4. Cardinality(B) - 1 \in Nat
    BY <1>10, <1>12, <2>3
  <2>5. gap_count + 1 < CountMod
    BY <1>7, <1>9, <1>10, <2>4, FramerAssumption
  <2> QED
    BY <1>4, <1>13, <2>1, <2>5
\* Once the header has been judged.
<1>15. ASSUME n + 1 >= HeaderLen PROVE GapInv'
  <2>1. first_pkt' = FALSE /\ expected_seq' = all
    <3>1. CASE n + 1 = HeaderLen
      BY <1>4, <3>1
    <3>2. CASE n + 1 # HeaderLen
      <4>1. n >= HeaderLen
        BY <1>2, <1>5, <1>15, <3>2
      <4> QED
        BY <1>4, <1>7, <3>2, <4>1
    <3> QED
      BY <3>1, <3>2
  <2>2. gap_count' \in Nat /\ gap_count' + Cardinality(C) <= gap_count + Cardinality(B)
    <3>1. CASE 1 \in B
      <4>1. n + 1 = HeaderLen
        BY <1>2, <1>5, <1>11, <1>15, <3>1
      <4>2. gap_count' = gap_count + 1
        BY <1>11, <1>14, <3>1, <4>1
      <4> QED
        BY <1>7, <1>10, <1>12, <3>1, <4>2
    <3>2. CASE 1 \notin B
      <4>1. gap_count' = gap_count
        <5>1. CASE n + 1 = HeaderLen
          <6>1. n < HeaderLen
            BY <1>2, <1>5, <5>1
          <6> QED
            BY <1>4, <1>11, <3>2, <5>1, <6>1
        <5>2. CASE n + 1 # HeaderLen
          BY <1>4, <5>2
        <5> QED
          BY <5>1, <5>2
      <4> QED
        BY <1>7, <1>10, <1>12, <3>2, <4>1
    <3> QED
      BY <3>1, <3>2
  <2>3. CASE n + 1 = size
    <3>1. net' = Tail(net) /\ sent' = 0
      BY <1>3, <2>3
    <3>2. PICK D : D = Seams(Tail(net), seq, all, TRUE)
      OBVIOUS
    <3>3. Cardinality(D) <= Cardinality(C)
      <4>1. PICK t : t = TRUE
        OBVIOUS
      <4>2. Cardinality(Seams(Tail(net), seq, all, t)) <= Cardinality(Seams(net, seq, e, FALSE))
        BY <1>2, <1>6, SeamsTail
      <4>3. Seams(net, seq, e, FALSE) = Seams(net, seq, all, FALSE)
        <5>1. Seams(net, seq, e, FALSE) = Seams(net, seq, e, open) \ {1}
          <6>1. Len(net) \in Nat
            BY <1>1, <1>5
          <6> QED
            BY <6>1, SeamsJudged, Zenon
        <5> QED
          BY <1>8, <1>10, <5>1
      <4> QED
        BY <1>8, <3>2, <4>1, <4>2, <4>3
    <3>4. Breaks' = D
      <4>1. (~first_pkt /\ sent < HeaderLen)' = TRUE
        BY <1>5, <2>1, <3>1
      <4> QED
        BY <1>3, <2>1, <3>1, <3>2, <4>1 DEF Breaks
    <3>5. Cardinality(D) \in Nat
      <4>1. Len(Tail(net)) \in Nat
        BY <1>2
      <4> QED
        BY <3>2, <4>1, SeamsFinite
    <3>6. gap_count' + Cardinality(D) <= 3 * faults'
      BY <1>3, <1>7, <1>9, <1>10, <2>2, <3>3, <3>5
    <3>7. ~(sent' >= HeaderLen)
      BY <1>5, <3>1
    <3> QED
      BY <1>5, <2>1, <2>2, <3>4, <3>6, <3>7 DEF GapInv
  <2>4. CASE n + 1 # size
    <3>1. net' = net /\ sent' = n + 1 /\ ~(n + 1 < HeaderLen)
      BY <1>2, <1>3, <1>5, <1>15, <2>4
    <3>2. Breaks' = C
      <4>1. (~first_pkt /\ sent < HeaderLen)' = FALSE
        BY <3>1
      <4> QED
        BY <1>3, <1>8, <2>1, <3>1, <4>1 DEF Breaks
    <3>3. gap_count' + Cardinality(C) <= 3 * faults'
      BY <1>3, <1>7, <1>9, <1>10, <2>2
    <3>4. After(net', 0, 1) = all
      BY <1>6, <3>1
    <3> QED
      BY <1>5, <2>1, <2>2, <3>2, <3>3, <3>4 DEF GapInv
  <2> QED
    BY <2>3, <2>4
<1>16. ASSUME ~(n + 1 >= HeaderLen) PROVE GapInv'
  <2>1. n + 1 # HeaderLen /\ n + 1 # size /\ n < HeaderLen /\ n + 1 < HeaderLen
    BY <1>2, <1>5, <1>16
  <2>2. /\ net' = net /\ sent' = n + 1 /\ gap_count' = gap_count /\ first_pkt' = first_pkt
        /\ expected_seq' = e
    BY <1>3, <1>4, <2>1
  <2>3. Breaks' = B
    <3>1. (~first_pkt /\ sent < HeaderLen)' = open
      BY <1>8, <2>1, <2>2
    <3> QED
      BY <1>3, <1>8, <2>2, <3>1 DEF Breaks
  <2>4. ~(sent' >= HeaderLen)
    BY <1>2, <1>5, <2>1, <2>2
  <2> QED
    BY <1>1, <1>3, <1>7, <1>9, <2>1, <2>2, <2>3, <2>4 DEF GapInv
<1>17. (gap_count' = 0 => gap_count = 0)
       /\ (n + 1 = HeaderLen /\ gap_count' = 0 /\ ~first_pkt => p.seq = e)
  <2>1. CASE n + 1 = HeaderLen /\ ~first_pkt /\ p.seq # e
    <3>1. gap_count' = gap_count + 1 /\ gap_count + 1 # 0
      BY <1>7, <1>14, <2>1
    <3> QED
      BY <3>1
  <2>2. CASE ~(n + 1 = HeaderLen /\ ~first_pkt /\ p.seq # e)
    BY <1>4, <2>2
  <2> QED
    BY <2>1, <2>2
<1> QED
  BY <1>1, <1>15, <1>16, <1>17

\* While no gap is counted the number due is the next one, message by message.
LEMMA DueReceives ==
  ASSUME PacketsInv, Place, GapInv, DueInv, ReceiveByte
  PROVE  DueInv'
<1>1. SUFFICES ASSUME gap_count' = 0
               PROVE  /\ in_order'
                      /\ due_number' # 0 => ~first_pkt' /\ due_number' = NextNumber'
  BY DEF DueInv
<1>2. PICK p, n, size, before, behind, e :
        /\ p = Head(net) /\ n = sent /\ size = Len(PacketBytes(p)) /\ e = expected_seq
        /\ before = EndedBy(p, n) /\ behind = EndedBy(p, n + 1)
  OBVIOUS
<1>3. /\ net # << >> /\ p \in Sound /\ n \in Nat
      /\ Stands(p, n) /\ FramerByte(PacketBytes(p)[n + 1]) /\ net \in Seq(Sound)
  BY <1>2, Receiving DEF PacketsInv
<1>4. /\ net' = IF n + 1 = size THEN Tail(net) ELSE net
      /\ sent' = IF n + 1 = size THEN 0 ELSE n + 1
      /\ due_number' = IF behind > before THEN p.seq + before + 1 ELSE due_number
      /\ in_order' = (in_order /\ (behind > before => due_number \in {0, p.seq + before}))
  BY <1>2 DEF ReceiveByte
<1>5. /\ n < size /\ size \in Nat /\ size >= HeaderLen /\ HeaderLen \in Nat /\ HeaderLen > 0
      /\ before \in Nat /\ behind \in {before, before + 1}
      /\ n < HeaderLen => before = 0 /\ behind = 0
      /\ n + 1 = size => behind = Len(p.lens)
      /\ p.seq \in Nat /\ Len(p.lens) \in Nat
  <2>1. p.seq \in Nat /\ Len(p.lens) \in Nat /\ size \in Nat /\ size >= HeaderLen
    BY <1>2, <1>3, PacketFacts
  <2>2. /\ n < size /\ before \in Nat /\ behind \in {before, before + 1}
        /\ n < HeaderLen => before = 0 /\ behind = 0
        /\ n + 1 = size => behind = Len(p.lens)
    BY <1>2, <1>3, Counted
  <2> QED
    BY <2>1, <2>2, Sizes
<1>6. After(net, 0, 1) = p.seq + Len(p.lens)
  <2>1. p = net[1]
    BY <1>2, <1>3
  <2> QED
    BY <2>1 DEF After
<1>7. /\ gap_count = 0 /\ in_order
      /\ due_number # 0 => ~first_pkt /\ due_number = NextNumber
      /\ n + 1 = HeaderLen /\ ~first_pkt => p.seq = e
  BY <1>1, <1>2, GapReceives DEF DueInv
<1>8. NextNumber = IF n >= HeaderLen THEN p.seq + before ELSE e
  BY <1>2 DEF NextNumber
<1>9. n >= HeaderLen => ~first_pkt /\ e = p.seq + Len(p.lens)
  BY <1>2, <1>6 DEF GapInv
<1>10. IF n + 1 = HeaderLen THEN first_pkt' = FALSE /\ expected_seq' = p.seq + Len(p.lens)
       ELSE first_pkt' = first_pkt /\ expected_seq' = e
  <2>1. IF n + 1 = HeaderLen
        THEN /\ gap_count' = IF ~first_pkt /\ p.seq # expected_seq THEN Inc(gap_count)
                             ELSE gap_count
             /\ first_pkt' = FALSE /\ expected_seq' = p.seq + Len(p.lens)
        ELSE UNCHANGED <<gap_count, first_pkt, expected_seq>>
    BY <1>3, HeaderStep
  <2> QED
    BY <1>2, <2>1
<1>11. NextNumber' = IF n + 1 = size THEN expected_seq'
                     ELSE IF n + 1 >= HeaderLen THEN p.seq + behind ELSE expected_seq'
  <2>1. CASE n + 1 = size
    <3>1. ~(sent' >= HeaderLen)
      BY <1>4, <1>5, <2>1
    <3> QED
      BY <2>1, <3>1 DEF NextNumber
  <2>2. CASE n + 1 # size
    <3>1. sent' = n + 1 /\ Head(net') = p
      BY <1>2, <1>4, <2>2
    <3> QED
      BY <1>2, <2>2, <3>1 DEF NextNumber
  <2> QED
    BY <2>1, <2>2
\* Behind the header the number of the next message moves with the ends.
<1>12. CASE n >= HeaderLen
  <2>1. n + 1 # HeaderLen /\ n + 1 >= HeaderLen
    BY <1>3, <1>5, <1>12
  <2>2. NextNumber' = p.seq + behind /\ ~first_pkt'
    BY <1>5, <1>9, <1>10, <1>11, <1>12, <2>1
  <2>3. CASE behind = before + 1
    <3>1. behind > before /\ p.seq + before + 1 = p.seq + behind
      BY <1>5, <2>3
    <3>2. due_number \in {0, p.seq + before}
      BY <1>7, <1>8, <1>12
    <3> QED
      BY <1>4, <1>7, <2>2, <3>1, <3>2
  <2>4. CASE behind = before
    <3>1. ~(behind > before)
      BY <1>5, <2>4
    <3> QED
      BY <1>4, <1>7, <1>8, <1>12, <2>2, <2>4, <3>1
  <2> QED
    BY <1>5, <2>3, <2>4
\* In the header no message ends.
<1>13. CASE ~(n >= HeaderLen)
  <2>1. n < HeaderLen /\ before = 0 /\ behind = 0 /\ ~(behind > before)
    BY <1>3, <1>5, <1>13
  <2>2. due_number' = due_number /\ in_order'
    BY <1>4, <1>7, <2>1
  <2>3. SUFFICES ASSUME due_number # 0 PROVE ~first_pkt' /\ due_number = NextNumber'
    BY <2>2
  <2>4. ~first_pkt /\ due_number = e
    BY <1>7, <1>8, <1>13, <2>3
  <2>5. CASE n + 1 = HeaderLen
    <3>1. p.seq = e /\ first_pkt' = FALSE /\ expected_seq' = p.seq + Len(p.lens)
      BY <1>7, <1>10, <2>4, <2>5
    <3>2. NextNumber' = p.seq
      <4>1. CASE n + 1 = size
        <5>1. Len(p.lens) = 0
          BY <1>5, <2>1, <4>1
        <5> QED
          BY <1>5, <1>11, <3>1, <4>1, <5>1
      <4>2. CASE n + 1 # size
        <5>1. n + 1 >= HeaderLen
          BY <1>5, <2>5
        <5> QED
          BY <1>5, <1>11, <2>1, <4>2, <5>1
      <4> QED
        BY <4>1, <4>2
    <3> QED
      BY <2>4, <3>1, <3>2
  <2>6. CASE n + 1 # HeaderLen
    <3>1. ~(n + 1 >= HeaderLen)
      BY <1>3, <1>5, <2>1, <2>6
    <3>2. NextNumber' = expected_seq'
      BY <1>11, <3>1
    <3> QED
      BY <1>10, <2>4, <2>6, <3>2
  <2> QED
    BY <2>5, <2>6
<1> QED
  BY <1>12, <1>13

-----------------------------------------------------------------------------
(* Steps of the writer and the network, and edges without a byte.           *)

\* What the writer and the network do leaves all but the seams as it was.
LEMMA HeldKeeps ==
  ASSUME PacketsInv, Place, Held
  PROVE  /\ Place' /\ (RunInv => RunInv') /\ (DueInv => DueInv')
         /\ sent >= HeaderLen => After(net', 0, 1) = After(net, 0, 1)
         /\ GapInv /\ gap_count + Cardinality(Seams(net', seq', expected_seq,
                                                  ~first_pkt /\ sent < HeaderLen))
                      <= 3 * faults'
            => GapInv'
<1>1. PICK p, n : p = Head(net) /\ n = sent
  OBVIOUS
<1>2. UNCHANGED <<framerVars, sent, due_number, in_order, run>>
  BY DEF Held
<1>3. sent # 0 => net # << >> /\ net' # << >> /\ Head(net') = p
  BY <1>1 DEF Held, Place
<1>4. n \in Nat /\ HeaderLen \in Nat /\ HeaderLen > 0
  BY <1>1, Sizes DEF PacketsInv
<1>5. Place'
  <2>1. CASE sent = 0
    BY <1>2, <2>1 DEF Place, InSession, framerVars, header
  <2>2. CASE sent # 0
    <3>1. Stands(p, n)
      BY <1>1, <2>2 DEF Place
    <3>2. Stands(p, n)'
      BY <1>2, <3>1 DEF framerVars, header, Stands, InSession, InSeq, InCount, InLength, InBody,
                        Current
    <3> QED
      BY <1>1, <1>2, <1>3, <2>2, <3>2 DEF Place
  <2> QED
    BY <2>1, <2>2
<1>6. RunInv => RunInv'
  BY <1>2 DEF RunInv, framerVars
<1>7. NextNumber' = NextNumber
  <2>1. CASE sent >= HeaderLen
    <3>1. sent # 0
      BY <1>1, <1>4, <2>1
    <3> QED
      BY <1>1, <1>2, <1>3, <2>1, <3>1 DEF NextNumber
  <2>2. CASE ~(sent >= HeaderLen)
    BY <1>2, <2>2 DEF NextNumber, framerVars, header
  <2> QED
    BY <2>1, <2>2
<1>8. DueInv => DueInv'
  BY <1>2, <1>7 DEF DueInv, framerVars, header
<1>9. ASSUME sent >= HeaderLen PROVE After(net', 0, 1) = After(net, 0, 1)
  <2>1. sent # 0
    BY <1>1, <1>4, <1>9
  <2>2. Head(net') = net'[1] /\ Head(net) = net[1]
    BY <1>3, <2>1
  <2> QED
    BY <1>1, <1>3, <2>1, <2>2 DEF After
<1>10. ASSUME GapInv, gap_count + Cardinality(Seams(net', seq', expected_seq,
                                                   ~first_pkt /\ sent < HeaderLen))
                      <= 3 * faults'
       PROVE  GapInv'
  <2>1. UNCHANGED <<gap_count, expected_seq, first_pkt, sent>>
    BY <1>2 DEF framerVars, header
  <2>2. Breaks' = Seams(net', seq', expected_seq, ~first_pkt /\ sent < HeaderLen)
    BY <2>1 DEF Breaks
  <2> QED
    BY <1>9, <1>10, <2>1, <2>2 DEF GapInv
<1> QED
  BY <1>5, <1>6, <1>8, <1>9, <1>10

Upstream == (\E len \in Length : AddMessage(len)) \/ Close \/ Heartbeat

\* At the start, and after a reset of the receiver.
AtStart ==
  /\ FramerInit
  /\ batch = << >> /\ seq = start_seq /\ closed = FALSE
  /\ net = << >> /\ sent = 0 /\ faults = 0
  /\ due_number = 0 /\ in_order = TRUE /\ run = 0

\* The invariant holds where the link starts.
LEMMA StartsWell == AtStart => LinkInv
<1>1. SUFFICES ASSUME AtStart PROVE LinkInv
  OBVIOUS
<1>2. /\ state = "ST_SESSION" /\ hdr_cnt = 0 /\ seq_reg = 0 /\ count_reg = 0 /\ msg_len_reg = 0
      /\ expected_seq = 0 /\ first_pkt = TRUE /\ gap_count = 0 /\ out_last = FALSE
      /\ batch = << >> /\ seq = start_seq /\ net = << >> /\ sent = 0 /\ faults = 0
      /\ due_number = 0 /\ in_order = TRUE /\ run = 0
  BY <1>1 DEF AtStart, FramerInit
<1>3. HeaderLen \in Nat /\ HeaderLen > 0 /\ SESSION_LEN \in Nat /\ SESSION_LEN > 0
  BY Sizes
<1>4. PacketsInv
  <2>1. 0 \in 0 .. MaxFaults
    BY LinkAssumption
  <2>2. << >> \in Seq(Length) /\ Len(<< >>) = 0 /\ << >> \in Seq(Sound)
    OBVIOUS
  <2> QED
    BY <1>2, <2>1, <2>2, Bounds DEF PacketsInv
<1>5. Place
  BY <1>2, <1>3 DEF Place, InSession
<1>6. RunInv
  BY <1>2 DEF RunInv
<1>7. GapInv
  <2>1. Breaks = {}
    BY <1>2 DEF Breaks, Seams
  <2>2. Cardinality(Breaks) = 0
    BY <2>1, FS_EmptySet
  <2>3. ~(sent >= HeaderLen)
    BY <1>2, <1>3
  <2> QED
    BY <1>2, <2>2, <2>3 DEF GapInv
<1>8. DueInv
  BY <1>2 DEF DueInv
<1> QED
  BY <1>4, <1>5, <1>6, <1>7, <1>8 DEF LinkInv

\* The invariant over the steps of the writer.
LEMMA UpstreamKeeps ==
  ASSUME LinkInv, Upstream
  PROVE  LinkInv'
<1>1. PacketsInv /\ Place /\ RunInv /\ GapInv /\ DueInv
  BY DEF LinkInv
<1>2. PacketsInv' /\ Held /\ faults' = faults /\ SeamsStay
  BY <1>1, AddStep, CloseStep, HeartbeatStep DEF Upstream
<1>3. Seams(net', seq', expected_seq, ~first_pkt /\ sent < HeaderLen) = Breaks
  BY <1>2 DEF SeamsStay, Breaks
<1>4. gap_count + Cardinality(Seams(net', seq', expected_seq, ~first_pkt /\ sent < HeaderLen))
      <= 3 * faults'
  BY <1>1, <1>2, <1>3 DEF GapInv
<1> QED
  BY <1>1, <1>2, <1>4, HeldKeeps DEF LinkInv

\* The invariant over a packet lost, repeated or swapped.
LEMMA FaultKeeps ==
  ASSUME LinkInv, Lose \/ Repeat \/ Swap
  PROVE  LinkInv'
<1>1. PacketsInv /\ Place /\ RunInv /\ GapInv /\ DueInv
  BY DEF LinkInv
<1>2. /\ PacketsInv' /\ Held /\ faults' = faults + 1
      /\ \A e, open : Cardinality(Seams(net', seq', e, open))
                      <= Cardinality(Seams(net, seq, e, open)) + 3
  BY <1>1, FaultStep
<1>3. PICK a, b, c : /\ a = Cardinality(Seams(net', seq', expected_seq,
                                              ~first_pkt /\ sent < HeaderLen))
                     /\ b = Cardinality(Breaks) /\ c = gap_count
  OBVIOUS
<1>4. a <= b + 3
  BY <1>2, <1>3 DEF Breaks
<1>5. a \in Nat /\ b \in Nat /\ c \in Nat /\ c + b <= 3 * faults /\ faults \in Nat
  <2>1. Len(net) \in Nat /\ Len(net') \in Nat
    <3>1. net \in Seq(Sound) /\ net' \in Seq(Sound)
      BY <1>1, <1>2 DEF PacketsInv
    <3> QED
      BY <3>1
  <2>2. a \in Nat /\ b \in Nat
    BY <1>3, <2>1, SeamsFinite DEF Breaks
  <2> QED
    BY <1>1, <1>3, <2>2 DEF GapInv, PacketsInv
<1>6. c + a <= 3 * faults'
  BY <1>2, <1>4, <1>5
<1> QED
  BY <1>1, <1>2, <1>3, <1>6, HeldKeeps DEF LinkInv

\* The invariant over an edge without a byte.
LEMMA NoByteKeeps ==
  ASSUME LinkInv, NoByte \/ UNCHANGED linkVars
  PROVE  LinkInv'
<1>1. /\ UNCHANGED <<state, hdr_cnt, header, count_reg, msg_len_reg, body_cnt, malformed_count>>
      /\ UNCHANGED <<batch, seq, closed, net, sent, faults, due_number, in_order>>
  BY DEF NoByte, FramerIdle, linkVars, framerVars
<1>2. PacketsInv'
  BY <1>1 DEF LinkInv, PacketsInv
<1>3. Place'
  BY <1>1 DEF LinkInv, Place, header, Stands, InSession, InSeq, InCount, InLength, InBody, Current
<1>4. RunInv'
  <2>1. CASE NoByte
    <3>1. out_last' = FALSE /\ run' = IF out_last THEN 0 ELSE run
      BY <2>1 DEF NoByte, FramerIdle, NoOutput
    <3> QED
      BY <1>1, <3>1 DEF LinkInv, RunInv
  <2>2. CASE UNCHANGED linkVars
    BY <2>2 DEF LinkInv, RunInv, linkVars, framerVars
  <2> QED
    BY <2>1, <2>2
<1>5. GapInv'
  <2>1. Breaks' = Breaks
    BY <1>1 DEF Breaks, header
  <2> QED
    BY <1>1, <2>1 DEF LinkInv, GapInv, header
<1>6. DueInv'
  <2>1. NextNumber' = NextNumber
    BY <1>1 DEF NextNumber, header
  <2> QED
    BY <1>1, <2>1 DEF LinkInv, DueInv, header
<1> QED
  BY <1>2, <1>3, <1>4, <1>5, <1>6 DEF LinkInv

\* The invariant over a reset of the receiver.
LEMMA ResetKeeps ==
  ASSUME ResetLink
  PROVE  LinkInv'
<1>1. AtStart'
  BY DEF ResetLink, FramerReset, NoOutput, AtStart, FramerInit
<1> QED
  BY <1>1, StartsWell, PTL

\* The inductive invariant of the link: packets and writer, the place of the
\* framer, the bytes passed through, the gaps to come and the number due.
THEOREM LinkInvariant == Spec => []LinkInv
<1>1. Init => LinkInv
  BY StartsWell DEF Init, AtStart
<1>2. LinkInv /\ [Next]_linkVars => LinkInv'
  <2>1. SUFFICES ASSUME LinkInv, [Next]_linkVars PROVE LinkInv'
    OBVIOUS
  <2>2. CASE Upstream
    BY <2>1, <2>2, UpstreamKeeps
  <2>3. CASE Lose \/ Repeat \/ Swap
    BY <2>1, <2>3, FaultKeeps
  <2>4. CASE ReceiveByte
    <3>1. PacketsInv' /\ Place'
      BY <2>1, <2>4, PlaceReceives DEF LinkInv
    <3>2. RunInv'
      BY <2>1, <2>4, RunReceives DEF LinkInv
    <3>3. GapInv'
      BY <2>1, <2>4, GapReceives DEF LinkInv
    <3>4. DueInv'
      BY <2>1, <2>4, DueReceives DEF LinkInv
    <3> QED
      BY <3>1, <3>2, <3>3, <3>4 DEF LinkInv
  <2>5. CASE NoByte \/ UNCHANGED linkVars
    BY <2>1, <2>5, NoByteKeeps
  <2>6. CASE ResetLink
    BY <2>6, ResetKeeps
  <2> QED
    BY <2>1, <2>2, <2>3, <2>4, <2>5, <2>6 DEF Next, Upstream
<1> QED
  BY <1>1, <1>2, PTL DEF Spec

\* The framer is where the bytes are, whatever the lengths, the packets and the
\* faults of the network.
THEOREM FramerInStep == Spec => []InStep
<1>1. LinkInv => InStep
  <2>1. SUFFICES ASSUME LinkInv PROVE InStep
    OBVIOUS
  <2>2. PacketsInv /\ Place /\ RunInv
    BY <2>1 DEF LinkInv
  <2>3. sent = 0 <=> state = "ST_SESSION" /\ hdr_cnt = 0
    BY <2>2 DEF PacketsInv, Place, Stands, InSession, InSeq, InCount, InLength, InBody
  <2>4. ASSUME state = "ST_MSG_BODY"
        PROVE  /\ body_cnt = (IF out_last THEN 0 ELSE run)
               /\ msg_len_reg = Head(net).lens[EndedBy(Head(net), sent) + 1]
    <3>1. sent # 0
      BY <2>3, <2>4, <2>2 DEF Place, InSession
    <3>2. net # << >> /\ Stands(Head(net), sent) /\ sent \in Nat /\ net \in Seq(Sound)
      BY <2>2, <3>1 DEF Place, PacketsInv
    <3>3. Head(net) \in Sound
      BY <3>2, HeadTailProperties
    <3>4. msg_len_reg = Head(net).lens[EndedBy(Head(net), sent) + 1]
      BY <2>4, <3>2, <3>3, Counted
    <3> QED
      BY <2>2, <2>4, <3>4 DEF RunInv
  <2> QED
    BY <2>3, <2>4 DEF InStep
<1> QED
  BY <1>1, LinkInvariant, PTL

\* No loss, repeat or swap of packets passes in silence: gap_count stays at
\* zero, and does not come back to it, only while all numbers follow each other.
THEOREM LossIsNeverSilent == Spec => []NoSilentLoss
<1>1. LinkInv => NoSilentLoss
  BY DEF LinkInv, DueInv, NoSilentLoss
<1> QED
  BY <1>1, LinkInvariant, PTL

\* A feed that arrives as written counts no gap.
THEOREM AlarmIsNeverFalse == Spec => []NoFalseAlarm
<1>1. LinkInv => NoFalseAlarm
  <2>1. SUFFICES ASSUME LinkInv, faults = 0 PROVE gap_count = 0
    BY DEF NoFalseAlarm
  <2>2. gap_count \in Nat /\ gap_count + Cardinality(Breaks) <= 3 * faults
    BY <2>1 DEF LinkInv, GapInv
  <2>3. Cardinality(Breaks) \in Nat
    <3>1. net \in Seq(Sound)
      BY <2>1 DEF LinkInv, PacketsInv
    <3>2. Len(net) \in Nat
      BY <3>1
    <3> QED
      BY <3>2, SeamsFinite DEF Breaks
  <2> QED
    BY <2>1, <2>2, <2>3
<1> QED
  BY <1>1, LinkInvariant, PTL

-----------------------------------------------------------------------------
(* The refinement of MoldStream.                                           *)

\* The messages of p still to come when n of its bytes have been taken.
Left(p, n) == IF n < HeaderLen THEN << >> ELSE SubSeq(p.lens, EndedBy(p, n) + 1, Len(p.lens))

\* Before the end of the header nothing is to come, at it all messages are.
LEMMA LeftOfHeader ==
  ASSUME NEW p \in Sound, NEW n \in Nat, n < HeaderLen
  PROVE  Left(p, n) = << >> /\ Left(p, n + 1) = IF n + 1 = HeaderLen THEN p.lens ELSE << >>
<1>1. CASE n + 1 = HeaderLen
  <2>1. EndedBy(p, n + 1) = 0 /\ ~(n + 1 < HeaderLen)
    <3>1. n + 1 \in Nat /\ n + 1 <= HeaderLen /\ ~(n + 1 < HeaderLen)
      BY <1>1, Sizes
    <3> QED
      BY <3>1, InHeader
  <2>2. SubSeq(p.lens, 0 + 1, Len(p.lens)) = p.lens
    <3>1. PICK s : s = p.lens
      OBVIOUS
    <3>2. s \in Seq(Length)
      BY <3>1, PacketFacts
    <3>3. SubSeq(s, 0 + 1, Len(s)) = s
      BY <3>2
    <3> QED
      BY <3>1, <3>3
  <2> QED
    BY <1>1, <2>1, <2>2 DEF Left
<1>2. CASE n + 1 # HeaderLen
  <2>1. n + 1 < HeaderLen
    BY <1>2, Sizes
  <2> QED
    BY <1>2, <2>1 DEF Left
<1> QED
  BY <1>1, <1>2

\* In a message it is the first to come; at its end it no longer is.
LEMMA LeftOfMessage ==
  ASSUME NEW p \in Sound, NEW n \in Nat, NEW i \in 1 .. Len(p.lens),
         HeaderLen <= Off(p, i - 1), Off(p, i - 1) <= n, n < Off(p, i)
  PROVE  /\ Left(p, n) # << >> /\ Head(Left(p, n)) = p.lens[i]
         /\ Left(p, n + 1) = IF n + 1 = Off(p, i) THEN Tail(Left(p, n)) ELSE Left(p, n)
<1>1. PICK s, all, off, k : s = p.lens /\ all = Len(s) /\ off = Off(p, i - 1) /\ k = i - 1
  OBVIOUS
<1>2. s \in Seq(Length) /\ all \in Nat /\ i \in 1 .. all /\ off \in Nat /\ i + 1 \in 1 .. all + 1
      /\ k + 1 = i
  <2>1. s \in Seq(Length) /\ all \in Nat
    BY <1>1, PacketFacts
  <2>2. i - 1 \in 0 .. all
    BY <1>1, <2>1
  <2> QED
    BY <1>1, <2>1, <2>2, PacketFacts, Offsets
<1>3. /\ EndedBy(p, n) = k
      /\ EndedBy(p, n + 1) = IF n + 1 = Off(p, i) THEN i ELSE k
  BY <1>1, Within
<1>4. ~(n < HeaderLen) /\ ~(n + 1 < HeaderLen)
  BY <1>1, <1>2, Sizes
<1>5. PICK r : r = SubSeq(s, i, all)
  OBVIOUS
<1>6. r # << >> /\ Head(r) = s[i] /\ Tail(r) = SubSeq(s, i + 1, all)
  <2>1. /\ r \in Seq(Length) /\ Len(r) = all - i + 1
        /\ \A j \in 1 .. all - i + 1 : r[j] = s[i + j - 1]
    BY <1>1, <1>2, <1>5
  <2>2. r # << >> /\ Head(r) = s[i]
    BY <1>2, <2>1
  <2>3. PICK t : t = SubSeq(s, i + 1, all)
    OBVIOUS
  <2>4. /\ t \in Seq(Length) /\ Len(t) = all - i
        /\ \A j \in 1 .. all - i : t[j] = s[i + j]
    <3>1. PICK m : m = i + 1
      OBVIOUS
    <3>2. m \in 1 .. all + 1 /\ t = SubSeq(s, m, all)
      BY <1>2, <2>3, <3>1
    <3>3. /\ t \in Seq(Length) /\ Len(t) = all - m + 1
          /\ \A j \in 1 .. all - m + 1 : t[j] = s[m + j - 1]
      BY <1>1, <1>2, <3>2
    <3> QED
      BY <1>2, <3>1, <3>3
  <2>5. /\ Tail(r) \in Seq(Length) /\ Len(Tail(r)) = all - i
        /\ \A j \in 1 .. all - i : Tail(r)[j] = r[j + 1]
    BY <1>2, <2>1, <2>2
  <2>6. \A j \in 1 .. all - i : Tail(r)[j] = t[j]
    <3>1. TAKE j \in 1 .. all - i
    <3>2. j + 1 \in 1 .. all - i + 1 /\ i + (j + 1) - 1 = i + j
      BY <1>2
    <3> QED
      BY <2>1, <2>4, <2>5, <3>2
  <2>7. Tail(r) = t
    BY <2>4, <2>5, <2>6, SeqEqual
  <2> QED
    BY <2>2, <2>3, <2>7
<1>7. Left(p, n) = r
  BY <1>1, <1>2, <1>3, <1>4, <1>5 DEF Left
<1>8. Left(p, n + 1) = IF n + 1 = Off(p, i) THEN SubSeq(s, i + 1, all) ELSE r
  BY <1>1, <1>2, <1>3, <1>4, <1>5 DEF Left
<1> QED
  BY <1>1, <1>6, <1>7, <1>8

\* What the framer has yet to hand on, before and behind the byte that arrives.
LEMMA RemainingReceives ==
  ASSUME PacketsInv, Place, ReceiveByte, NEW p, NEW n, p = Head(net), n = sent
  PROVE  Remaining = Left(p, n) /\ Remaining' = Left(p, n + 1)
<1>1. PICK size : size = Len(PacketBytes(p))
  OBVIOUS
<1>2. /\ net # << >> /\ p \in Sound /\ n \in Nat /\ Stands(p, n)
  BY Receiving
<1>3. /\ net' = IF n + 1 = size THEN Tail(net) ELSE net
      /\ sent' = IF n + 1 = size THEN 0 ELSE n + 1
  BY <1>1 DEF ReceiveByte
<1>4. HeaderLen = SESSION_LEN + SEQ_LEN + COUNT_LEN /\ HeaderLen \in Nat /\ 0 < HeaderLen
  BY Sizes
<1>5. Remaining = Left(p, n)
  BY <1>2, <1>4 DEF Remaining, Left
<1>6. CASE n + 1 = size
  <2>1. Remaining' = << >>
    BY <1>3, <1>4, <1>6 DEF Remaining
  <2>2. EndedBy(p, n + 1) = Len(p.lens) /\ n + 1 >= HeaderLen
    BY <1>1, <1>2, <1>6, Counted, PacketFacts
  <2>3. SubSeq(p.lens, Len(p.lens) + 1, Len(p.lens)) = << >>
    <3>1. PICK s : s = p.lens
      OBVIOUS
    <3>2. s \in Seq(Length)
      BY <1>2, <3>1, PacketFacts
    <3>3. SubSeq(s, Len(s) + 1, Len(s)) = << >>
      BY <3>2
    <3> QED
      BY <3>1, <3>3
  <2>4. Left(p, n + 1) = << >>
    BY <2>2, <2>3 DEF Left
  <2> QED
    BY <1>5, <2>1, <2>4
<1>7. CASE n + 1 # size
  <2>1. net' = net /\ sent' = n + 1 /\ net' # << >> /\ Head(net') = p
    BY <1>2, <1>3, <1>7
  <2>2. Remaining' = Left(p, n + 1)
    BY <1>4, <2>1 DEF Remaining, Left
  <2> QED
    BY <1>5, <2>2
<1> QED
  BY <1>6, <1>7

\* A header completed is a packet of the stream.
LEMMA StreamHeader ==
  ASSUME PacketsInv, Place, GapInv, ReceiveByte,
         HeaderDone(PacketBytes(Head(net))[sent + 1])
  PROVE  \E p \in MCPackets : Stream!Header(p)
<1>1. PICK p, n, b : p = Head(net) /\ n = sent /\ b = PacketBytes(p)[n + 1]
  OBVIOUS
<1>2. /\ p \in Sound /\ n \in Nat /\ Stands(p, n) /\ FramerByte(PacketBytes(p)[n + 1])
  BY <1>1, Receiving
<1>3. HeaderDone(b) /\ n + 1 = HeaderLen /\ Shift(count_reg, b, COUNT_LEN) = p.count
  BY <1>1, <1>2, HeaderEnds
<1>4. /\ gap_count' = IF ~first_pkt /\ p.seq # expected_seq THEN Inc(gap_count) ELSE gap_count
      /\ first_pkt' = FALSE /\ expected_seq' = p.seq + Len(p.lens)
  BY <1>2, <1>3, HeaderStep
<1>5. /\ end_of_session' = (end_of_session \/ p.count = EndCount)
      /\ malformed_count' = malformed_count /\ out_last' = FALSE
  BY <1>3 DEF HeaderDone, NoOutput
<1>6. Remaining = << >> /\ Remaining' = p.lens
  <2>1. Remaining = Left(p, n) /\ Remaining' = Left(p, n + 1)
    BY <1>1, RemainingReceives
  <2>2. n < HeaderLen
    BY <1>2, <1>3
  <2> QED
    BY <1>2, <1>3, <2>1, <2>2, LeftOfHeader
<1>7. p \in MCPackets
  <2>1. p.lens \in Seq(Length) /\ Len(p.lens) <= msgs_per_packet /\ p \in Packet
        /\ Len(p.lens) \in Nat
    BY <1>2, PacketFacts DEF Sound
  <2>2. Len(p.lens) \in 0 .. msgs_per_packet
    BY <2>1, Bounds
  <2>3. p.lens \in [1 .. Len(p.lens) -> Length]
    <3>1. PICK s : s = p.lens
      OBVIOUS
    <3>2. s \in Seq(Length)
      BY <2>1, <3>1
    <3>3. s \in [1 .. Len(s) -> Length]
      BY <3>2
    <3> QED
      BY <3>1, <3>3
  <2>4. p.lens \in UNION {[1 .. k -> Length] : k \in 0 .. msgs_per_packet}
    BY <2>2, <2>3
  <2>5. p = [seq |-> p.seq, count |-> p.count, lens |-> p.lens]
        /\ p.seq \in 0 .. SeqWrap - 1 /\ p.count \in Word
    BY <2>1 DEF Packet
  <2> QED
    BY <2>4, <2>5 DEF MCPackets
<1>8. (p.seq + Len(p.lens)) % SeqWrap = p.seq + Len(p.lens)
  BY <1>2, BelowWrap
<1>9. expected_seq # NoSeq
  BY NoSeqAssumption DEF GapInv
<1>10. gap_count' = IF (IF first_pkt THEN NoSeq ELSE expected_seq) \notin {NoSeq, p.seq}
                    THEN (gap_count + 1) % CountMod ELSE gap_count
  BY <1>4, <1>9 DEF Inc
<1> QED
  BY <1>4, <1>5, <1>6, <1>7, <1>8, <1>10 DEF Stream!Header

\* A byte of the header but for the last hands nothing on.
LEMMA StreamWaits ==
  ASSUME PacketsInv, Place, ReceiveByte, state \in {"ST_SESSION", "ST_SEQ", "ST_COUNT"},
         ~HeaderDone(PacketBytes(Head(net))[sent + 1])
  PROVE  Stream!Wait
<1>1. PICK p, n, b : p = Head(net) /\ n = sent /\ b = PacketBytes(p)[n + 1]
  OBVIOUS
<1>2. /\ p \in Sound /\ n \in Nat /\ Stands(p, n) /\ FramerByte(b)
  BY <1>1, Receiving
<1>3. SessionByte(b) \/ SeqByte(b) \/ CountByte(b)
  BY <1>1, <1>2 DEF FramerByte, LengthByte, ZeroLength, LengthDone, BodyByte, BodyDone
<1>4. UNCHANGED <<expected_seq, first_pkt, gap_count, end_of_session, malformed_count>>
      /\ out_last' = FALSE
  BY <1>3 DEF SessionByte, SeqByte, CountByte, NoOutput, header
<1>5. n + 1 < HeaderLen
  <2>1. CASE InSession(n)
    BY <1>2, <2>1, Sizes DEF InSession
  <2>2. CASE InSeq(p, n)
    <3>1. n = SESSION_LEN + hdr_cnt /\ hdr_cnt < SEQ_LEN /\ hdr_cnt \in Nat
      BY <1>2, <2>2 DEF InSeq, Stands
    <3> QED
      BY <3>1, Sizes
  <2>3. CASE InCount(p, n)
    <3>1. n = SESSION_LEN + SEQ_LEN + hdr_cnt /\ hdr_cnt < 2 /\ hdr_cnt \in Nat
          /\ hdr_cnt # 1
      BY <1>2, <1>3, <2>3, Sizes DEF InCount, Stands, SessionByte, SeqByte, CountByte, Ends
    <3> QED
      BY <3>1, Sizes
  <2> QED
    BY <1>2, <2>1, <2>2, <2>3 DEF Stands, InLength, InBody
<1>6. Remaining = << >> /\ Remaining' = << >>
  <2>1. Remaining = Left(p, n) /\ Remaining' = Left(p, n + 1)
    BY <1>1, RemainingReceives
  <2>2. n < HeaderLen /\ n + 1 # HeaderLen
    BY <1>2, <1>5, Sizes
  <2> QED
    BY <1>2, <2>1, <2>2, LeftOfHeader
<1> QED
  BY <1>4, <1>6 DEF Stream!Wait

\* Facts about the message that the framer is in.
LEMMA InMessage ==
  ASSUME NEW p \in Sound, NEW n \in Nat, InLength(p, n) \/ InBody(p, n), hdr_cnt \in Nat
  PROVE  /\ Current(p) \in 1 .. Len(p.lens) /\ p.lens[Current(p)] \in Nat
         /\ HeaderLen <= Off(p, Current(p) - 1) /\ Off(p, Current(p) - 1) <= n
         /\ n < Off(p, Current(p)) /\ n >= HeaderLen
         /\ n + 1 = Off(p, Current(p)) <=>
              IF state = "ST_MSG_LEN" THEN hdr_cnt = 1 /\ p.lens[Current(p)] = 0
              ELSE body_cnt = msg_len_reg - 1
         /\ state = "ST_MSG_BODY" => msg_len_reg = p.lens[Current(p)] /\ body_cnt \in Nat
<1>1. PICK i, off, len : i = Current(p) /\ off = Off(p, i - 1) /\ len = p.lens[i]
  OBVIOUS
<1>2. count_reg \in 1 .. Len(p.lens)
  BY DEF InLength, InBody
<1>3. /\ i \in 1 .. Len(p.lens) /\ len \in Nat /\ off \in Nat /\ off >= HeaderLen
      /\ Off(p, i) = off + 2 + len
  BY <1>1, <1>2, CurrentIs
<1>4. CASE InLength(p, n)
  <2>1. n = off + hdr_cnt /\ hdr_cnt < 2 /\ state = "ST_MSG_LEN"
    BY <1>1, <1>4 DEF InLength
  <2>2. off <= n /\ n < Off(p, i) /\ n >= HeaderLen
        /\ (n + 1 = Off(p, i) <=> hdr_cnt = 1 /\ len = 0)
    BY <1>3, <2>1, Sizes
  <2> QED
    BY <1>1, <1>3, <2>1, <2>2
<1>5. CASE InBody(p, n)
  <2>1. /\ n = off + 2 + body_cnt /\ body_cnt \in Nat /\ body_cnt < len /\ msg_len_reg = len
        /\ state = "ST_MSG_BODY"
    BY <1>1, <1>5 DEF InBody
  <2>2. off <= n /\ n < Off(p, i) /\ n >= HeaderLen
        /\ (n + 1 = Off(p, i) <=> body_cnt = len - 1)
    BY <1>3, <2>1, Sizes
  <2> QED
    BY <1>1, <1>3, <2>1, <2>2
<1> QED
  BY <1>4, <1>5

\* The length is complete with its second byte.
LEMMA FullLength ==
  ASSUME NEW p \in Sound, NEW n \in Nat, hdr_cnt = 1, InLength(p, n)
  PROVE  Shift(msg_len_reg, PacketBytes(p)[n + 1], LEN_LEN) = p.lens[Current(p)]
<1>1. PICK i, len, off : i = Current(p) /\ len = p.lens[i] /\ off = Off(p, i - 1)
  OBVIOUS
<1>2. count_reg \in 1 .. Len(p.lens) /\ n = off + 1 /\ msg_len_reg = Taken(len, 2, 1)
  BY <1>1 DEF InLength
<1>3. len \in Nat /\ len < Power[2] /\ off \in Nat
      /\ \A j \in 1 .. 2 : PacketBytes(p)[off + j] = Digits(len, 2)[j]
  BY <1>1, <1>2, CurrentIs
<1>4. PacketBytes(p)[n + 1] = Digits(len, 2)[1 + 1]
  <2>1. n + 1 = off + 2 /\ 1 + 1 = 2
    BY <1>2, <1>3
  <2> QED
    BY <1>3, <2>1
<1>5. Shift(Taken(len, 2, 1), Digits(len, 2)[1 + 1], 2) = Taken(len, 2, 1 + 1)
  BY <1>3, DigitShifts
<1>6. Taken(len, 2, 2) = len /\ 1 + 1 = 2
  BY <1>3, TakenEnds
<1> QED
  BY <1>1, <1>2, <1>4, <1>5, <1>6, Sizes

\* A byte of a message: the last one hands the message on, or skips it when it
\* has none; every other hands nothing on.
LEMMA StreamMessages ==
  ASSUME PacketsInv, Place, RunInv, RunInv', ReceiveByte,
         state \notin {"ST_SESSION", "ST_SEQ", "ST_COUNT"}
  PROVE  Stream!Deliver \/ Stream!Skip \/ Stream!Wait
<1>1. PICK p, n, b, i : /\ p = Head(net) /\ n = sent /\ b = PacketBytes(p)[n + 1]
                        /\ i = Current(p)
  OBVIOUS
<1>2. /\ p \in Sound /\ n \in Nat /\ Stands(p, n) /\ FramerByte(b)
  BY <1>1, Receiving
<1>3. hdr_cnt \in Nat /\ (InLength(p, n) \/ InBody(p, n))
  BY <1>2 DEF Stands, InSession, InSeq, InCount
<1>4. PICK len : len = p.lens[i]
  OBVIOUS
<1>5. /\ i \in 1 .. Len(p.lens) /\ len \in Nat
      /\ HeaderLen <= Off(p, i - 1) /\ Off(p, i - 1) <= n /\ n < Off(p, i)
      /\ n + 1 = Off(p, i) <=> IF state = "ST_MSG_LEN" THEN hdr_cnt = 1 /\ len = 0
                               ELSE body_cnt = msg_len_reg - 1
      /\ state = "ST_MSG_BODY" => msg_len_reg = len /\ body_cnt \in Nat
  BY <1>1, <1>2, <1>3, <1>4, InMessage
<1>6. /\ Remaining # << >> /\ Head(Remaining) = len
      /\ Remaining' = IF n + 1 = Off(p, i) THEN Tail(Remaining) ELSE Remaining
  <2>1. Remaining = Left(p, n) /\ Remaining' = Left(p, n + 1)
    BY <1>1, RemainingReceives
  <2> QED
    BY <1>2, <1>4, <1>5, <2>1, LeftOfMessage
<1>7. LengthByte(b) \/ ZeroLength(b) \/ LengthDone(b) \/ BodyByte(b) \/ BodyDone(b)
  BY <1>2 DEF FramerByte, SessionByte, SeqByte, CountByte, HeaderDone
<1>8. UNCHANGED <<expected_seq, first_pkt, gap_count, end_of_session>>
  BY <1>7 DEF LengthByte, ZeroLength, LengthDone, BodyByte, BodyDone, header
<1>9. CASE LengthByte(b)
  <2>1. state = "ST_MSG_LEN" /\ hdr_cnt # 1 /\ out_last' = FALSE
        /\ malformed_count' = malformed_count
    BY <1>9, Sizes DEF LengthByte, Ends, NoOutput
  <2> QED
    BY <1>5, <1>6, <1>8, <2>1 DEF Stream!Wait
<1>10. CASE ZeroLength(b) \/ LengthDone(b)
  <2>1. state = "ST_MSG_LEN" /\ hdr_cnt = 1 /\ out_last' = FALSE
    BY <1>10, Sizes DEF ZeroLength, LengthDone, Ends, NoOutput
  <2>2. Shift(msg_len_reg, b, LEN_LEN) = len
    BY <1>1, <1>2, <1>3, <1>4, <2>1, FullLength DEF InBody
  <2>3. CASE len = 0
    <3>1. malformed_count' = Inc(malformed_count)
      BY <1>10, <2>2, <2>3 DEF ZeroLength, LengthDone
    <3>2. Remaining' = Tail(Remaining)
      BY <1>5, <1>6, <2>1, <2>3
    <3> QED
      BY <1>6, <1>8, <2>1, <2>3, <3>1, <3>2 DEF Stream!Skip, Inc
  <2>4. CASE len # 0
    <3>1. malformed_count' = malformed_count
      BY <1>10, <2>2, <2>4 DEF ZeroLength, LengthDone
    <3>2. Remaining' = Remaining
      BY <1>5, <1>6, <2>1, <2>4
    <3> QED
      BY <1>8, <2>1, <3>1, <3>2 DEF Stream!Wait
  <2> QED
    BY <2>3, <2>4
<1>11. CASE BodyByte(b)
  <2>1. state = "ST_MSG_BODY" /\ body_cnt # msg_len_reg - 1 /\ out_last' = FALSE
        /\ malformed_count' = malformed_count
    BY <1>11 DEF BodyByte
  <2> QED
    BY <1>5, <1>6, <1>8, <2>1 DEF Stream!Wait
<1>12. CASE BodyDone(b)
  <2>1. /\ state = "ST_MSG_BODY" /\ body_cnt = msg_len_reg - 1
        /\ out_valid' = TRUE /\ out_last' = TRUE /\ malformed_count' = malformed_count
    BY <1>12 DEF BodyDone
  <2>2. run' = body_cnt + 1
    <3>1. run' = (IF out_last THEN 0 ELSE run) + (IF out_valid' THEN 1 ELSE 0)
      BY DEF ReceiveByte
    <3>2. (IF out_last THEN 0 ELSE run) = body_cnt
      BY <2>1 DEF RunInv
    <3> QED
      BY <2>1, <3>1, <3>2
  <2>3. run' = len /\ len > 0
    BY <1>5, <2>1, <2>2
  <2>4. Remaining' = Tail(Remaining)
    BY <1>5, <1>6, <2>1
  <2> QED
    BY <1>6, <1>8, <2>1, <2>3, <2>4 DEF Stream!Deliver
<1> QED
  BY <1>7, <1>9, <1>10, <1>11, <1>12

\* Steps of the writer and the network are not steps of the stream.
LEMMA StreamStays ==
  ASSUME PacketsInv, Place, Held
  PROVE  UNCHANGED Stream!vars
<1>1. UNCHANGED <<framerVars, sent, run>>
  BY DEF Held
<1>2. UNCHANGED <<first_pkt, expected_seq, out_last, run, gap_count, malformed_count,
                  end_of_session>>
  BY <1>1 DEF framerVars, header
<1>3. HeaderLen = SESSION_LEN + SEQ_LEN + COUNT_LEN /\ HeaderLen \in Nat /\ 0 < HeaderLen
  BY Sizes
<1>4. Remaining' = Remaining
  <2>1. CASE sent < HeaderLen
    BY <1>1, <1>3, <2>1 DEF Remaining
  <2>2. CASE ~(sent < HeaderLen)
    <3>1. sent # 0
      BY <1>3, <2>2
    <3>2. net # << >> /\ net' # << >> /\ Head(net') = Head(net) /\ sent' = sent
      BY <1>1, <3>1 DEF Place, Held
    <3> QED
      BY <3>2 DEF Remaining
  <2> QED
    BY <2>1, <2>2
<1> QED
  BY <1>2, <1>4 DEF Stream!vars

\* Byte by byte the framer implements the stream: every step of the link is one
\* step of MoldStream, or leaves all that MoldStream speaks of as it was.
THEOREM FramerIsStream == Spec => ImplementsStream
<1>1. Init => Stream!Init
  <2>1. SUFFICES ASSUME Init PROVE Stream!Init
    OBVIOUS
  <2>2. net = << >> /\ FramerInit
    BY <2>1 DEF Init
  <2>3. Remaining = << >>
    BY <2>2 DEF Remaining
  <2> QED
    BY <2>2, <2>3 DEF Stream!Init, FramerInit
<1>2. LinkInv /\ LinkInv' /\ [Next]_linkVars => [Stream!Next]_(Stream!vars)
  <2>1. SUFFICES ASSUME LinkInv, LinkInv', [Next]_linkVars
                 PROVE  Stream!Next \/ UNCHANGED Stream!vars
    OBVIOUS
  <2>2. PacketsInv /\ Place /\ RunInv /\ GapInv /\ DueInv /\ RunInv'
    BY <2>1 DEF LinkInv
  <2>3. CASE Upstream
    <3>1. Held
      BY <2>2, <2>3, AddStep, CloseStep, HeartbeatStep DEF Upstream
    <3> QED
      BY <2>2, <3>1, StreamStays
  <2>4. CASE Lose \/ Repeat \/ Swap
    <3>1. Held
      BY <2>2, <2>4, FaultStep
    <3> QED
      BY <2>2, <3>1, StreamStays
  <2>5. CASE ReceiveByte
    <3>1. CASE HeaderDone(PacketBytes(Head(net))[sent + 1])
      BY <2>2, <2>5, <3>1, StreamHeader DEF Stream!Next
    <3>2. CASE /\ state \in {"ST_SESSION", "ST_SEQ", "ST_COUNT"}
               /\ ~HeaderDone(PacketBytes(Head(net))[sent + 1])
      BY <2>2, <2>5, <3>2, StreamWaits DEF Stream!Next
    <3>3. CASE state \notin {"ST_SESSION", "ST_SEQ", "ST_COUNT"}
      BY <2>2, <2>5, <3>3, StreamMessages DEF Stream!Next
    <3> QED
      BY <3>1, <3>2, <3>3
  <2>6. CASE NoByte
    <3>1. /\ out_last' = FALSE
          /\ UNCHANGED <<header, malformed_count, net, sent>>
      BY <2>6 DEF NoByte, FramerIdle, NoOutput
    <3>2. Remaining' = Remaining
      BY <3>1 DEF Remaining
    <3>3. Stream!Wait
      BY <3>1, <3>2 DEF Stream!Wait, header
    <3> QED
      BY <3>3 DEF Stream!Next
  <2>7. CASE ResetLink
    <3>1. net' = << >> /\ FramerReset
      BY <2>7 DEF ResetLink
    <3>2. Remaining' = << >>
      BY <3>1 DEF Remaining
    <3>3. Stream!Restart
      BY <3>1, <3>2 DEF Stream!Restart, FramerReset, NoOutput
    <3> QED
      BY <3>3 DEF Stream!Next
  <2>8. CASE UNCHANGED linkVars
    <3>1. Held
      BY <2>8 DEF Held, linkVars
    <3> QED
      BY <2>2, <3>1, StreamStays
  <2> QED
    BY <2>1, <2>3, <2>4, <2>5, <2>6, <2>7, <2>8 DEF Next, Upstream
<1> QED
  BY <1>1, <1>2, LinkInvariant, PTL DEF Spec, ImplementsStream, Stream!Spec
=============================================================================
