----------------------------- MODULE MoldPacket -----------------------------
(***************************************************************************)
(* The packets of model/moldwrap.py and their bytes.  A message is its     *)
(* length; what its bytes hold plays no part in the framing.               *)
(***************************************************************************)
EXTENDS MoldFramer, Sequences, SequencesExt

PackPacket(first, messages) ==
  [seq |-> first, count |-> Len(messages), lens |-> messages]

EndOfSessionPacket(first) == [seq |-> first, count |-> EndCount, lens |-> << >>]

Digits(v, len) == [i \in 1 .. len |-> (v \div Power[len - i]) % ByteMod]

Record(len) == Digits(len, LEN_LEN) \o [i \in 1 .. len |-> i % ByteMod]

PacketHeader(p) == [i \in 1 .. SESSION_LEN |-> 0] \o Digits(p.seq, SEQ_LEN)
                   \o Digits(p.count, COUNT_LEN)

PacketBytes(p) == PacketHeader(p) \o FlattenSeq([i \in DOMAIN p.lens |-> Record(p.lens[i])])

\* Messages of the packet that have ended by byte n.
EndedBy(p, n) ==
  Cardinality({i \in DOMAIN p.lens :
    Len(PacketHeader(p)) + Len(FlattenSeq([j \in 1 .. i |-> Record(p.lens[j])])) <= n})
=============================================================================
