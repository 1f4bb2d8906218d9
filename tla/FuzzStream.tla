----------------------------- MODULE FuzzStream -----------------------------
(***************************************************************************)
(* model/fuzz_stream.py, the framer that takes the stream it builds, and   *)
(* the accounting of replay_main.cpp --fuzz.  A stream is some packets of  *)
(* damaged messages and then a clean session.                              *)
(*                                                                         *)
(* A message is its length and its effect, the number of book updates it   *)
(* causes; all lengths of messages that reach the order table are one      *)
(* length, ORDER_LEN.  The book half of the design is external here: it    *)
(* shows an update MinLatency to MaxLatency cycles after the boundary of   *)
(* its message (ItchBookTop, ReplayHarness), always after some boundary.   *)
(* Its counters are left out: they can only add to progress and to the     *)
(* sum of the error counters, and make a run pass that would fail here.    *)
(*                                                                         *)
(* messages, kept, pending_tail and tail_updates are history variables.    *)
(***************************************************************************)
EXTENDS MoldPacket

CONSTANTS
  ORDER_LEN, SYSTEM_LEN,
  Effect,                   \* of a message that reaches the table
  MAX_BOGUS_LEN,
  MinLatency, MaxLatency,
  msgs_per_packet, watchdog_limit,
  MaxDirty, MaxTail         \* bounds on n_dirty_target and n_tail_messages

ASSUME FuzzAssumption ==
  /\ ORDER_LEN \in Word \ {0} /\ SYSTEM_LEN \in Word \ {0, ORDER_LEN}
  /\ MAX_BOGUS_LEN \in Word
  /\ Effect \subseteq Nat
  /\ MinLatency \in Nat \ {0} /\ MaxLatency \in MinLatency .. ORDER_LEN + 1
  /\ MaxLatency <= SESSION_LEN + SEQ_LEN + COUNT_LEN
  /\ msgs_per_packet \in 1 .. EndCount - 1 /\ watchdog_limit \in Nat
  /\ MaxDirty \in Nat /\ MaxTail \in Nat
  /\ MaxDirty + 1 < SeqWrap /\ MaxTail + 1 < SeqWrap
  /\ MaxDirty + 1 < CountMod           \* the error counters do not wrap

\* The watchdog allows for a header, a length prefix and the longest message
\* (replay_main.cpp's default is 10000 cycles, these are 72 bytes).
ASSUME WatchdogAssumption ==
  \A len \in {ORDER_LEN, SYSTEM_LEN} \cup 0 .. MAX_BOGUS_LEN :
    SESSION_LEN + SEQ_LEN + COUNT_LEN + LEN_LEN + len <= watchdog_limit + 1

VARIABLES
  messages, kept,           \* all messages of the stream; how many are damaged ones
  net, sent,                \* the packets still to come; bytes taken of the first
  taken,                    \* messages of which all bytes were taken
  consumed, tail_start,     \* ByteFeed::consumed; --tail-start
  pending, age,             \* updates on their way; cycles since their boundary
  pending_tail,             \* they are of a message of the tail
  msgs_seen, updates_before_tail, updates_after_tail, tail_updates,
  idle, hang_detected,      \* cycle - last_progress_cycle
  phase

script    == <<messages, kept, tail_start>>
fuzzVars  == <<framerVars, script, net, sent, taken, consumed, pending, age, pending_tail,
               msgs_seen, updates_before_tail, updates_after_tail, tail_updates,
               idle, hang_detected, phase>>

-----------------------------------------------------------------------------
(* build_fuzz_stream.                                                       *)

\* generate_messages: orders, and system messages now and then.
Generated == [len : {ORDER_LEN}, effect : Effect] \cup [len : {SYSTEM_LEN}, effect : {0}]

\* _corrupt_message: other bytes, or cut or filled up to a bogus length.  The
\* decoder takes nothing whose length is not that of its type.
Corrupt(m) ==
  {c \in [len : {m.len} \cup 0 .. MAX_BOGUS_LEN, effect : Effect \cup {0}] :
     c.len # ORDER_LEN => c.effect = 0}

Dirty == UNION {Corrupt(m) : m \in Generated}

Lens(ms) == [i \in DOMAIN ms |-> ms[i].len]

Chunks(n) == (n + msgs_per_packet - 1) \div msgs_per_packet

\* Of n messages, those in the first k packets.
PackedBy(k, n) == IF k * msgs_per_packet < n THEN k * msgs_per_packet ELSE n

\* pack_packets, and the packets MoldWriter makes of the same messages.
PackPackets(ms, start_seq) ==
  [k \in 1 .. Chunks(Len(ms)) |->
     LET done == (k - 1) * msgs_per_packet
     IN  PackPacket(start_seq + done, Lens(SubSeq(ms, done + 1, PackedBy(k, Len(ms)))))]

\* The whole packets that the truncation may leave: at least one, and not all.
Keep(n_packets) ==
  IF n_packets > 1
  THEN (IF n_packets \div 2 > 1 THEN n_packets \div 2 ELSE 1) .. n_packets - 1
  ELSE {n_packets}

\* The tail is a session of its own.
TailSeqGoesOn(left) == left + 1                      \* mutant: numbered after the rest
TailSeq(left) == 1

ByteCount(packets) == Len(FlattenSeq([k \in DOMAIN packets |-> PacketBytes(packets[k])]))

Build ==
  /\ phase = "build"
  /\ \E n_dirty \in 0 .. MaxDirty, n_tail \in 0 .. MaxTail :
     \E corrupted \in [1 .. n_dirty -> Dirty], tail \in [1 .. n_tail -> Generated],
        keep \in Keep(Chunks(n_dirty)) :
       LET dirty_buf == SubSeq(PackPackets(corrupted, 1), 1, keep)
           left == PackedBy(keep, n_dirty)
       IN  /\ messages' = SubSeq(corrupted, 1, left) \o tail
           /\ kept' = left
           /\ net' = dirty_buf \o PackPackets(tail, TailSeq(left))
                     \o <<EndOfSessionPacket(TailSeq(left) + n_tail)>>
           /\ tail_start' = ByteCount(dirty_buf)
  /\ phase' = "feed"
  /\ UNCHANGED <<framerVars, sent, taken, consumed, pending, age, pending_tail, msgs_seen,
                 updates_before_tail, updates_after_tail, tail_updates, idle, hang_detected>>

-----------------------------------------------------------------------------
(* The harness: one byte per cycle.                                        *)

\* The books show an update, or have time left to show what is under way.
Books(shown) ==
  LET left == pending - shown
      due  == IF out_last' THEN messages[taken'].effect ELSE 0
  IN  /\ shown <= pending /\ (shown = 1 => age + 1 >= MinLatency)
      /\ left > 0 => age + 1 + left <= MaxLatency
      /\ pending' = left + due
      /\ age' = IF due > 0 \/ left = 0 THEN 0 ELSE age + 1
      /\ pending_tail' = IF due > 0 THEN taken' > kept ELSE left > 0 /\ pending_tail

\* An update is counted by the bytes that the feed had handed out by then.
AfterTail == consumed' > tail_start

CountUpdates(shown) ==
  /\ updates_after_tail' = updates_after_tail + IF AfterTail THEN shown ELSE 0
  /\ updates_before_tail' = updates_before_tail + IF AfterTail THEN 0 ELSE shown
  /\ tail_updates' = tail_updates + IF pending_tail THEN shown ELSE 0

ProgressedByBoundary(shown) == out_last' \/ shown = 1
                                                     \* mutant: counters do not count
Progressed(shown) ==
  \/ out_last' \/ shown = 1
  \/ gap_count' # gap_count \/ malformed_count' # malformed_count
  \/ end_of_session' /\ ~end_of_session

\* One cycle of the feed: the byte, then sample() and the watchdog.
FeedByte ==
  /\ phase = "feed" /\ net # << >> /\ ~hang_detected
  /\ LET p    == Head(net)
         next == sent + 1
         done == next = Len(PacketBytes(p))
     IN  /\ FramerByte(PacketBytes(p)[next])
         /\ net' = IF done THEN Tail(net) ELSE net
         /\ sent' = IF done THEN 0 ELSE next
         /\ taken' = taken + EndedBy(p, next) - EndedBy(p, sent)
  /\ consumed' = consumed + 1
  /\ msgs_seen' = msgs_seen + IF out_last' THEN 1 ELSE 0
  /\ \E shown \in {0, 1} :
       /\ Books(shown) /\ CountUpdates(shown)
       /\ idle' = IF Progressed(shown) THEN 0 ELSE idle + 1
  /\ hang_detected' = (idle' > watchdog_limit)
  /\ UNCHANGED <<script, phase>>

\* The end of the loop.  No update is under way then, since the end of session
\* is as long as the slowest one takes, so the drain shows nothing.
Report ==
  /\ phase = "feed" /\ (net = << >> \/ hang_detected)
  /\ phase' = "done"
  /\ UNCHANGED <<framerVars, script, net, sent, taken, consumed, pending, age, pending_tail,
                 msgs_seen, updates_before_tail, updates_after_tail, tail_updates,
                 idle, hang_detected>>

Init ==
  /\ FramerInit
  /\ messages = << >> /\ kept = 0 /\ tail_start = 0
  /\ net = << >> /\ sent = 0 /\ taken = 0 /\ consumed = 0
  /\ pending = 0 /\ age = 0 /\ pending_tail = FALSE
  /\ msgs_seen = 0 /\ updates_before_tail = 0 /\ updates_after_tail = 0
  /\ tail_updates = 0
  /\ idle = 0 /\ hang_detected = FALSE /\ phase = "build"

Next == Build \/ FeedByte \/ Report

Spec == Init /\ [][Next]_fuzzVars

Passes == ~hang_detected /\ gap_count + malformed_count > 0 /\ updates_after_tail > 0

-----------------------------------------------------------------------------
OfLength(zero) == {i \in 1 .. taken : (messages[i].len = 0) = zero}

\* However the messages are damaged, the framer never loses its place: it waits
\* for a session field at the byte the tail begins with, and every message,
\* damaged or not, is framed or, with no bytes, counted as malformed ("the same
\* state it is in at the very start of any run", fuzz_stream.py lines 22-37).
InStepAtTail ==
  /\ phase = "feed" /\ consumed = tail_start => state = "ST_SESSION" /\ hdr_cnt = 0
  /\ msgs_seen = Cardinality(OfLength(FALSE))
  /\ malformed_count = Cardinality(OfLength(TRUE))

\* The tail's first sequence number is the one gap, and it is always noticed,
\* wherever the damaged session was cut.
GapAtTail ==
  gap_count = IF kept > 0 /\ consumed >= tail_start + SESSION_LEN + SEQ_LEN + COUNT_LEN
              THEN 1 ELSE 0

\* The updates that some messages cause.
SumOf(ms) ==
  LET sum[n \in 0 .. Len(ms)] == IF n = 0 THEN 0 ELSE sum[n - 1] + ms[n].effect
  IN  sum[Len(ms)]

\* The last message before the tail that could reach the table, 0 if there is none.
LastDirty == Max({0} \cup {i \in 1 .. kept : messages[i].len = ORDER_LEN})

\* No stream trips a watchdog that allows for a header and the longest message;
\* every update of the tail is seen and counted as one; and a run that passes
\* had an update of the tail or one of the last damaged message that reached
\* the table, which the byte count cannot tell from it (replay_main.cpp 206-208,
\* 337-340).  No update of an earlier message passes for one of the tail.
PassIsDeserved ==
  phase = "done" =>
    /\ ~hang_detected
    /\ tail_updates = SumOf(SubSeq(messages, kept + 1, Len(messages)))
    /\ updates_before_tail + updates_after_tail = SumOf(messages)
    /\ updates_after_tail <=
         tail_updates + IF LastDirty = 0 THEN 0 ELSE messages[LastDirty].effect
    /\ kept > 0 /\ tail_updates > 0 => Passes
=============================================================================
