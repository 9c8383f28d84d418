------------------------------ MODULE TxFlight ------------------------------
(***************************************************************************)
(* The sender's account of the packets in flight (ScreamV2Tx and its one   *)
(* Stream): the table txPackets, bytesInFlight, the window test and the    *)
(* retransmission timeout of isOkToTransmit, addTransmitted, markAcked and *)
(* detectLoss, driven by TestSession's two threads.                        *)
(*                                                                         *)
(* pump() releases the mutex between handing a packet to the network and   *)
(* registering it, so feedback can be processed in between.  The network   *)
(* loses, delays and reorders packets and feedback and duplicates          *)
(* feedback.  A packet is known by its place n in the stream of packets    *)
(* (never wrapped); the code sees the 16 bit sequence number SeqNr(n).       *)
(*                                                                         *)
(* A tick of the clock is half a second, and RTP timestamps are in the     *)
(* same unit.  A session is shorter than 4.9 hours: 2^32 / 90000 seconds   *)
(* of timestamps, the code's "huge" spacing below, added to a longer time  *)
(* would wrap its 32 bit sum.                                              *)
(***************************************************************************)
EXTENDS Integers, Sequences, SequencesExt, FiniteSetsExt

CONSTANTS
  SeqNrs,          \* number of RTP sequence numbers (65536)
  kMaxTxPackets,   \* slots of the table (4096)
  AckWindow,       \* detectLoss inspects this far behind the last ack (512)
  Reported,        \* packets covered by one report (32)
  OooDiff,         \* feedback further ahead than this is behind (65000)
  OooSlack,        \* out of order feedback accepted this far behind (512)
  WrapGap,         \* sequence numbers further apart have wrapped (20000)
  ReorderTime,     \* reorderTime_ntp
  Rto,             \* silence after which the window is reopened (0.5 s)
  TsJump,          \* timestamps this far apart are not taken for progress
  MaxWindow,       \* largest value of cwnd * windowHeadroom + mss
  Starts,          \* packets sent and acknowledged before the behaviour starts
  MaxTx,           \* bound: packets sent
  MaxTime,         \* bound: ticks of the clock
  MaxGap,          \* bound: packets missing in the queue between two sent
  MaxAhead,        \* bound: a packet is so far after the last one reported
  MaxBack          \* bound: a report ends so far before an earlier one

ASSUME SlotsAssumption == kMaxTxPackets \in Nat \ {0}
                          /\ SeqNrs \in Nat \ {0} /\ SeqNrs % kMaxTxPackets = 0
ASSUME WindowAssumption == AckWindow \in Nat /\ Reported \in Nat \ {0}
                           /\ ReorderTime \in Nat
ASSUME NetworkAssumption == Starts \subseteq Nat /\ MaxGap \in Nat
                            /\ MaxAhead \in Nat /\ MaxBack \in Nat

(* The packets that reports may still be about fit in the table, beside the *)
(* window detectLoss inspects and what it strips; and their order is told   *)
(* from a wrap.                                                             *)
ASSUME SpanAssumption ==
  /\ MaxAhead + MaxBack + 2 * Reported + AckWindow <= kMaxTxPackets
  /\ MaxAhead + MaxBack + Reported <= WrapGap
  /\ WrapGap \in Nat /\ MaxAhead + MaxBack + Reported + WrapGap < SeqNrs

VARIABLES
  txPackets,          \* the packets in the table, at most one in a slot
  bytesInFlight,
  hiSeqAck,           \* sequence number detectLoss was last called with
  timeTxAck,          \* transmission time of the last packet newly acked
  timeStampAckHigh,   \* "highest ACKed timestamp"
  lastTransmitT,
  now,                \* the clock
  sending,            \* the packet pump() has sent and not yet registered
  last,               \* the last packet taken from the RTP queue
  sent,               \* packets handed to the network
  arrivals,           \* packets received by the receiver, in that order
  history             \* what was acked, lost and reported (history variable)

txVars == <<txPackets, bytesInFlight, hiSeqAck, timeTxAck, timeStampAckHigh>>
vars == <<txPackets, bytesInFlight, hiSeqAck, timeTxAck, timeStampAckHigh,
          lastTransmitT, now, sending, last, sent, arrivals,
          history>>

SeqNr(n) == n % SeqNrs
SlotOf(n) == SeqNr(n) % kMaxTxPackets

(* The last packet of a frame carries the marker and is the shorter one. *)
SizeOf(mark) == IF mark THEN 1 ELSE 2

Bytes(packets) == MapThenSumSet(LAMBDA p : p.size, packets)

Init ==
  \E start \in Starts :
    /\ txPackets = {}
    /\ bytesInFlight = 0
    /\ hiSeqAck = IF start = 0 THEN 0 ELSE SeqNr(start - 1)
    /\ timeTxAck = IF start = 0 THEN 0 ELSE 1
    /\ timeStampAckHigh = 0
    /\ lastTransmitT = 1
    /\ now = 1
    /\ sending = <<>>
    /\ last = [n |-> start - 1, ts |-> 0, mark |-> TRUE]
    /\ sent = {}
    /\ arrivals = <<>>
    /\ history = [acked |-> {}, lost |-> {}, edge |-> start - 1,
                  live |-> {}]

-----------------------------------------------------------------------------
(* pump(), first critical section, and sendto. *)

(* isOkToTransmit: the window is too small for the next packet.  cwnd       *)
(* itself is not modelled: it may be any value that makes the window at     *)
(* most MaxWindow, and pacing may delay a packet the window allows.         *)
WindowFull(size) == bytesInFlight + size > MaxWindow

(* Mutant: the timeout only while nothing is in flight. *)
MutTimedOut == bytesInFlight = 0 /\ now - lastTransmitT > Rto

(* isOkToTransmit: nothing was transmitted for Rto. *)
TimedOut == now - lastTransmitT > Rto

(* The packets that may be at the head of the RTP queue.  Packets the queue *)
(* discarded or refused leave a gap; the packets of a frame share the time  *)
(* the frame was made as their timestamp, and the last one has the marker.  *)
NextPackets ==
  {p \in [n : last.n + 1 .. last.n + 1 + MaxGap, ts : {now, last.ts},
          mark : BOOLEAN, size : {SizeOf(TRUE), SizeOf(FALSE)}] :
     /\ p.size = SizeOf(p.mark)
     /\ last.mark => p.ts = now
     /\ ~last.mark /\ p.n = last.n + 1 => p.ts = last.ts}

Send(p, timeout) ==
  /\ sending' = <<p>>
  /\ last' = [n |-> p.n, ts |-> p.ts, mark |-> p.mark]
  /\ sent' = sent \cup {p.n}
  /\ IF timeout
       THEN /\ txPackets' = {}
            /\ bytesInFlight' = 0
            /\ history' = [history EXCEPT !.live = {}]
       ELSE UNCHANGED <<txPackets, bytesInFlight, history>>
  /\ UNCHANGED <<hiSeqAck, timeTxAck, timeStampAckHigh, lastTransmitT,
                 now, arrivals>>

(* No outage of the feedback is longer than MaxAhead packets. *)
Queued(p) == /\ sending = <<>>
             /\ Cardinality(sent) < MaxTx
             /\ p.n - history.edge <= MaxAhead

Transmit(p) == Queued(p) /\ ~TimedOut /\ ~WindowFull(p.size) /\ Send(p, FALSE)

(* The timeout forgets every packet in flight and reopens the window. *)
TransmitAfterTimeout(p) == Queued(p) /\ TimedOut /\ Send(p, TRUE)

(* pump(), second critical section: addTransmitted. *)
AddTransmitted ==
  /\ sending # <<>>
  /\ LET p == sending[1]
     IN  /\ txPackets' = {q \in txPackets : SlotOf(q.n) # SlotOf(p.n)}
               \cup {[n |-> p.n, size |-> p.size, ts |-> p.ts, mark |-> p.mark,
                      timeTx |-> now, acked |-> FALSE, afterEdge |-> FALSE]}
         /\ bytesInFlight' = bytesInFlight + p.size
         /\ history' = [history EXCEPT !.live = @ \cup {p.n}]
  /\ lastTransmitT' = now
  /\ sending' = <<>>
  /\ UNCHANGED <<hiSeqAck, timeTxAck, timeStampAckHigh, now, last,
                 sent, arrivals>>

-----------------------------------------------------------------------------
(* Feedback, processed in one critical section.  st is the state the        *)
(* functions below read and write.                                          *)

(* markAcked: st after an ack of sequence number sn. *)
NewlyAcked(st, sn) == {p \in st.tx : SeqNr(p.n) = sn /\ ~p.acked}

AckOf(st, p) ==
  LET advances == p.ts >= st.tsHigh /\ p.ts - st.tsHigh < TsJump
  IN  [st EXCEPT !.tx = (@ \ {p}) \cup {[p EXCEPT !.acked = TRUE]},
                 !.tsHigh = IF advances THEN p.ts ELSE @,
                 !.timeTxAck = p.timeTx,
                 !.log.acked = @ \cup {p.n}]

MarkAcked(st, sn) ==
  IF NewlyAcked(st, sn) = {} THEN st
                             ELSE AckOf(st, CHOOSE p \in NewlyAcked(st, sn) : TRUE)

(* Mutant: without the safety net. *)
MutNotAfter(seq, hi) == seq <= hi

(* Mutant: hi itself is after hi. *)
MutNotAfterStrict(seq, hi) == IF seq < hi THEN hi - seq <= WrapGap
                                          ELSE seq - hi > WrapGap

(* The safety net around 65536: seq is not after hi. *)
NotAfter(seq, hi) == IF seq < hi THEN hi - seq <= WrapGap
                                 ELSE seq = hi \/ seq - hi > WrapGap

(* Mutant: acked packets too. *)
MutIsLate(st, p) ==
  /\ st.tsHigh >= p.ts
  /\ p.timeTx + ReorderTime + (st.tsHigh - p.ts) < st.timeTxAck

(* Sent so long before the last acked packet, given the spacing of their    *)
(* frames, that it must be lost.  The spacing is unsigned: with a frame     *)
(* after timeStampAckHigh it is a huge number.                              *)
IsLate(st, p) ==
  /\ ~p.acked
  /\ st.tsHigh >= p.ts
  /\ p.timeTx + ReorderTime + (st.tsHigh - p.ts) < st.timeTxAck

(* Mutant: a packet is taken out of bytesInFlight by every report. *)
MutDetectLossTwice(st, hi) ==
  LET ix0      == st.hi - AckWindow
      stripped == {p \in st.tx : (ix0 - SeqNr(p.n)) % kMaxTxPackets
                                  \in 1 .. Min({Reported, (hi - st.hi) % SeqNrs})}
      seen     == {p \in st.tx \ stripped :
                     (SeqNr(p.n) - ix0) % kMaxTxPackets
                       <= (hi - ix0) % kMaxTxPackets}
      passed   == {p \in seen : NotAfter(SeqNr(p.n), hi)}
      late     == {p \in seen : IsLate(st, p)}
      left     == {p \in st.tx \ (stripped \cup late) : ~(p \in seen /\ p.acked)}
      lost     == late \cup {p \in stripped : ~p.acked}
  IN  [st EXCEPT
         !.tx = (left \ passed)
                  \cup {[p EXCEPT !.afterEdge = TRUE] : p \in left \cap passed},
         !.bif = Max({0, @ - Bytes(passed)}),
         !.hi = hi,
         !.log.lost = @ \cup {p.n : p \in lost}]

(* Mutant: hiSeqAck keeps counting past 65535. *)
MutDetectLossNoWrap(st, hi) ==
  LET ix0      == st.hi - AckWindow
      stripped == {p \in st.tx : (ix0 - SeqNr(p.n)) % kMaxTxPackets
                                  \in 1 .. Min({Reported, (hi - st.hi) % SeqNrs})}
      seen     == {p \in st.tx \ stripped :
                     (SeqNr(p.n) - ix0) % kMaxTxPackets
                       <= (hi - ix0) % kMaxTxPackets}
      passed   == {p \in seen : ~p.afterEdge /\ NotAfter(SeqNr(p.n), hi)}
      late     == {p \in seen : IsLate(st, p)}
      left     == {p \in st.tx \ (stripped \cup late) : ~(p \in seen /\ p.acked)}
      lost     == late \cup {p \in stripped : ~p.acked}
  IN  [st EXCEPT
         !.tx = (left \ passed)
                  \cup {[p EXCEPT !.afterEdge = TRUE] : p \in left \cap passed},
         !.bif = Max({0, @ - Bytes(passed)}),
         !.hi = @ + ((hi - @) % SeqNrs),
         !.log.lost = @ \cup {p.n : p \in lost}]

(* detectLoss called with highestSeqNr = hi.  It frees the slots that leave *)
(* the window of AckWindow packets, then goes through the window up to hi:  *)
(* a packet not after hi is taken out of bytesInFlight the first time, and  *)
(* leaves the table when it is late or acked.                               *)
DetectLoss(st, hi) ==
  LET ix0      == st.hi - AckWindow
      stripped == {p \in st.tx : (ix0 - SeqNr(p.n)) % kMaxTxPackets
                                  \in 1 .. Min({Reported, (hi - st.hi) % SeqNrs})}
      seen     == {p \in st.tx \ stripped :
                     (SeqNr(p.n) - ix0) % kMaxTxPackets
                       <= (hi - ix0) % kMaxTxPackets}
      passed   == {p \in seen : ~p.afterEdge /\ NotAfter(SeqNr(p.n), hi)}
      late     == {p \in seen : IsLate(st, p)}
      left     == {p \in st.tx \ (stripped \cup late) : ~(p \in seen /\ p.acked)}
      lost     == late \cup {p \in stripped : ~p.acked}
  IN  [st EXCEPT
         !.tx = (left \ passed)
                  \cup {[p EXCEPT !.afterEdge = TRUE] : p \in left \cap passed},
         !.bif = Max({0, @ - Bytes(passed)}),
         !.hi = hi,
         !.log.lost = @ \cup {p.n : p \in lost}]

(* The inner incomingStandardizedFeedback, for one element that reports sn  *)
(* as received.                                                             *)
Element(st, sn, isLast) ==
  LET marked == \E p \in NewlyAcked(st, sn) : p.mark
      st1 == MarkAcked(st, sn)
  IN  IF isLast \/ marked THEN DetectLoss(st1, sn) ELSE st1

(* The state that feedback reads and writes. *)
TxState == [tx |-> txPackets, bif |-> bytesInFlight, hi |-> hiSeqAck,
            timeTxAck |-> timeTxAck, tsHigh |-> timeStampAckHigh,
            log |-> history]

(* The test meant to drop feedback that is out of order. *)
Ignored(end) ==
  /\ (end - hiSeqAck) % SeqNrs > OooDiff
  /\ hiSeqAck # 0
  /\ timeTxAck # 0
  /\ (hiSeqAck - end) % SeqNrs > OooSlack

(* incomingStandardizedFeedback, for a message of one report: it ends at    *)
(* sequence number end and has those of rx as received.  Its elements are   *)
(* processed in order; only the one of end itself is the last.              *)
AfterReport(end, rx) ==
  LET after[i \in 0 .. Reported] ==
        IF i = 0 THEN TxState
        ELSE LET sn == (end - Reported + i) % SeqNrs
             IN  IF sn \in rx THEN Element(after[i - 1], sn, i = Reported)
                              ELSE after[i - 1]
  IN  IF Ignored(end) THEN TxState ELSE after[Reported]

Report(end, rx) ==
  LET st == AfterReport(end, rx)
  IN  /\ txPackets' = st.tx
      /\ bytesInFlight' = st.bif
      /\ hiSeqAck' = st.hi
      /\ timeTxAck' = st.timeTxAck
      /\ timeStampAckHigh' = st.tsHigh

(* The receiver has received the packets of new since, in that order, and a *)
(* report it made after its first k arrivals, which ends at the highest of  *)
(* them, is processed, possibly late, again, or before an earlier one.      *)
Feedback(new, k) ==
  LET ar       == arrivals \o new
      received == {ar[i] : i \in 1 .. k}
      end      == Max(received)
      rx       == {SeqNr(n) : n \in {m \in received : m > end - Reported}}
  IN  /\ history.edge - end <= MaxBack
      /\ ~Ignored(SeqNr(end))
      /\ Report(SeqNr(end), rx)
      /\ arrivals' = ar
      /\ history' = [AfterReport(SeqNr(end), rx).log EXCEPT !.edge = Max({@, end})]
      /\ UNCHANGED <<lastTransmitT, now, sending, last, sent>>

(* What the network may deliver between two reports processed. *)
Deliveries ==
  LET wire == sent \ Range(arrivals)
  IN  {<<>>} \cup {<<n>> : n \in wire} \cup {d \in wire \X wire : d[1] # d[2]}

-----------------------------------------------------------------------------
(* The environment: time passes while the session is not silent for longer  *)
(* than it takes to time out.                                               *)
Tick == /\ now - lastTransmitT <= Rto
        /\ now < MaxTime
        /\ now' = now + 1
        /\ UNCHANGED <<txVars, lastTransmitT, sending, last,
                       sent, arrivals, history>>

Next == \/ \E p \in NextPackets : Transmit(p)
        \/ \E p \in NextPackets : TransmitAfterTimeout(p)
        \/ AddTransmitted
        \/ \E new \in Deliveries :
              \E k \in 1 .. Len(arrivals) + Len(new) : Feedback(new, k)
        \/ Tick

Spec == Init /\ [][Next]_vars

-----------------------------------------------------------------------------
TypeOK ==
  /\ \A p, q \in txPackets : SlotOf(p.n) = SlotOf(q.n) => p = q
  /\ bytesInFlight \in Nat
  /\ hiSeqAck \in 0 .. SeqNrs - 1
  /\ timeTxAck \in 0 .. now
  /\ timeStampAckHigh \in 0 .. now
  /\ lastTransmitT \in 0 .. now
  /\ Len(sending) <= 1

(* bytesInFlight is at every moment the number of bytes of the packets in   *)
(* the table that no ack has overtaken: what the timeout, the strip, a late *)
(* registration or feedback out of order removes from the table was         *)
(* subtracted exactly once, and the clamp at 0 hides nothing.               *)
FlightAccounting ==
  bytesInFlight = Bytes({p \in txPackets : ~p.afterEdge})

(* A packet registered since the last timeout that no report has reached is *)
(* counted in bytesInFlight, however sequence numbers wrap: the window is   *)
(* never opened by more than what was reported.                             *)
UnreportedIsCounted ==
  \A n \in history.live :
     n > history.edge => \E p \in txPackets : p.n = n /\ ~p.afterEdge

(* No packet is both acknowledged and declared lost: a loss is not          *)
(* signalled to the rate control for a packet that arrived and was counted. *)
AckedNeverLost == history.acked \cap history.lost = {}
=============================================================================
