------------------------------ MODULE ScreamRx ------------------------------
(***************************************************************************)
(* The receiver of a session: ScreamRx with its one Stream, as rxLoop of   *)
(* ReceiverSession drives it.  A datagram is recorded, and a feedback      *)
(* message is built and sent when one is due, in one critical section; no  *)
(* timer sends feedback.                                                   *)
(*                                                                         *)
(* A packet is known by its place n in the sender's stream; the code sees  *)
(* the 16 bit sequence number SeqNr(n).  The network loses, reorders and   *)
(* duplicates packets, within the bounds MaxJump and MaxLate.              *)
(* The list of out of order packets is left out: only                      *)
(* createStandardizedFeedbackOoo reads it, and nothing calls that.         *)
(***************************************************************************)
EXTENDS Integers, FiniteSetsExt

CONSTANTS
  SeqNrs,         \* number of RTP sequence numbers (65536)
  WrapGap,        \* a number this much higher is from before a wrap (16384)
  kRxHistorySize, \* packets remembered (512)
  Reported,       \* kReportedRtpPackets (32)
  AckDiff,        \* packets after which feedback is due (16)
  MaxBlocks,      \* blocks that fit in a message of kMaxRtcpSize (13)
  First,          \* the first packet that reaches the receiver
  MaxN,           \* bound: the last packet
  MaxJump,        \* bound: a packet is at most so far after the others
  MaxLate         \* bound: or so far before the last

ASSUME RingAssumption == /\ SeqNrs \in Nat \ {0}
                         /\ kRxHistorySize \in Nat \ {0}
                         /\ SeqNrs % kRxHistorySize = 0
                         /\ Reported \in 1 .. kRxHistorySize
                         /\ AckDiff \in Nat \ {0} /\ MaxBlocks \in Nat \ {0}

(* A hole in the stream, and a delay, is told from a wrap; and no packet is *)
(* late by as many as the history holds.                                    *)
ASSUME NetworkAssumption ==
  /\ MaxN \in Nat /\ First \in 0 .. MaxN
  /\ WrapGap \in Nat /\ MaxJump \in 1 .. WrapGap /\ MaxLate \in 0 .. WrapGap
  /\ WrapGap + MaxJump < SeqNrs /\ WrapGap + MaxLate < SeqNrs
  /\ MaxLate < kRxHistorySize

VARIABLES
  highestSeqNr,      \* highest received sequence number
  highestSeqNrTx,    \* highest fed back sequence number
  hist,              \* the packets in the history, at most one in a slot
  doFlush,           \* feedback is due, whatever else
  nRtpSinceLastRtcp,
  feedback,          \* the message just sent, a set of blocks
  received,          \* all packets received (history variable)
  inOrder,           \* those that came after all others (history variable)
  acked              \* those some message reported (history variable)

vars == <<highestSeqNr, highestSeqNrTx, hist, doFlush, nRtpSinceLastRtcp,
          feedback, received, inOrder, acked>>

SeqNr(n) == n % SeqNrs

Init ==
  /\ highestSeqNr = 0
  /\ highestSeqNrTx = 0
  /\ hist = {}
  /\ doFlush = FALSE
  /\ nRtpSinceLastRtcp = 0
  /\ feedback = {}
  /\ received = {}
  /\ inOrder = {}
  /\ acked = {}

(* Mutant: without the wrap. *)
MutAdvances(seq, hi) == seq >= hi

(* Stream::receive: seq is taken for a sequence number not before hi. *)
Advances(seq, hi) == IF seq < hi THEN hi - seq > WrapGap
                                 ELSE seq - hi <= WrapGap

(* ScreamRx::receive and the start of Stream::receive: the highest sequence *)
(* number before packet n; the first packet of the SSRC makes the stream.   *)
HighestBefore(n) == IF received = {} THEN SeqNr(n - 1) ELSE highestSeqNr

(* Stream::receive: a packet overwrites the one in its slot. *)
Recorded(n) ==
  {m \in hist : m % kRxHistorySize # n % kRxHistorySize} \cup {n}

(* Mutant: whatever is in the slot of a number was received. *)
MutReportedIn(history, end) ==
  {(end - i) % SeqNrs : i \in
     {j \in 0 .. Reported - 1 :
        \E m \in history : m % kRxHistorySize = (end - j) % kRxHistorySize}}

(* Mutant: whatever the block covers was received. *)
MutReportedAll(history, end) == {(end - i) % SeqNrs : i \in 0 .. Reported - 1}

(* Mutant: a block covers one number less. *)
MutReportedShort(history, end) ==
  {SeqNr(m) : m \in {k \in history : (end - SeqNr(k)) % SeqNrs < Reported - 1}}

(* getStandardizedFeedback: the sequence numbers a block that ends at end   *)
(* reports as received.                                                     *)
ReportedIn(history, end) ==
  {SeqNr(m) : m \in {k \in history : (end - SeqNr(k)) % SeqNrs < Reported}}

(* getStandardizedFeedback: the end of the block after one that ended at    *)
(* tx.  The difference is taken in int, not modulo 2^16.                    *)
BlockEnd(tx, hi) ==
  IF hi - tx > Reported THEN (tx + Reported) % SeqNrs ELSE hi

(* createStandardizedFeedback: the ends of its blocks.  While a block does  *)
(* not reach hi, it sets doFlush and another block is added.                *)
Ends(tx, hi) ==
  LET end[i \in 0 .. MaxBlocks] == IF i = 0 THEN tx ELSE BlockEnd(end[i - 1], hi)
  IN  [i \in 1 .. MaxBlocks |-> end[i]]

(* Mutant: one packet too many. *)
MutDue(n, flush, elapsed, mark) == n > AckDiff \/ flush \/ elapsed

(* createStandardizedFeedback: the stream is selected.  elapsed: more than  *)
(* rtcpFbInterval since its last feedback.                                  *)
Due(n, flush, elapsed, mark) ==
  n >= AckDiff \/ flush \/ elapsed \/ (mark /\ n > 0)

(* ScreamRx::receive, ScreamReceiver::buildFeedback, under one lock: packet *)
(* n is recorded; it makes the highest number HighestAfter(n), and a        *)
(* message due or not.                                                      *)
HighestAfter(n) == IF Advances(SeqNr(n), HighestBefore(n)) THEN SeqNr(n)
                                                           ELSE HighestBefore(n)

DueAfter(mark, elapsed) ==
  Due(nRtpSinceLastRtcp + 1, doFlush \/ mark, elapsed, mark)

(* The blocks of the message, when one is due, and otherwise nothing. *)
Message(n, mark, elapsed) ==
  LET ends == Ends(highestSeqNrTx, HighestAfter(n))
  IN  IF DueAfter(mark, elapsed)
        THEN {[end |-> ends[i], rx |-> ReportedIn(Recorded(n), ends[i])] :
                i \in 1 .. MaxBlocks}
        ELSE {}

Record(n, mark, elapsed) ==
  LET hi  == HighestAfter(n)
      end == Ends(highestSeqNrTx, hi)[MaxBlocks]
  IN  /\ highestSeqNr' = hi
      /\ hist' = Recorded(n)
      /\ IF DueAfter(mark, elapsed)
           THEN /\ highestSeqNrTx' = end
                /\ doFlush' = (end # hi)
                /\ nRtpSinceLastRtcp' = 0
           ELSE /\ doFlush' = (doFlush \/ mark)
                /\ nRtpSinceLastRtcp' = nRtpSinceLastRtcp + 1
                /\ UNCHANGED highestSeqNrTx

Receive(n, mark, elapsed) ==
  /\ Record(n, mark, elapsed)
  /\ feedback' = Message(n, mark, elapsed)
  /\ received' = received \cup {n}
  /\ inOrder' = IF \A m \in received : m < n THEN inOrder \cup {n} ELSE inOrder
  /\ acked' = acked \cup
       {m \in received' : \E block \in feedback' : SeqNr(m) \in block.rx}

Arrivals ==
  IF received = {} THEN {First}
  ELSE {n \in Max(received) - MaxLate .. Max(received) + MaxJump :
          First <= n /\ n <= MaxN}

Next == \E n \in Arrivals, mark, elapsed \in BOOLEAN : Receive(n, mark, elapsed)

Spec == Init /\ [][Next]_vars

-----------------------------------------------------------------------------
TypeOK ==
  /\ highestSeqNr \in 0 .. SeqNrs - 1
  /\ highestSeqNrTx \in 0 .. SeqNrs - 1
  /\ \A m, n \in hist : m % kRxHistorySize = n % kRxHistorySize => m = n
  /\ doFlush \in BOOLEAN
  /\ nRtpSinceLastRtcp \in 0 .. AckDiff - 1

(* "Highest received sequence number": however packets are lost, reordered, *)
(* or wrap, the receiver knows the last packet it has.                      *)
HighestIsHighest ==
  received # {} => highestSeqNr = SeqNr(Max(received))

(* No packet is reported that was not received: the history is overwritten  *)
(* and sequence numbers wrap, and still a number is reported only for the   *)
(* packet that the sender means by it, the last with that number.  Only     *)
(* when no packet overwrote its slot for a whole round of numbers is that   *)
(* of the round before still there.                                         *)
Meant(seq) == Max({n \in First - SeqNrs .. Max(received) : SeqNr(n) = seq})

SlotIdle(last) ==
  \A n \in last - SeqNrs + 1 .. last :
    n % kRxHistorySize = last % kRxHistorySize => n \notin received

NoFalseAck ==
  \A block \in feedback : \A seq \in block.rx :
    Meant(seq) \in received \/ SlotIdle(Meant(seq))

(* When nothing is pending, every packet that came in order was reported,   *)
(* even when the ones after it were lost: "ACKs can cover also large holes  *)
(* in the received sequence number space".                                  *)
InOrderIsAcked ==
  nRtpSinceLastRtcp = 0 /\ ~doFlush => inOrder \subseteq acked
=============================================================================
