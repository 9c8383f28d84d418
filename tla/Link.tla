-------------------------------- MODULE Link --------------------------------
(***************************************************************************)
(* A sender and a receiver over UDP: the sender's account of the packets   *)
(* in flight (TxFlight) and the receiver's engine (ScreamRx) on the two    *)
(* ends of a network that delays, reorders and loses packets and feedback. *)
(* Either session may be stopped and started again while the other goes on *)
(* (TestSession and ReceiverSession: a new engine, the same SSRC).         *)
(*                                                                         *)
(* The actions of TxFlight are extended by what becomes of the packets it  *)
(* sends; its Feedback, with a network of its own, is replaced.            *)
(*                                                                         *)
(* A packet is known by its place n in the streams of all sessions of the  *)
(* sender; a session starts at a multiple of SeqNrs, so that its first     *)
(* packet has sequence number 0 again.  A message holds one report, so the *)
(* receiver catches up in several messages where the code does it in one.  *)
(* The receiver takes packets for old ones when they are RxWrapGap behind; *)
(* the bounds here keep all packets closer than that.                      *)
(***************************************************************************)
EXTENDS TxFlight

CONSTANTS
  RxWrapGap, kRxHistorySize, AckDiff,      \* of the receiver: see ScreamRx
  MaxInTransit,    \* bound: packets, and messages, in the network
  MaxRestarts      \* bound: sessions that are stopped and started again

(* The sender starts with the first number, and its queue drops nothing; a  *)
(* session has fewer packets than there are numbers.                        *)
ASSUME SessionAssumption ==
  /\ Starts = {0} /\ MaxGap = 0
  /\ MaxTx \in Nat /\ MaxTx < SeqNrs
  /\ MaxInTransit \in Nat /\ MaxRestarts \in Nat

(* Every packet is in two reports, which the history holds, and no report   *)
(* in order is taken for one out of order.                                  *)
ASSUME ReportAssumption ==
  /\ kRxHistorySize \in Nat /\ SeqNrs % kRxHistorySize = 0
  /\ AckDiff \in Nat \ {0} /\ 2 * AckDiff <= Reported
  /\ Reported <= kRxHistorySize /\ Reported <= OooDiff
  /\ OooDiff \in Nat /\ RxWrapGap \in Nat \ {0} /\ RxWrapGap + 1 < SeqNrs

VARIABLES
  highestSeqNr, highestSeqNrTx, hist, doFlush, nRtpSinceLastRtcp,
  received,                                              \* the receiver's
  rtp,         \* packets in the network, in the order they were sent
  rtcp,        \* messages in the network, in the order they were sent
  restarts,
  delivered,   \* the packets received that reports of this session may be
               \* about (history variable)
  net          \* how well the network behaved (history variable)

rxVars == <<highestSeqNr, highestSeqNrTx, hist, doFlush, nRtpSinceLastRtcp,
            received>>
linkVars == <<vars, rxVars, rtp, rtcp, restarts, delivered, net>>

rx == INSTANCE ScreamRx WITH WrapGap <- RxWrapGap, MaxBlocks <- 1,
                             First <- 0, MaxN <- 0, MaxJump <- 0, MaxLate <- 0,
                             feedback <- {},
                             inOrder <- {}, acked <- {}

LinkInit ==
  /\ Init
  /\ rx!Init
  /\ rtp = <<>>
  /\ rtcp = <<>>
  /\ restarts = 0
  /\ delivered = {}
  /\ net = [clean |-> TRUE, tidy |-> TRUE, missed |-> FALSE]

-----------------------------------------------------------------------------
(* The network.  clean: it has delivered everything in order.  tidy: the    *)
(* packets all in order, and the messages in order but for some, no two in  *)
(* a row, that were lost or came before their last packet was registered.   *)

(* Mutant: no limit. *)
MutQueue(queue, m) == Append(queue, m)

(* A queue of the network that is full loses what comes in. *)
Queue(queue, m) == IF Len(queue) < MaxInTransit THEN Append(queue, m) ELSE queue

Untidy(untidy) ==
  IF untidy THEN [clean |-> FALSE, tidy |-> FALSE, missed |-> FALSE] ELSE net

Missed(missed) ==
  [clean  |-> net.clean /\ ~missed,
   tidy   |-> net.tidy /\ ~(missed /\ net.missed),
   missed |-> missed]

LosePacket ==
  /\ rtp # <<>>
  /\ rtp' = Tail(rtp)
  /\ net' = Untidy(TRUE)
  /\ UNCHANGED <<vars, rxVars, rtcp, restarts, delivered>>

LoseMessage ==
  /\ rtcp # <<>>
  /\ rtcp' = Tail(rtcp)
  /\ net' = Missed(TRUE)
  /\ UNCHANGED <<vars, rxVars, rtp, restarts, delivered>>

-----------------------------------------------------------------------------
(* The sender: pump, and the feedback of the rtcpLoop in between. *)

Sent(p) ==
  /\ rtp' = Queue(rtp, [n |-> p.n, mark |-> p.mark])
  /\ UNCHANGED <<rxVars, rtcp, restarts, delivered>>

LinkTransmit(p) ==
  /\ Transmit(p)
  /\ Sent(p)
  /\ net' = Untidy(Len(rtp) = MaxInTransit)

(* Acks of the packets the timeout forgot come to nothing. *)
LinkTransmitAfterTimeout(p) ==
  /\ TransmitAfterTimeout(p)
  /\ Sent(p)
  /\ net' = Untidy(TRUE)

LinkAddTransmitted ==
  /\ AddTransmitted
  /\ UNCHANGED <<rxVars, rtp, rtcp, restarts, delivered, net>>

(* The log of a report; its edge is the last packet acked. *)
LogAfter(block) ==
  LET log == AfterReport(block.end, block.rx).log
  IN  [log EXCEPT !.edge = Max({@} \cup log.acked)]

(* A message arrives at the sender, the i-th that the receiver sent. *)
LinkFeedback(i) ==
  LET block == rtcp[i]
      early == \E p \in ToSet(sending) : SeqNr(p.n) \in block.rx
  IN  /\ Report(block.end, block.rx)
      /\ history' = LogAfter(block)
      /\ UNCHANGED <<lastTransmitT, now, sending, last, sent, arrivals>>
      /\ rtcp' = RemoveAt(rtcp, i)
      /\ net' = IF i = 1 THEN Missed(early) ELSE Untidy(TRUE)
      /\ UNCHANGED <<rxVars, rtp, restarts, delivered>>

(* Half a second does not pass between sendto and addTransmitted. *)
LinkTick ==
  /\ sending = <<>>
  /\ Tick
  /\ UNCHANGED <<rxVars, rtp, rtcp, restarts, delivered, net>>

(* The sender's sessions so far, but for the present one. *)
Session == (last.n + 1) \div SeqNrs

(* The sender is stopped and started: a new controller, with nothing in     *)
(* flight, and seqNr_ = 0.                                                  *)
RestartSender ==
  LET first == (Session + 1) * SeqNrs
  IN  /\ restarts < MaxRestarts
      /\ last.n >= Session * SeqNrs
      /\ restarts' = restarts + 1
      /\ txPackets' = {}
      /\ bytesInFlight' = 0
      /\ hiSeqAck' = 0
      /\ timeTxAck' = 0
      /\ timeStampAckHigh' = 0
      /\ lastTransmitT' = 1
      /\ now' = 1
      /\ sending' = <<>>
      /\ last' = [n |-> first - 1, ts |-> 0, mark |-> TRUE]
      /\ history' = [acked |-> {}, lost |-> {}, edge |-> first - 1, live |-> {}]
      /\ net' = [clean |-> rtp = <<>> /\ rtcp = <<>>, tidy |-> FALSE,
                 missed |-> FALSE]
      /\ delivered' = IF rtcp = <<>> THEN received ELSE delivered
      /\ UNCHANGED <<sent, arrivals, rxVars, rtp, rtcp>>

-----------------------------------------------------------------------------
(* The receiver. *)

(* The i-th packet the sender sent arrives, and a message is sent if one is *)
(* due.                                                                     *)
Arrive(i, elapsed) ==
  LET p       == rtp[i]
      message == rx!Message(p.n, p.mark, elapsed)
  IN  /\ rx!Record(p.n, p.mark, elapsed)
      /\ received' = received \cup {p.n}
      /\ delivered' = delivered \cup {p.n}
      /\ rtp' = RemoveAt(rtp, i)
      /\ rtcp' = IF message = {} THEN rtcp
                                ELSE Queue(rtcp, CHOOSE block \in message : TRUE)
      /\ net' = Untidy(i > 1 \/ (message # {} /\ Len(rtcp) = MaxInTransit))
      /\ UNCHANGED <<vars, restarts>>

(* The receiver is stopped and started: an engine without a stream. *)
RestartReceiver ==
  /\ restarts < MaxRestarts
  /\ received # {}
  /\ restarts' = restarts + 1
  /\ highestSeqNr' = 0
  /\ highestSeqNrTx' = 0
  /\ hist' = {}
  /\ doFlush' = FALSE
  /\ nRtpSinceLastRtcp' = 0
  /\ received' = {}
  /\ net' = Untidy(TRUE)
  /\ UNCHANGED <<vars, rtp, rtcp, delivered>>

-----------------------------------------------------------------------------
LinkNext ==
  \/ \E p \in NextPackets : LinkTransmit(p)
  \/ \E p \in NextPackets : LinkTransmitAfterTimeout(p)
  \/ LinkAddTransmitted
  \/ \E i \in 1 .. Len(rtcp) : LinkFeedback(i)
  \/ \E i \in 1 .. Len(rtp), elapsed \in BOOLEAN : Arrive(i, elapsed)
  \/ LosePacket \/ LoseMessage
  \/ LinkTick
  \/ RestartSender \/ RestartReceiver

LinkSpec == LinkInit /\ [][LinkNext]_linkVars

(* The sender's thread and its clock run; nothing is assumed of the network *)
(* or of the receiver.                                                      *)
FairSpec ==
  /\ LinkSpec
  /\ WF_linkVars(\E p \in NextPackets : LinkTransmitAfterTimeout(p))
  /\ WF_linkVars(LinkAddTransmitted)
  /\ WF_linkVars(LinkTick)

-----------------------------------------------------------------------------
LinkTypeOK ==
  /\ TypeOK
  /\ rx!TypeOK
  /\ Len(rtp) <= MaxInTransit /\ Len(rtcp) <= MaxInTransit
  /\ restarts \in 0 .. MaxRestarts
  /\ received \subseteq delivered
  /\ net \in [clean : BOOLEAN, tidy : BOOLEAN, missed : BOOLEAN]

(* A packet is acknowledged only when a receiver got it, through holes and  *)
(* overwritten slots of the history; or else when a packet of an earlier    *)
(* session with its number was received, of which reports may still tell.   *)
(* The number does not tell the two apart, so that what a receiver kept of  *)
(* the last session, or a message or packet of it still under way, can      *)
(* acknowledge a packet that was lost.  Nothing else can.                   *)
AckedWereReceived ==
  \A n \in history.acked :
    \/ n \in delivered
    \/ \E m \in delivered : SeqNr(m) = SeqNr(n) /\ m < Session * SeqNrs

(* Every packet is in two reports at least, so a lost message, or one that  *)
(* overtakes the registration of its packet, is made good by the next: the  *)
(* sender declares no packet lost that was not, and does not slow down.     *)
NoSpuriousLoss == net.tidy => history.lost = {}

(* When all that was sent has arrived, in order, and every message too, all *)
(* packets are acknowledged and none is in flight.                          *)
AllAcked ==
  LET ours == {n \in sent : n \div SeqNrs = Session}
  IN  /\ net.clean
      /\ sending = <<>> /\ rtp = <<>> /\ rtcp = <<>>
      /\ nRtpSinceLastRtcp = 0 /\ ~doFlush
      => /\ history.acked = ours
         /\ bytesInFlight = 0

(* "ACK feedback clocks out new packets", in the first session of a sender. *)
FirstSessionAcked == Session = 0 => AllAcked

(* However little of what is sent arrives, and whoever is restarted, the    *)
(* sender goes on sending: all packets are sent in the end.                 *)
NeverStuck == <>[](Cardinality(sent) = MaxTx)
=============================================================================
