----------------------------- MODULE LossReaction -----------------------------
(***************************************************************************)
(* When the sender's rate control (ScreamV2Tx) reduces the congestion      *)
(* window: the events that a lost packet, a CE mark and a long queue delay *)
(* raise, the intervals that keep them apart, and updateCwnd, which        *)
(* consumes them.  The size of the window is left to SendWindow, and which *)
(* packets are declared lost to TxFlight.                                  *)
(*                                                                         *)
(* What is computed in floating point is a free choice: the round trip     *)
(* time, and whether the averaged queue delay is long.  The loss and CE    *)
(* events are told apart because they have intervals of their own.         *)
(***************************************************************************)
EXTENDS Integers

CONSTANTS
  kMinCongestionBackOffInterval,
  Rtts,       \* round trip times
  Start,      \* the time of the first packet: initialize
  MaxTime     \* bound: the clock

ASSUME BackOffAssumption == kMinCongestionBackOffInterval \in Nat
ASSUME RttsAssumption == Rtts # {} /\ Rtts \subseteq Nat
ASSUME TimeAssumption == Start \in Nat \ {0} /\ MaxTime \in Nat /\ Start <= MaxTime

VARIABLES
  isL4s,                    \* the session's setting
  now,                      \* the clock
  sRtt,
  isCeThisFeedback,         \* a CE mark that no event has been made of
  lossEvent,                \* a loss that updateCwnd has not seen yet
  lastLossEventT,           \* time of the last event of any kind
  lastCongestionDetectedT,  \* time updateCwnd last reduced the window, or 0
  isNewFrame,
  log       \* losses and the reactions to them (history variable)

vars == <<isL4s, now, sRtt, isCeThisFeedback, lossEvent, lastLossEventT,
          lastCongestionDetectedT, isNewFrame, log>>

(* lost, signalled: the time of the last packet declared lost, and of the   *)
(* loss that raised the last loss event, each with the round trip time it   *)
(* was compared with; cut: when the window was last reduced for a loss.     *)
Log == [lost : 0 .. MaxTime, lostRtt : Rtts,
        signalled : 0 .. MaxTime, signalledRtt : Rtts, cut : 0 .. MaxTime]

(* Mutant: initialize forgets lastLossEventT. *)
MutInit ==
  /\ isL4s \in BOOLEAN
  /\ now = Start
  /\ sRtt \in Rtts
  /\ isCeThisFeedback = FALSE
  /\ lossEvent = FALSE
  /\ lastLossEventT = 0
  /\ lastCongestionDetectedT = 0
  /\ isNewFrame = FALSE
  /\ log = [lost |-> 0, lostRtt |-> sRtt, signalled |-> 0,
            signalledRtt |-> sRtt, cut |-> 0]

(* The constructor and initialize. *)
Init ==
  /\ isL4s \in BOOLEAN
  /\ now = Start
  /\ sRtt \in Rtts
  /\ isCeThisFeedback = FALSE
  /\ lossEvent = FALSE
  /\ lastLossEventT = Start
  /\ lastCongestionDetectedT = 0
  /\ isNewFrame = FALSE
  /\ log = [lost |-> 0, lostRtt |-> sRtt, signalled |-> 0,
            signalledRtt |-> sRtt, cut |-> 0]

(* newMediaFrame: the last packet of a frame. *)
NewMediaFrame ==
  /\ isNewFrame' = TRUE
  /\ UNCHANGED <<isL4s, now, sRtt, isCeThisFeedback, lossEvent, lastLossEventT,
                 lastCongestionDetectedT, log>>

Tick ==
  /\ now < MaxTime
  /\ now' = now + 1
  /\ UNCHANGED <<isL4s, sRtt, isCeThisFeedback, lossEvent, lastLossEventT,
                 lastCongestionDetectedT, isNewFrame, log>>

-----------------------------------------------------------------------------
(* Feedback.  detectLoss runs for the last packet of every frame that is    *)
(* newly acked, and once more for the last element of a report, which has   *)
(* updated sRtt before.  A report ends in a received packet, except for     *)
(* the blocks with which a receiver catches up.                             *)

(* detectLoss: a packet is declared lost, and it raises an event if the     *)
(* last event is longer ago than rtt.                                       *)
Signals(rtt) == now - lastLossEventT > rtt

(* The losses of a report in the history: declared while sRtt was rtt. *)
Logged(rtt) ==
  [log EXCEPT !.lost = now, !.lostRtt = rtt,
              !.signalled = IF Signals(rtt) /\ ~lossEvent THEN now ELSE @,
              !.signalledRtt = IF Signals(rtt) /\ ~lossEvent THEN rtt ELSE @]

(* Elements but the last of a report: packets marked CE, packets lost. *)
Elements(lost, marked) ==
  /\ isCeThisFeedback' = (isCeThisFeedback \/ marked)
  /\ lossEvent' = (lossEvent \/ (lost /\ Signals(sRtt)))
  /\ log' = IF lost THEN Logged(sRtt) ELSE log
  /\ UNCHANGED <<isL4s, now, sRtt, lastLossEventT, lastCongestionDetectedT,
                 isNewFrame>>

(* Another event is due, the last one having been at t. *)
BackedOff(t, rtt) == \/ now - t > kMinCongestionBackOffInterval
                     \/ now - t > rtt

(* ecnCeEvent: the feedback had CE marks. *)
CeEvent(marked, rtt) ==
  (isCeThisFeedback \/ marked) /\ BackedOff(lastLossEventT, rtt)

(* virtualCeEvent: the queue delay is long.  A CE event has just set        *)
(* lastLossEventT to the present time.                                      *)
VirtualCeEvent(marked, queueLong, rtt) ==
  /\ queueLong
  /\ BackedOff(IF CeEvent(marked, rtt) THEN now ELSE lastLossEventT, rtt)

(* Mutant: a shrinking queue takes back CE events without L4S too. *)
MutInhibited(shrinking) == shrinking

(* All packets are marked, the round trip time shrinks: the CE event is     *)
(* taken back, but not what it did to lastLossEventT.                       *)
Inhibited(shrinking) == isL4s /\ shrinking

(* Mutant: the loss event stays. *)
MutUpdateCwnd(loss, event) ==
  /\ lossEvent' = loss
  /\ lastCongestionDetectedT' = IF event THEN now ELSE lastCongestionDetectedT

(* updateCwnd: an event of any kind reduces the window and is consumed. *)
UpdateCwnd(loss, event) ==
  /\ lossEvent' = FALSE
  /\ lastCongestionDetectedT' = IF event THEN now ELSE lastCongestionDetectedT

(* The last element of a report.  Without an event or a new frame the       *)
(* window is updated when enough time has passed since the last time.       *)
LastElement(rtt, lost, marked, queueLong, shrinking, elapsed) ==
  LET loss    == lossEvent \/ (lost /\ Signals(rtt))
      ce      == CeEvent(marked, rtt)
      event   == \/ loss
                 \/ ce /\ ~Inhibited(shrinking)
                 \/ VirtualCeEvent(marked, queueLong, rtt)
      logged  == IF lost THEN Logged(rtt) ELSE log
  IN  /\ sRtt' = rtt
      /\ isCeThisFeedback' = FALSE
      /\ lastLossEventT' = IF ce \/ event THEN now ELSE lastLossEventT
      /\ IF elapsed \/ event \/ isNewFrame
           THEN UpdateCwnd(loss, event) /\ isNewFrame' = FALSE
           ELSE UNCHANGED <<lossEvent, lastCongestionDetectedT, isNewFrame>>
      /\ log' = IF loss THEN [logged EXCEPT !.cut = now] ELSE logged
      /\ UNCHANGED <<isL4s, now>>

Next ==
  \/ NewMediaFrame
  \/ Tick
  \/ \E lost, marked \in BOOLEAN : Elements(lost, marked)
  \/ \E rtt \in Rtts, lost, marked, queueLong, shrinking, elapsed \in BOOLEAN :
        LastElement(rtt, lost, marked, queueLong, shrinking, elapsed)

Spec == Init /\ [][Next]_vars

-----------------------------------------------------------------------------
(* The last event is never in the future, so that the unsigned differences  *)
(* to it are small.                                                         *)
TypeOK ==
  /\ isL4s \in BOOLEAN
  /\ now \in Start .. MaxTime
  /\ sRtt \in Rtts
  /\ isCeThisFeedback \in BOOLEAN
  /\ lossEvent \in BOOLEAN
  /\ lastLossEventT \in Start .. now
  /\ lastCongestionDetectedT \in 0 .. now
  /\ isNewFrame \in BOOLEAN
  /\ log \in Log

(* Every packet declared lost slows the sender down: the window was reduced *)
(* less than a round trip time before, or still will be, or the session is  *)
(* not older than that.  Events of other kinds that came to nothing do not  *)
(* hide it.  (With L4S they can: see Inhibited.)                            *)
LossAnswered ==
  ~isL4s /\ log.lost # 0 =>
    \/ lossEvent
    \/ lastCongestionDetectedT >= log.lost - log.lostRtt
    \/ Start >= log.lost - log.lostRtt

(* All losses of a round trip time reduce the window only once, however     *)
(* many reports declare them: the loss for which it is reduced came more    *)
(* than a round trip time after the last reduction for a loss.              *)
OneLossReaction ==
  [][log'.cut # log.cut /\ log.cut # 0
       => log'.signalled - log.cut > log'.signalledRtt]_vars
=============================================================================
