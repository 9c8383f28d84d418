-------------------------- MODULE LossReactionProofs --------------------------
(***************************************************************************)
(* When the window is reduced for a loss, for any round trip times, back   *)
(* off interval and length of the session.                                 *)
(*                                                                         *)
(* LossAnswered is about the time of the last event and OneLossReaction    *)
(* about the time of the last reduction: two variables that different      *)
(* functions set.  The invariant ties them: without L4S the last event is  *)
(* also the last reduction (EventsReduce), a reduction for a loss was an   *)
(* event (CutWasEvent), and a pending loss event was raised a round trip   *)
(* time after it (PendingIsDue).                                           *)
(***************************************************************************)
EXTENDS LossReaction, TLAPS

EventsReduce ==
  ~isL4s => lastLossEventT = Start \/ lastLossEventT = lastCongestionDetectedT

CutWasEvent == log.cut <= lastLossEventT

PendingIsDue ==
  lossEvent /\ log.cut # 0 => log.signalled - log.cut > log.signalledRtt

LostIsPast == log.lost <= now

Inv == /\ TypeOK /\ EventsReduce /\ LossAnswered
       /\ CutWasEvent /\ PendingIsDue /\ LostIsPast

Assumptions == /\ Rtts # {} /\ Rtts \subseteq Nat
               /\ Start \in Nat \ {0} /\ MaxTime \in Nat /\ Start <= MaxTime
               /\ kMinCongestionBackOffInterval \in Nat

LEMMA AssumptionsHold == Assumptions
  BY RttsAssumption, TimeAssumption, BackOffAssumption DEF Assumptions

-----------------------------------------------------------------------------
(* What a report does to the history when it declares a loss. *)
LEMMA LoggedType ==
  ASSUME TypeOK, NEW rtt \in Rtts
  PROVE  /\ Logged(rtt) \in Log
         /\ Logged(rtt).lost = now /\ Logged(rtt).lostRtt = rtt
         /\ Logged(rtt).cut = log.cut
         /\ Signals(rtt) /\ ~lossEvent =>
              Logged(rtt).signalled = now /\ Logged(rtt).signalledRtt = rtt
         /\ ~(Signals(rtt) /\ ~lossEvent) =>
              /\ Logged(rtt).signalled = log.signalled
              /\ Logged(rtt).signalledRtt = log.signalledRtt
<1>1. now \in 0 .. MaxTime
  BY AssumptionsHold DEF Assumptions, TypeOK
<1>2. CASE Signals(rtt) /\ ~lossEvent
  <2>1. Logged(rtt) = [log EXCEPT !.lost = now, !.lostRtt = rtt,
                                  !.signalled = now, !.signalledRtt = rtt]
    BY <1>2, Zenon DEF Logged
  <2> QED
    BY <1>1, <1>2, <2>1 DEF TypeOK, Log
<1>3. CASE ~(Signals(rtt) /\ ~lossEvent)
  <2>1. Logged(rtt) = [log EXCEPT !.lost = now, !.lostRtt = rtt,
                                  !.signalled = @, !.signalledRtt = @]
    BY <1>3, Zenon DEF Logged
  <2> QED
    BY <1>1, <1>3, <2>1 DEF TypeOK, Log
<1> QED
  BY <1>2, <1>3

LEMMA InitInv == Init => Inv
<1> SUFFICES ASSUME Init PROVE Inv
  OBVIOUS
<1>1. log \in Log /\ log.cut = 0 /\ log.lost = 0
  BY AssumptionsHold DEF Init, Log, Assumptions
<1>2. TypeOK
  <2>1. /\ isL4s \in BOOLEAN /\ isCeThisFeedback \in BOOLEAN
        /\ lossEvent \in BOOLEAN /\ isNewFrame \in BOOLEAN
    BY Zenon DEF Init
  <2>2. /\ now \in Start .. MaxTime
        /\ lastLossEventT \in Start .. now
        /\ lastCongestionDetectedT \in 0 .. now
    BY AssumptionsHold DEF Init, Assumptions
  <2>3. sRtt \in Rtts
    BY DEF Init
  <2> QED
    BY <1>1, <2>1, <2>2, <2>3 DEF TypeOK
<1>3. EventsReduce /\ LossAnswered /\ CutWasEvent /\ PendingIsDue
      /\ LostIsPast
  BY <1>1, AssumptionsHold DEF Init, EventsReduce, LossAnswered, CutWasEvent,
     PendingIsDue, LostIsPast, Assumptions
<1> QED
  BY <1>2, <1>3 DEF Inv

(* A loss that is declared while the invariant holds: an event is pending,  *)
(* or the last one is less than a round trip time ago.                      *)
LEMMA DeclaredIsAnswered ==
  ASSUME Inv, ~isL4s, NEW rtt \in Rtts, ~Signals(rtt)
  PROVE  lastCongestionDetectedT >= now - rtt \/ Start >= now - rtt
  BY AssumptionsHold DEF Inv, TypeOK, EventsReduce, Signals, Assumptions

LEMMA ElementsInv ==
  ASSUME Inv, NEW lost \in BOOLEAN, NEW marked \in BOOLEAN,
         Elements(lost, marked)
  PROVE  Inv'
<1> USE DEF Inv, Elements
<1>0. sRtt \in Rtts /\ log \in Log
  BY DEF TypeOK
<1>1. CASE ~lost
  <2>1. lossEvent' = lossEvent /\ log' = log /\ isCeThisFeedback' \in BOOLEAN
    BY <1>1 DEF TypeOK
  <2> QED
    BY <2>1 DEF TypeOK, EventsReduce, LossAnswered, CutWasEvent, PendingIsDue,
       LostIsPast
<1>2. CASE lost
  <2>1. log' = Logged(sRtt) /\ lossEvent' = (lossEvent \/ Signals(sRtt))
    BY <1>2
  <2>2. TypeOK'
    <3>1. isCeThisFeedback' \in BOOLEAN /\ lossEvent' \in BOOLEAN
      BY <2>1 DEF TypeOK, Signals
    <3> QED
      BY <1>0, <2>1, <3>1, LoggedType DEF TypeOK
  <2>3. EventsReduce' /\ CutWasEvent' /\ LostIsPast'
    BY <1>0, <2>1, LoggedType, AssumptionsHold
       DEF EventsReduce, CutWasEvent, LostIsPast, TypeOK, Assumptions
  <2>4. LossAnswered'
    BY <1>0, <2>1, LoggedType, DeclaredIsAnswered DEF LossAnswered
  <2>5. PendingIsDue'
    <3>1. CASE lossEvent
      BY <1>0, <2>1, <3>1, LoggedType DEF PendingIsDue
    <3>2. CASE ~lossEvent /\ Signals(sRtt)
      <4>1. now - lastLossEventT > sRtt /\ log.cut <= lastLossEventT
        BY <3>2 DEF Signals, CutWasEvent
      <4>2. now - log.cut > sRtt
        BY <1>0, <4>1, AssumptionsHold DEF TypeOK, Log, Assumptions
      <4> QED
        BY <1>0, <2>1, <3>2, <4>2, LoggedType DEF PendingIsDue
    <3>3. CASE ~lossEvent /\ ~Signals(sRtt)
      BY <2>1, <3>3 DEF PendingIsDue
    <3> QED
      BY <3>1, <3>2, <3>3
  <2> QED
    BY <2>2, <2>3, <2>4, <2>5
<1> QED
  BY <1>1, <1>2

-----------------------------------------------------------------------------
(* The parts of LastElement, as sets of facts about what it reads. *)
LEMMA LastElementInv ==
  ASSUME Inv, NEW rtt \in Rtts, NEW lost \in BOOLEAN, NEW marked \in BOOLEAN,
         NEW queueLong \in BOOLEAN, NEW shrinking \in BOOLEAN,
         NEW elapsed \in BOOLEAN,
         LastElement(rtt, lost, marked, queueLong, shrinking, elapsed)
  PROVE  /\ Inv'
         /\ log'.cut # log.cut /\ log.cut # 0
              => log'.signalled - log.cut > log'.signalledRtt
<1> DEFINE loss   == lossEvent \/ (lost /\ Signals(rtt))
           ce     == CeEvent(marked, rtt)
           event  == \/ loss
                     \/ ce /\ ~Inhibited(shrinking)
                     \/ VirtualCeEvent(marked, queueLong, rtt)
           logged == IF lost THEN Logged(rtt) ELSE log
<1>1. /\ sRtt' = rtt
      /\ isCeThisFeedback' = FALSE
      /\ lastLossEventT' = IF ce \/ event THEN now ELSE lastLossEventT
      /\ event => lossEvent' = FALSE /\ lastCongestionDetectedT' = now
      /\ ~event => lastCongestionDetectedT' = lastCongestionDetectedT
      /\ lossEvent' = lossEvent \/ lossEvent' = FALSE
      /\ isNewFrame' = isNewFrame \/ isNewFrame' = FALSE
      /\ log' = IF loss THEN [logged EXCEPT !.cut = now] ELSE logged
      /\ UNCHANGED <<isL4s, now>>
  BY DEF LastElement, UpdateCwnd
<1>2. ~isL4s /\ ce => event
  BY DEF Inhibited
<1>3. /\ logged \in Log /\ logged.cut = log.cut
      /\ lost => logged.lost = now /\ logged.lostRtt = rtt
      /\ ~lost => logged = log
      /\ loss /\ log.cut # 0 => logged.signalled - log.cut > logged.signalledRtt
  <2>1. log \in Log /\ now \in Nat /\ lastLossEventT \in Nat /\ rtt \in Nat
    BY AssumptionsHold DEF Inv, TypeOK, Assumptions
  <2>2. ASSUME loss, log.cut # 0
        PROVE  logged.signalled - log.cut > logged.signalledRtt
    <3>1. CASE lossEvent
      BY <2>2, <3>1, LoggedType DEF Inv, PendingIsDue
    <3>2. CASE ~lossEvent
      <4>1. lost /\ Signals(rtt)
        BY <2>2, <3>2
      <4>2. now - log.cut > rtt
        BY <2>1, <4>1, AssumptionsHold DEF Inv, CutWasEvent, Signals, Log, Assumptions
      <4> QED
        BY <3>2, <4>1, <4>2, LoggedType DEF Inv
    <3> QED
      BY <3>1, <3>2
  <2> QED
    BY <2>1, <2>2, LoggedType DEF Inv
<1>4. /\ log' \in Log
      /\ log'.lost = logged.lost /\ log'.lostRtt = logged.lostRtt
      /\ log'.signalled = logged.signalled
      /\ log'.signalledRtt = logged.signalledRtt
      /\ log'.cut = IF loss THEN now ELSE log.cut
  <2>1. now \in 0 .. MaxTime
    BY AssumptionsHold DEF Inv, TypeOK, Assumptions
  <2> HIDE DEF logged, loss
  <2> QED
    BY <1>1, <1>3, <2>1 DEF Log
<1>5. ~loss => ~lossEvent /\ (lost => ~Signals(rtt))
  OBVIOUS
<1>6. loss => event
  OBVIOUS
<1> HIDE DEF loss, ce, event, logged
<1>7. TypeOK'
  <2>1. /\ lossEvent' \in BOOLEAN /\ isNewFrame' \in BOOLEAN
        /\ isCeThisFeedback' \in BOOLEAN /\ isL4s' \in BOOLEAN
    BY <1>1, Zenon DEF Inv, TypeOK
  <2>2. /\ now' \in Start .. MaxTime
        /\ lastLossEventT' \in Start .. now'
        /\ lastCongestionDetectedT' \in 0 .. now'
    BY <1>1, AssumptionsHold DEF Inv, TypeOK, Assumptions
  <2> QED
    BY <1>1, <1>4, <2>1, <2>2 DEF TypeOK
<1>8. EventsReduce'
  BY <1>1, <1>2 DEF Inv, EventsReduce
<1>9. CutWasEvent'
  BY <1>1, <1>4, <1>6, AssumptionsHold DEF Inv, CutWasEvent, TypeOK, Log, Assumptions
<1>10. PendingIsDue'
  <2>1. CASE event
    BY <1>1, <2>1 DEF PendingIsDue
  <2>2. CASE ~event
    <3>1. ~lossEvent
      BY <1>5, <1>6, <2>2
    <3> QED
      BY <1>1, <3>1 DEF PendingIsDue
  <2> QED
    BY <2>1, <2>2
<1>11. LostIsPast'
  <2>1. now \in Nat
    BY AssumptionsHold DEF Inv, TypeOK, Assumptions
  <2>2. logged.lost = now \/ logged.lost = log.lost
    BY <1>3
  <2> QED
    BY <1>1, <1>4, <2>1, <2>2 DEF Inv, LostIsPast
<1>12. LossAnswered'
  <2> SUFFICES ASSUME ~isL4s, log'.lost # 0
               PROVE  \/ lastCongestionDetectedT' >= log'.lost - log'.lostRtt
                      \/ Start >= log'.lost - log'.lostRtt
    BY <1>1 DEF LossAnswered
  <2>1. /\ now \in Nat /\ lastCongestionDetectedT \in Nat /\ Start \in Nat
        /\ lastCongestionDetectedT <= now /\ rtt \in Nat
    BY AssumptionsHold DEF Inv, TypeOK, Assumptions
  <2>2. log'.lost \in Nat /\ log'.lostRtt \in Nat /\ log'.lost <= now
    BY <1>1, <1>4, <1>11, AssumptionsHold DEF LostIsPast, Log, Assumptions
  <2>3. CASE event
    BY <1>1, <2>1, <2>3, <2>2
  <2>4. CASE ~event
    <3>1. ~loss
      BY <1>6, <2>4
    <3>2. CASE lost
      BY <1>1, <1>3, <1>4, <1>5, <2>4, <3>1, <3>2, DeclaredIsAnswered
    <3>3. CASE ~lost
      BY <1>1, <1>3, <1>4, <1>5, <2>4, <3>1, <3>3 DEF Inv, LossAnswered
    <3> QED
      BY <3>2, <3>3
  <2> QED
    BY <2>3, <2>4
<1> QED
  BY <1>3, <1>4, <1>7, <1>8, <1>9, <1>10, <1>11, <1>12 DEF Inv

LEMMA InvStep == Inv /\ [Next]_vars => Inv'
<1> SUFFICES ASSUME Inv, [Next]_vars PROVE Inv'
  OBVIOUS
<1>1. CASE NewMediaFrame
  BY <1>1 DEF NewMediaFrame, Inv, TypeOK, EventsReduce, LossAnswered, CutWasEvent,
     PendingIsDue, LostIsPast
<1>2. CASE Tick
  BY <1>2, AssumptionsHold DEF Tick, Inv, TypeOK, EventsReduce, LossAnswered,
     CutWasEvent, PendingIsDue, LostIsPast, Log, Assumptions
<1>3. CASE \E lost, marked \in BOOLEAN : Elements(lost, marked)
  BY <1>3, ElementsInv
<1>4. CASE \E rtt \in Rtts, lost, marked, queueLong, shrinking, elapsed \in BOOLEAN :
             LastElement(rtt, lost, marked, queueLong, shrinking, elapsed)
  BY <1>4, LastElementInv
<1>5. CASE UNCHANGED vars
  BY <1>5 DEF vars, Inv, TypeOK, EventsReduce, LossAnswered, CutWasEvent,
     PendingIsDue, LostIsPast
<1> QED
  BY <1>1, <1>2, <1>3, <1>4, <1>5 DEF Next

LEMMA InvAlways == Spec => []Inv
  BY InitInv, InvStep, PTL DEF Spec

-----------------------------------------------------------------------------
(* The times of the events never run ahead of the clock, so none of the     *)
(* unsigned differences of detectLoss and the event tests wraps.            *)
THEOREM TypeCorrect == Spec => []TypeOK
<1>1. Inv => TypeOK
  BY DEF Inv
<1> QED
  BY <1>1, InvAlways, PTL

(* Without L4S every lost packet is answered by a reduction of the window   *)
(* less than a round trip time before it, or one that is still to come.     *)
THEOREM LossIsAnswered == Spec => []LossAnswered
<1>1. Inv => LossAnswered
  BY DEF Inv
<1> QED
  BY <1>1, InvAlways, PTL

(* With and without L4S: losses reduce the window once in a round trip      *)
(* time, however many reports declare them.                                 *)
THEOREM LossesReduceOnce == Spec => OneLossReaction
<1>1. Inv /\ [Next]_vars =>
        [log'.cut # log.cut /\ log.cut # 0
           => log'.signalled - log.cut > log'.signalledRtt]_vars
  <2> SUFFICES ASSUME Inv, Next, log'.cut # log.cut, log.cut # 0
               PROVE  log'.signalled - log.cut > log'.signalledRtt
    OBVIOUS
  <2>1. CASE NewMediaFrame \/ Tick
    BY <2>1 DEF NewMediaFrame, Tick
  <2>2. CASE \E lost, marked \in BOOLEAN : Elements(lost, marked)
    <3>1. sRtt \in Rtts
      BY DEF Inv, TypeOK
    <3> QED
      BY <2>2, <3>1, LoggedType DEF Elements, Inv
  <2>3. CASE \E rtt \in Rtts, lost, marked, queueLong, shrinking, elapsed \in BOOLEAN :
               LastElement(rtt, lost, marked, queueLong, shrinking, elapsed)
    BY <2>3, LastElementInv
  <2> QED
    BY <2>1, <2>2, <2>3 DEF Next
<1> QED
  BY <1>1, InvAlways, PTL DEF Spec, OneLossReaction
=============================================================================
