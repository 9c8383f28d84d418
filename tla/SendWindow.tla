------------------------------ MODULE SendWindow ------------------------------
(***************************************************************************)
(* The RTP queue in front of the congestion window: frames are queued, the *)
(* window lets packets go or not, and the queue is discarded when it grows *)
(* old (ScreamV2Tx and its Stream, driven by txLoop of TestSession).  The  *)
(* window is sized in packets of mss bytes, and mss is forgotten once a    *)
(* second so that it can follow a stream of small packets.                 *)
(*                                                                         *)
(* Feedback takes any part of the bytes in flight out, and then updates    *)
(* the window and looks at the age of the queue, or does not; whether it   *)
(* comes at all is not said.  How it computes that is left to TxFlight and *)
(* LossReaction.                                                           *)
(***************************************************************************)
EXTENDS Integers, Sequences, FiniteSetsExt

CONSTANTS
  Full,             \* size of the packets a frame is cut into
  Small,            \* size of what is left of the frame
  kInitMss,
  kMinCwndMss,
  kMssUpdateInterval,
  Rto,              \* silence after which the window is ignored
  maxRtpQueueDelay, kMinRtpQueueDiscardInterval,
  kRtpQueueSize,
  Headrooms,        \* values of windowHeadroom, in halves
  MaxFrame,         \* bound: the packets of a frame
  MaxCwnd,          \* bound: the congestion window
  MaxTime           \* bound: the clock

ASSUME SizesAssumption ==
  /\ kInitMss \in Nat \ {0} /\ kMinCwndMss \in Nat
  /\ Small \in Nat \ {0} /\ Full \in Nat /\ Small <= Full

(* A clock tick, the time of a frame, is not longer than the time between   *)
(* discards.                                                                *)
ASSUME TimesAssumption ==
  /\ maxRtpQueueDelay \in Nat /\ kMinRtpQueueDiscardInterval \in Nat \ {0}
  /\ Rto \in Nat /\ kMssUpdateInterval \in Nat

ASSUME BoundsAssumption ==
  /\ kRtpQueueSize \in Nat \ {0} /\ MaxFrame \in Nat \ {0}
  /\ MaxCwnd \in Nat /\ MaxTime \in Nat \ {0} /\ Headrooms \subseteq Nat

VARIABLES
  now, at,            \* the clock, and where txLoop is
  queue,              \* the RTP queue: sizes, and times they were queued
  frameLeft,          \* packets of the frame that are not queued yet
  refreshing,         \* the queue is cleared while they are queued
  sending,            \* the packet sent and not registered yet
  bytesInFlight, cwnd, cwndMin, mss, prevMss,
  lastMssUpdateT, lastTransmitT, lastRtpQueueDiscardT,
  sentT               \* when a packet of each size was last registered
                      \* (history variable)

frameVars == <<frameLeft, refreshing>>
sizeVars == <<cwnd, cwndMin, mss, prevMss>>
vars == <<now, at, queue, frameVars, sending, bytesInFlight, sizeVars, lastMssUpdateT,
          lastTransmitT, lastRtpQueueDiscardT, sentT>>

Init ==
  /\ now = 1
  /\ at = "frame"
  /\ queue = <<>>
  /\ frameLeft = 0
  /\ refreshing = FALSE
  /\ sending = <<>>
  /\ bytesInFlight = 0
  /\ cwnd = 2 * kInitMss
  /\ cwndMin = 2 * kInitMss
  /\ mss = kInitMss
  /\ prevMss = kInitMss
  /\ lastMssUpdateT = 1
  /\ lastTransmitT = 1
  /\ lastRtpQueueDiscardT = 1
  /\ sentT = [size \in {Full, Small} |-> 0 - kMssUpdateInterval]

-----------------------------------------------------------------------------
(* generateFrame: the packets of a frame, queued in one critical section. *)

getMss(st) == Max({st.mss, st.prevMss})

(* Mutant: the window is left as it is. *)
MutGrown(st, size, factor) ==
  LET grown == [st EXCEPT !.mss = Max({@, size})]
  IN  [grown EXCEPT !.cwndMin = factor * getMss(grown)]

(* mss is at least size, and the window at least factor packets of it. *)
Grown(st, size, factor) ==
  LET grown == [st EXCEPT !.mss = Max({@, size})]
      least == factor * getMss(grown)
  IN  [grown EXCEPT !.cwndMin = least, !.cwnd = Max({@, least})]

(* Stream::updateTargetBitrate: a queue whose head waited for too long is   *)
(* cleared, but not again too soon.                                         *)
TooOld(waiting, discardT) ==
  /\ waiting # <<>>
  /\ now - Head(waiting).at > maxRtpQueueDelay
  /\ now - discardT > kMinRtpQueueDiscardInterval

UpdateTargetBitrate(st) ==
  IF TooOld(st.queue, st.discardT) THEN [st EXCEPT !.queue = <<>>, !.discardT = now]
                                   ELSE st

(* enqueueRtp and newMediaFrame.  A full queue refuses the packet, and then *)
(* newMediaFrame is not called.  refresh: the queue is cleared to measure   *)
(* the base delay.                                                          *)
Packet(st, size, refresh) ==
  LET queued  == [st EXCEPT !.queue = Append(@, [size |-> size, at |-> now])]
      updated == UpdateTargetBitrate(queued)
  IN  IF Len(st.queue) = kRtpQueueSize THEN st
      ELSE IF refresh THEN [updated EXCEPT !.queue = <<>>]
      ELSE IF updated.queue = <<>> THEN Grown(updated, -1, 2)
      ELSE Grown(updated, Head(updated.queue).size, 2)

TxState == [queue |-> queue, discardT |-> lastRtpQueueDiscardT, cwnd |-> cwnd,
            cwndMin |-> cwndMin, mss |-> mss, prevMss |-> prevMss]

(* A packet of the frame, left to follow it.  All are full but the last,    *)
(* which is the rest; a frame is never shorter than a packet.               *)
GenerateFrame(size, left, refresh) ==
  /\ \/ at = "frame" /\ size = Full
     \/ /\ at = "queueing" /\ left = frameLeft - 1 /\ refresh = refreshing
        /\ left = 0 \/ size = Full
  /\ at' = IF left = 0 THEN "pump" ELSE "queueing"
  /\ frameLeft' = left
  /\ refreshing' = (left # 0 /\ refresh)
  /\ LET st == Packet(TxState, size, refresh)
     IN  /\ queue' = st.queue
         /\ lastRtpQueueDiscardT' = st.discardT
         /\ cwnd' = st.cwnd /\ cwndMin' = st.cwndMin
         /\ mss' = st.mss /\ prevMss' = st.prevMss
  /\ UNCHANGED <<now, sending, bytesInFlight, lastMssUpdateT, lastTransmitT, sentT>>

-----------------------------------------------------------------------------
(* pump: isOkToTransmit and dequeueRtp in one critical section, sendto, and *)
(* addTransmitted in another.                                               *)

(* Mutant: mss is reset before it is kept. *)
MutRefreshedMss ==
  IF now - lastMssUpdateT > kMssUpdateInterval
    THEN Grown([TxState EXCEPT !.prevMss = kInitMss, !.mss = kInitMss], 0,
               kMinCwndMss)
    ELSE TxState

(* isOkToTransmit: after a while mss is reset; the one before is kept. *)
RefreshedMss ==
  IF now - lastMssUpdateT > kMssUpdateInterval
    THEN Grown([TxState EXCEPT !.prevMss = mss, !.mss = kInitMss], 0, kMinCwndMss)
    ELSE TxState

WindowAllows(st, size, headroom) ==
  2 * (bytesInFlight + size) <= headroom * st.cwnd + 2 * getMss(st)

(* Mutant: the timeout only while nothing is in flight. *)
MutTimedOut == bytesInFlight = 0 /\ now - lastTransmitT > Rto

TimedOut == now - lastTransmitT > Rto

(* The head of the queue goes: the window allows it, and pacing, or a       *)
(* timeout forgets what is in flight and overrides both.                    *)
Dequeue(headroom) ==
  /\ at = "pump"
  /\ queue # <<>>
  /\ TimedOut \/ WindowAllows(RefreshedMss, Head(queue).size, headroom)
  /\ at' = "sent"
  /\ sending' = <<Head(queue)>>
  /\ queue' = Tail(queue)
  /\ bytesInFlight' = IF TimedOut THEN 0 ELSE bytesInFlight
  /\ cwnd' = RefreshedMss.cwnd /\ cwndMin' = RefreshedMss.cwndMin
  /\ mss' = RefreshedMss.mss /\ prevMss' = RefreshedMss.prevMss
  /\ lastMssUpdateT' = IF now - lastMssUpdateT > kMssUpdateInterval
                         THEN now ELSE lastMssUpdateT
  /\ UNCHANGED <<now, frameVars, lastTransmitT, lastRtpQueueDiscardT, sentT>>

(* Nothing is queued, or the head has to wait for the window or for pacing. *)
(* The only stream is prioritized whether it has packets or not, so that    *)
(* mss is reset all the same.                                               *)
NotOk ==
  /\ at = "pump"
  /\ queue = <<>> \/ ~TimedOut
  /\ at' = "wait"
  /\ cwnd' = RefreshedMss.cwnd /\ cwndMin' = RefreshedMss.cwndMin
  /\ mss' = RefreshedMss.mss /\ prevMss' = RefreshedMss.prevMss
  /\ lastMssUpdateT' = IF now - lastMssUpdateT > kMssUpdateInterval
                         THEN now ELSE lastMssUpdateT
  /\ UNCHANGED <<now, queue, frameVars, sending, bytesInFlight, lastTransmitT,
                 lastRtpQueueDiscardT, sentT>>

AddTransmitted ==
  /\ at = "sent"
  /\ at' = "pump"
  /\ sending' = <<>>
  /\ bytesInFlight' = bytesInFlight + sending[1].size
  /\ lastTransmitT' = now
  /\ sentT' = [sentT EXCEPT ![sending[1].size] = now]
  /\ LET st == Grown(TxState, sending[1].size, 2)
     IN  cwnd' = st.cwnd /\ cwndMin' = st.cwndMin /\ mss' = st.mss
  /\ UNCHANGED <<now, queue, frameVars, prevMss, lastMssUpdateT,
                 lastRtpQueueDiscardT>>

-----------------------------------------------------------------------------
(* incomingFeedback of the other thread, at any point of txLoop that is not *)
(* in its critical section.                                                 *)

(* updateCwnd: any window that is not below cwndMin. *)
UpdateCwnd(window) == window >= cwndMin /\ cwnd' = window

(* The packets of a report are taken out of flight.  The window and the     *)
(* queue are updated after the last of them only, and only when a round     *)
(* trip has passed, on a loss or a CE mark, or after a new frame: none of   *)
(* which is followed here, so the update may come or not.                   *)
Feedback(bytes, window) ==
  /\ at # "queueing"
  /\ bytes <= bytesInFlight
  /\ bytesInFlight' = bytes
  /\ \/ UNCHANGED <<cwnd, queue, lastRtpQueueDiscardT>>
     \/ /\ UpdateCwnd(window)
        /\ LET st == UpdateTargetBitrate(TxState)
           IN  queue' = st.queue /\ lastRtpQueueDiscardT' = st.discardT
  /\ UNCHANGED <<now, at, frameVars, sending, cwndMin, mss, prevMss, lastMssUpdateT,
                 lastTransmitT, sentT>>

(* txLoop sleeps: its next turn comes before a frame is due, or with it. *)
Turn ==
  /\ at = "wait"
  /\ at' = "pump"
  /\ UNCHANGED <<now, queue, frameVars, sending, bytesInFlight, sizeVars,
                 lastMssUpdateT, lastTransmitT, lastRtpQueueDiscardT, sentT>>

Tick ==
  /\ at = "wait"
  /\ now < MaxTime
  /\ now' = now + 1
  /\ at' = "frame"
  /\ UNCHANGED <<queue, frameVars, sending, bytesInFlight, sizeVars, lastMssUpdateT,
                 lastTransmitT, lastRtpQueueDiscardT, sentT>>

Next ==
  \/ \E size \in {Full, Small}, left \in 0 .. MaxFrame - 1, refresh \in BOOLEAN :
        GenerateFrame(size, left, refresh)
  \/ \E headroom \in Headrooms : Dequeue(headroom)
  \/ NotOk
  \/ AddTransmitted
  \/ \E bytes \in {0, bytesInFlight}, window \in {cwndMin, MaxCwnd} :
        Feedback(bytes, window)
  \/ Turn
  \/ Tick

Spec == Init /\ [][Next]_vars

-----------------------------------------------------------------------------
TypeOK ==
  /\ now \in 1 .. MaxTime
  /\ at \in {"frame", "queueing", "pump", "sent", "wait"}
  /\ queue \in Seq([size : {Full, Small}, at : 1 .. now])
  /\ Len(queue) <= kRtpQueueSize
  /\ frameLeft \in IF at = "queueing" THEN 1 .. MaxFrame - 1 ELSE {0}
  /\ refreshing \in BOOLEAN
  /\ sending \in Seq([size : {Full, Small}, at : 1 .. now])
  /\ Len(sending) = IF at = "sent" THEN 1 ELSE 0
  /\ {bytesInFlight, cwndMin, mss, prevMss} \subseteq Nat
  /\ cwnd \in Nat /\ cwnd >= cwndMin
  /\ {lastMssUpdateT, lastTransmitT, lastRtpQueueDiscardT} \subseteq 1 .. now
  /\ sentT \in [{Full, Small} -> Int]

(* With nothing in flight the window lets the packet at the head go that is *)
(* no larger than one sent within the update interval: whenever mss is      *)
(* reset, and whatever the queue discards, a size in use is not forgotten   *)
(* and waits for no timeout.                                                *)
InUse(size) ==
  \E s \in {Full, Small} : size <= s /\ now - sentT[s] <= kMssUpdateInterval

WindowAdmitsOne ==
  at = "pump" /\ bytesInFlight = 0 /\ queue # <<>> /\ InUse(Head(queue).size) =>
    \A headroom \in Headrooms :
       WindowAllows(RefreshedMss, Head(queue).size, headroom)

(* No packet is queued for longer than the larger of maxRtpQueueDelay and   *)
(* the discard interval, and then the timeout and a frame.  The comment at  *)
(* ScreamTx.h:242 promises less, "how long RTP packets can be held in       *)
(* buffer before entire buffer is cleared", and packets do wait longer than *)
(* maxRtpQueueDelay: their age is looked at only when a packet is accepted  *)
(* or feedback has its update due, and not again within the discard         *)
(* interval.  A full queue accepts none, and without feedback only the      *)
(* timeout makes room.                                                      *)
WaitIsBounded ==
  \A i \in 1 .. Len(queue) :
    now - queue[i].at <=
      Max({maxRtpQueueDelay, kMinRtpQueueDiscardInterval}) + Rto + 1
=============================================================================
