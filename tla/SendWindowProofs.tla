--------------------------- MODULE SendWindowProofs ---------------------------
(***************************************************************************)
(* Proofs about SendWindow, for any sizes, intervals, queue length and     *)
(* number of packets per frame: its types, the window that is never less   *)
(* than its minimum among them, that it never shuts out a packet of a size *)
(* in use, and the longest time a packet is queued.                        *)
(***************************************************************************)
EXTENDS SendWindow, TLAPS

LEMMA MaxOfTwo ==
  \A a, b \in Int : /\ Max({a, b}) \in {a, b}
                    /\ Max({a, b}) >= a /\ Max({a, b}) >= b
<1> SUFFICES ASSUME NEW a \in Int, NEW b \in Int
             PROVE  /\ Max({a, b}) \in {a, b}
                    /\ Max({a, b}) >= a /\ Max({a, b}) >= b
  OBVIOUS
<1>1. \E x \in {a, b} : \A y \in {a, b} : x >= y
  <2>1. CASE a >= b
    BY <2>1
  <2>2. CASE b >= a
    BY <2>2
  <2> QED
    BY <2>1, <2>2
<1> QED
  BY <1>1 DEF Max

-----------------------------------------------------------------------------
(* What the parts of a critical section make of the sizes and the queue. *)

States(Q, T) == [queue : Q, discardT : T, cwnd : Nat,
                 cwndMin : Nat, mss : Nat, prevMss : Nat]

Queued(n) == [size : {Full, Small}, at : 1 .. n]

TxStates == States(Seq(Queued(now)), 1 .. now)

LEMMA TxStateType ==
  TypeOK => /\ TxState \in TxStates
            /\ TxState.queue = queue /\ TxState.discardT = lastRtpQueueDiscardT
            /\ TxState.cwnd = cwnd /\ TxState.cwndMin = cwndMin
            /\ TxState.mss = mss /\ TxState.prevMss = prevMss
BY DEF TypeOK, TxState, TxStates, States, Queued

LEMMA GrownType ==
  ASSUME NEW Q, NEW T, NEW st \in States(Q, T), NEW size \in Int, NEW factor \in Nat
  PROVE  LET g == Grown(st, size, factor)
         IN  /\ g \in States(Q, T)
             /\ g.cwnd >= g.cwndMin
             /\ g.queue = st.queue /\ g.discardT = st.discardT
             /\ g.mss >= st.mss /\ g.mss >= size /\ g.prevMss = st.prevMss
<1> DEFINE m == Max({st.mss, size})
           grown == [st EXCEPT !.mss = m]
           least == factor * getMss(grown)
           w == Max({st.cwnd, least})
           g == [grown EXCEPT !.cwndMin = least, !.cwnd = w]
<1>1. st.mss \in Nat /\ st.cwnd \in Nat /\ st.prevMss \in Nat
  BY DEF States
<1>2. m \in Nat /\ m >= st.mss /\ m >= size
  <2>1. st.mss \in Int
    BY <1>1
  <2>2. m \in {st.mss, size} /\ m >= st.mss /\ m >= size
    BY <2>1, MaxOfTwo, Zenon DEF m
  <2> QED
    BY <1>1, <2>2
<1>3. Grown(st, size, factor) = g
  <2>1. grown.cwnd = st.cwnd /\ [st EXCEPT !.mss = Max({@, size})] = grown
    BY DEF States
  <2> QED
    BY <2>1 DEF Grown
<1> HIDE DEF m
<1>4. grown \in States(Q, T)
  BY <1>2 DEF States
<1>5. /\ grown.mss = m /\ grown.prevMss = st.prevMss
      /\ grown.queue = st.queue /\ grown.discardT = st.discardT
  BY <1>2 DEF States
<1>6. getMss(grown) \in Nat
  <2>1. m \in Int /\ st.prevMss \in Int
    BY <1>1, <1>2
  <2>2. getMss(grown) \in {m, st.prevMss}
    BY <1>5, <2>1, MaxOfTwo, Zenon DEF getMss
  <2> QED
    BY <1>1, <1>2, <2>2
<1>7. least \in Nat
  BY <1>6
<1> HIDE DEF grown, least
<1>8. w \in Nat /\ w >= least
  <2>1. st.cwnd \in Int /\ least \in Int
    BY <1>1, <1>7
  <2>2. w \in {st.cwnd, least} /\ w >= least
    BY <2>1, MaxOfTwo, Zenon DEF w
  <2> QED
    BY <1>1, <1>7, <2>2
<1> HIDE DEF w
<1>9. g \in States(Q, T)
  BY <1>4, <1>7, <1>8 DEF States
<1>10. /\ g.cwnd = w /\ g.cwndMin = least /\ g.queue = grown.queue
       /\ g.discardT = grown.discardT /\ g.prevMss = grown.prevMss
       /\ g.mss = grown.mss
  BY <1>4 DEF States
<1> HIDE DEF g
<1> QED
  BY <1>2, <1>3, <1>5, <1>8, <1>9, <1>10

(* A clearing leaves the sizes alone, and a queue stays only if its head is *)
(* young or the last clearing recent.                                       *)
LEMMA UpdateType ==
  ASSUME NEW Q, NEW T, NEW st \in States(Q, T), <<>> \in Q, now \in T
  PROVE  LET u == UpdateTargetBitrate(st)
         IN  /\ u \in States(Q, T)
             /\ \/ u = st /\ ~TooOld(st.queue, st.discardT)
                \/ u.queue = <<>> /\ u.discardT = now
             /\ u.cwnd = st.cwnd /\ u.cwndMin = st.cwndMin
             /\ u.mss = st.mss /\ u.prevMss = st.prevMss
<1> DEFINE c == [st EXCEPT !.queue = <<>>, !.discardT = now]
<1>1. CASE TooOld(st.queue, st.discardT)
  <2>1. UpdateTargetBitrate(st) = c
    BY <1>1 DEF UpdateTargetBitrate
  <2>2. c \in States(Q, T)
    BY DEF States
  <2>3. c.queue = <<>> /\ c.discardT = now /\ c.cwnd = st.cwnd
        /\ c.cwndMin = st.cwndMin /\ c.mss = st.mss /\ c.prevMss = st.prevMss
    BY DEF States
  <2> QED
    BY <2>1, <2>2, <2>3
<1>2. CASE ~TooOld(st.queue, st.discardT)
  BY <1>2 DEF UpdateTargetBitrate
<1> QED
  BY <1>1, <1>2

(* A packet that is refused changes nothing. *)
LEMMA PacketType ==
  ASSUME TypeOK, NEW size \in {Full, Small}, NEW refresh \in BOOLEAN
  PROVE  LET p == Packet(TxState, size, refresh)
             longer == Append(queue, [size |-> size, at |-> now])
         IN  /\ p \in TxStates
             /\ p.cwnd >= p.cwndMin
             /\ p.mss >= mss /\ p.prevMss = prevMss
             /\ Len(queue) = kRtpQueueSize =>
                  p.queue = queue /\ p.discardT = lastRtpQueueDiscardT
             /\ Len(queue) # kRtpQueueSize =>
                  \/ /\ p.queue = longer /\ p.discardT = lastRtpQueueDiscardT
                     /\ ~TooOld(longer, lastRtpQueueDiscardT)
                  \/ p.queue = <<>> /\ p.discardT \in {lastRtpQueueDiscardT, now}
<1> DEFINE longer == Append(queue, [size |-> size, at |-> now])
           queued == [TxState EXCEPT !.queue = longer]
           updated == UpdateTargetBitrate(queued)
           p == Packet(TxState, size, refresh)
<1>1. /\ TxState \in TxStates /\ TxState.queue = queue
      /\ TxState.discardT = lastRtpQueueDiscardT
      /\ TxState.cwnd >= TxState.cwndMin /\ now \in 1 .. now
      /\ TxState.mss = mss /\ TxState.prevMss = prevMss /\ mss \in Nat
  BY TxStateType DEF TypeOK
<1>2. longer \in Seq(Queued(now)) /\ longer # <<>>
  <2> DEFINE E == Queued(now)
             e == [size |-> size, at |-> now]
  <2>1. queue \in Seq(E) /\ e \in E
    BY DEF TypeOK, Queued
  <2> HIDE DEF E, e
  <2>2. Append(queue, e) \in Seq(E) /\ Append(queue, e) # <<>>
    BY <2>1
  <2> QED
    BY <2>2 DEF E, e
<1>3. p = IF Len(queue) = kRtpQueueSize THEN TxState
          ELSE IF refresh THEN [updated EXCEPT !.queue = <<>>]
          ELSE IF updated.queue = <<>> THEN Grown(updated, -1, 2)
          ELSE Grown(updated, Head(updated.queue).size, 2)
  <2>1. [TxState EXCEPT !.queue = Append(@, [size |-> size, at |-> now])] = queued
    BY <1>1 DEF TxStates, States
  <2> QED
    BY <1>1, <2>1 DEF Packet
<1> DEFINE Q == Seq(Queued(now))
           T == 1 .. now
<1>4. TxState \in States(Q, T) /\ longer \in Q /\ now \in T /\ <<>> \in Q
  BY <1>1, <1>2 DEF TxStates
<1>5. SUFFICES /\ p \in States(Q, T)
               /\ p.cwnd >= p.cwndMin
               /\ p.mss >= mss /\ p.prevMss = prevMss
               /\ Len(queue) = kRtpQueueSize =>
                    p.queue = queue /\ p.discardT = lastRtpQueueDiscardT
               /\ Len(queue) # kRtpQueueSize =>
                    \/ /\ p.queue = longer /\ p.discardT = lastRtpQueueDiscardT
                       /\ ~TooOld(longer, lastRtpQueueDiscardT)
                    \/ p.queue = <<>> /\ p.discardT \in {lastRtpQueueDiscardT, now}
  BY DEF TxStates
<1>6. \A u \in States(Q, T) : u.queue # <<>> => Head(u.queue).size \in Int
  <2> SUFFICES ASSUME NEW u \in States(Q, T), u.queue # <<>>
               PROVE  Head(u.queue).size \in Int
    OBVIOUS
  <2> DEFINE E == Queued(now)
  <2>1. \A e \in E : e.size \in Int
    BY SizesAssumption DEF Queued
  <2> HIDE DEF E
  <2>2. u.queue \in Seq(E)
    BY DEF States, Q, E
  <2>3. Head(u.queue) \in E
    BY <2>2
  <2> QED
    BY <2>1, <2>3
<1> HIDE DEF longer, p, Q, T
<1>7. queued \in States(Q, T)
  BY <1>4 DEF States
<1>8. queued.cwnd = TxState.cwnd /\ queued.cwndMin = TxState.cwndMin
      /\ queued.queue = longer /\ queued.discardT = lastRtpQueueDiscardT
      /\ queued.mss = mss /\ queued.prevMss = prevMss
  BY <1>1, <1>4 DEF States
<1> HIDE DEF queued
<1>9. /\ updated \in States(Q, T)
      /\ \/ updated = queued /\ ~TooOld(longer, lastRtpQueueDiscardT)
         \/ updated.queue = <<>> /\ updated.discardT = now
      /\ updated.cwnd >= updated.cwndMin
      /\ updated.mss = mss /\ updated.prevMss = prevMss
  BY <1>1, <1>4, <1>7, <1>8, UpdateType
<1> HIDE DEF updated
<1>10. CASE Len(queue) = kRtpQueueSize
  BY <1>1, <1>3, <1>4, <1>10
<1>11. CASE Len(queue) # kRtpQueueSize /\ refresh
  <2>1. p = [updated EXCEPT !.queue = <<>>]
    BY <1>3, <1>11
  <2>2. p \in States(Q, T)
    BY <1>4, <1>9, <2>1 DEF States
  <2>3. p.cwnd = updated.cwnd /\ p.cwndMin = updated.cwndMin
        /\ p.queue = <<>> /\ p.discardT = updated.discardT
        /\ p.mss = updated.mss /\ p.prevMss = updated.prevMss
    BY <1>4, <1>9, <2>1 DEF States
  <2> QED
    BY <1>1, <1>8, <1>9, <1>11, <2>2, <2>3
<1>12. CASE Len(queue) # kRtpQueueSize /\ ~refresh
  <2>1. \E n \in Int : p = Grown(updated, n, 2)
    BY <1>3, <1>6, <1>9, <1>12
  <2>2. /\ p \in States(Q, T) /\ p.cwnd >= p.cwndMin
        /\ p.queue = updated.queue /\ p.discardT = updated.discardT
        /\ p.mss >= updated.mss /\ p.prevMss = updated.prevMss
    BY <1>9, <2>1, GrownType
  <2> QED
    BY <1>8, <1>9, <1>12, <2>2
<1> QED
  BY <1>10, <1>11, <1>12

(* mss is reset when its time has come, and then the one before is kept. *)
Resets == now - lastMssUpdateT > kMssUpdateInterval

LEMMA RefreshedType ==
  ASSUME TypeOK
  PROVE  /\ RefreshedMss \in TxStates
         /\ RefreshedMss.cwnd >= RefreshedMss.cwndMin
         /\ ~Resets => RefreshedMss.mss = mss /\ RefreshedMss.prevMss = prevMss
         /\ Resets => RefreshedMss.prevMss = mss
<1> DEFINE Q == Seq(Queued(now))
           T == 1 .. now
           forgotten == [TxState EXCEPT !.prevMss = mss, !.mss = kInitMss]
<1>1. TxState \in States(Q, T) /\ TxState.cwnd >= TxState.cwndMin
      /\ mss \in Nat /\ kInitMss \in Nat /\ kMinCwndMss \in Nat
  BY TxStateType, SizesAssumption DEF TypeOK, TxStates
<1> HIDE DEF Q, T
<1>2. forgotten \in States(Q, T) /\ forgotten.prevMss = mss
  BY <1>1 DEF States
<1> HIDE DEF forgotten
<1>3. /\ Grown(forgotten, 0, kMinCwndMss) \in States(Q, T)
      /\ Grown(forgotten, 0, kMinCwndMss).cwnd
           >= Grown(forgotten, 0, kMinCwndMss).cwndMin
      /\ Grown(forgotten, 0, kMinCwndMss).prevMss = mss
  BY <1>1, <1>2, GrownType
<1>4. CASE Resets
  <2>1. RefreshedMss = Grown(forgotten, 0, kMinCwndMss)
    BY <1>4 DEF RefreshedMss, forgotten, Resets
  <2> QED
    BY <1>3, <1>4, <2>1 DEF TxStates, Q, T
<1>5. CASE ~Resets
  <2>1. RefreshedMss = TxState
    BY <1>5 DEF RefreshedMss, Resets
  <2> QED
    BY <1>1, <1>5, <2>1, TxStateType DEF TxStates, Q, T
<1> QED
  BY <1>4, <1>5

-----------------------------------------------------------------------------
(* The types, for any constants. *)

LEMMA InitTypeOK == Init => TypeOK
<1> SUFFICES ASSUME Init PROVE TypeOK
  OBVIOUS
<1>1. {bytesInFlight, cwndMin, mss, prevMss} \subseteq Nat
      /\ cwnd \in Nat /\ cwnd >= cwndMin
  BY SizesAssumption DEF Init
<1>2. /\ queue \in Seq([size : {Full, Small}, at : 1 .. now])
      /\ sending \in Seq([size : {Full, Small}, at : 1 .. now])
      /\ Len(queue) = 0 /\ Len(sending) = 0
  BY DEF Init
<1>3. /\ now \in 1 .. MaxTime /\ 0 <= kRtpQueueSize
      /\ {lastMssUpdateT, lastTransmitT, lastRtpQueueDiscardT} \subseteq 1 .. now
  BY BoundsAssumption DEF Init
<1>4. sentT \in [{Full, Small} -> Int]
  BY TimesAssumption DEF Init
<1> QED
  BY <1>1, <1>2, <1>3, <1>4 DEF Init, TypeOK

LEMMA FrameTypeOK ==
  ASSUME TypeOK, NEW size \in {Full, Small}, NEW left \in 0 .. MaxFrame - 1,
         NEW refresh \in BOOLEAN, GenerateFrame(size, left, refresh)
  PROVE  TypeOK'
<1> DEFINE st == Packet(TxState, size, refresh)
<1>1. /\ st \in TxStates /\ st.cwnd >= st.cwndMin
      /\ st.queue \in {queue, <<>>} \/ Len(queue) # kRtpQueueSize
      /\ st.queue \in {queue, <<>>, Append(queue, [size |-> size, at |-> now])}
  BY PacketType
<1>2. /\ queue' = st.queue /\ lastRtpQueueDiscardT' = st.discardT
      /\ cwnd' = st.cwnd /\ cwndMin' = st.cwndMin
      /\ mss' = st.mss /\ prevMss' = st.prevMss
  BY DEF GenerateFrame
<1> HIDE DEF st
<1>3. /\ queue' \in Seq(Queued(now)) /\ cwnd' \in Nat /\ cwnd' >= cwndMin'
      /\ {cwndMin', mss', prevMss'} \subseteq Nat
      /\ lastRtpQueueDiscardT' \in 1 .. now
  BY <1>1, <1>2 DEF TxStates, States
<1>4. Len(queue') <= kRtpQueueSize
  <2>1. Len(Append(queue, [size |-> size, at |-> now])) = Len(queue) + 1
    BY DEF TypeOK
  <2> QED
    BY <1>1, <1>2, <2>1, BoundsAssumption DEF TypeOK
<1>5. frameLeft' \in IF at' = "queueing" THEN 1 .. MaxFrame - 1 ELSE {0}
  BY BoundsAssumption DEF GenerateFrame, TypeOK
<1> QED
  BY <1>3, <1>4, <1>5 DEF GenerateFrame, TypeOK, Queued

(* Where isOkToTransmit leaves the sizes. *)
LEMMA SizesRefreshed ==
  ASSUME TypeOK, cwnd' = RefreshedMss.cwnd, cwndMin' = RefreshedMss.cwndMin,
         mss' = RefreshedMss.mss, prevMss' = RefreshedMss.prevMss
  PROVE  {cwndMin', mss', prevMss'} \subseteq Nat /\ cwnd' \in Nat
         /\ cwnd' >= cwndMin'
BY RefreshedType DEF TxStates, States

LEMMA DequeueTypeOK ==
  ASSUME TypeOK, NEW headroom, Dequeue(headroom) PROVE TypeOK'
<1> DEFINE E == [size : {Full, Small}, at : 1 .. now]
<1>1. /\ at' = "sent" /\ queue # <<>> /\ queue \in Seq(E)
      /\ sending' = <<Head(queue)>> /\ queue' = Tail(queue)
      /\ UNCHANGED <<now, frameVars, lastTransmitT, lastRtpQueueDiscardT, sentT>>
  BY DEF Dequeue, TypeOK
<1>2. {cwndMin', mss', prevMss'} \subseteq Nat /\ cwnd' \in Nat /\ cwnd' >= cwndMin'
  BY SizesRefreshed DEF Dequeue
<1> HIDE DEF E
<1>3. /\ queue' \in Seq(E) /\ sending' \in Seq(E) /\ Len(sending') = 1
      /\ Len(queue') = Len(queue) - 1 /\ Len(queue) \in Nat
  BY <1>1
<1>4. bytesInFlight' \in Nat /\ lastMssUpdateT' \in 1 .. now
      /\ at = "pump" /\ frameLeft = 0
  BY DEF Dequeue, TypeOK
<1>5. Len(queue') <= kRtpQueueSize
  BY <1>3, BoundsAssumption DEF TypeOK
<1>6. /\ now \in 1 .. MaxTime /\ refreshing \in BOOLEAN
      /\ {lastTransmitT, lastRtpQueueDiscardT} \subseteq 1 .. now
      /\ sentT \in [{Full, Small} -> Int]
  BY DEF TypeOK
<1> HIDE DEF TypeOK
<1>7. /\ now' \in 1 .. MaxTime /\ refreshing' \in BOOLEAN /\ frameLeft' = 0
      /\ {lastMssUpdateT', lastTransmitT', lastRtpQueueDiscardT'} \subseteq 1 .. now'
      /\ sentT' \in [{Full, Small} -> Int]
  BY <1>1, <1>4, <1>6 DEF frameVars
<1>8. queue' \in Seq([size : {Full, Small}, at : 1 .. now'])
      /\ sending' \in Seq([size : {Full, Small}, at : 1 .. now'])
  BY <1>1, <1>3 DEF E
<1> QED
  BY <1>1, <1>2, <1>3, <1>4, <1>5, <1>7, <1>8 DEF TypeOK

LEMMA NotOkTypeOK == TypeOK /\ NotOk => TypeOK'
<1> SUFFICES ASSUME TypeOK, NotOk PROVE TypeOK'
  OBVIOUS
<1>1. {cwndMin', mss', prevMss'} \subseteq Nat /\ cwnd' \in Nat /\ cwnd' >= cwndMin'
  BY SizesRefreshed DEF NotOk
<1>2. lastMssUpdateT' \in 1 .. now
  BY DEF NotOk, TypeOK
<1> QED
  BY <1>1, <1>2 DEF NotOk, TypeOK, frameVars

LEMMA AddTransmittedTypeOK == TypeOK /\ AddTransmitted => TypeOK'
<1> SUFFICES ASSUME TypeOK, AddTransmitted PROVE TypeOK'
  OBVIOUS
<1> DEFINE E == [size : {Full, Small}, at : 1 .. now]
           st == Grown(TxState, sending[1].size, 2)
<1>1. sending[1].size \in Nat
  <2>1. sending \in Seq(E) /\ Len(sending) = 1
    BY DEF AddTransmitted, TypeOK
  <2>2. \A e \in E : e.size \in Nat
    BY SizesAssumption
  <2> HIDE DEF E
  <2>3. sending[1] \in E
    BY <2>1
  <2> QED
    BY <2>2, <2>3
<1>2. cwnd' = st.cwnd /\ cwndMin' = st.cwndMin /\ mss' = st.mss
  BY DEF AddTransmitted
<1>3. st \in States(Seq(Queued(now)), 1 .. now) /\ st.cwnd >= st.cwndMin
  BY <1>1, GrownType, TxStateType DEF TxStates
<1> HIDE DEF st
<1>4. {cwndMin', mss'} \subseteq Nat /\ cwnd' \in Nat /\ cwnd' >= cwndMin'
  BY <1>2, <1>3 DEF States
<1>5. bytesInFlight' \in Nat
  BY <1>1 DEF AddTransmitted, TypeOK
<1>6. sending' = <<>> /\ sending' \in Seq(E) /\ Len(sending') = 0
  BY DEF AddTransmitted
<1>7. now \in 1 .. now
  BY DEF TypeOK
<1>8. sentT' \in [{Full, Small} -> Int]
  <2>1. /\ sentT \in [{Full, Small} -> Int] /\ now \in Int
        /\ sentT' = [sentT EXCEPT ![sending[1].size] = now]
    BY DEF AddTransmitted, TypeOK
  <2> QED
    BY <2>1
<1> QED
  BY <1>4, <1>5, <1>6, <1>7, <1>8 DEF AddTransmitted, TypeOK, frameVars

LEMMA FeedbackTypeOK ==
  ASSUME TypeOK, NEW bytes \in {0, bytesInFlight}, NEW window \in {cwndMin, MaxCwnd},
         Feedback(bytes, window)
  PROVE  TypeOK'
<1> DEFINE st == UpdateTargetBitrate(TxState)
           Q == Seq(Queued(now))
           T == 1 .. now
<1>1. TxState \in States(Q, T) /\ now \in T /\ <<>> \in Q
  BY TxStateType DEF TypeOK, TxStates
<1>2. TxState.queue = queue
  BY TxStateType
<1> HIDE DEF Q, T
<1>3. st \in States(Q, T) /\ st.queue \in {queue, <<>>}
  BY <1>1, <1>2, UpdateType
<1>4. \/ UNCHANGED <<queue, lastRtpQueueDiscardT>>
      \/ queue' = st.queue /\ lastRtpQueueDiscardT' = st.discardT
  BY DEF Feedback
<1> HIDE DEF st
<1>5. queue' \in Q /\ queue' \in {queue, <<>>} /\ lastRtpQueueDiscardT' \in T
  BY <1>1, <1>2, <1>3, <1>4, TxStateType DEF States
<1>6. Len(queue') <= kRtpQueueSize
  BY <1>5, BoundsAssumption DEF TypeOK
<1>7. bytesInFlight' \in Nat /\ cwnd' \in Nat /\ cwnd' >= cwndMin
  BY BoundsAssumption DEF Feedback, UpdateCwnd, TypeOK
<1> QED
  BY <1>5, <1>6, <1>7 DEF Feedback, TypeOK, Queued, Q, T, frameVars

(* What was queued before now was queued before any later time. *)
LEMMA TickTypeOK == TypeOK /\ Tick => TypeOK'
<1> SUFFICES ASSUME TypeOK, Tick PROVE TypeOK'
  OBVIOUS
<1>1. now' \in 1 .. MaxTime /\ 1 .. now \subseteq 1 .. now'
  BY BoundsAssumption DEF Tick, TypeOK
<1>2. [size : {Full, Small}, at : 1 .. now] \subseteq [size : {Full, Small}, at : 1 .. now']
  BY <1>1
<1>3. ASSUME NEW S, NEW T, S \subseteq T, NEW q \in Seq(S) PROVE q \in Seq(T)
  BY <1>3
<1> DEFINE S == [size : {Full, Small}, at : 1 .. now]
           T == [size : {Full, Small}, at : 1 .. now']
<1>4. queue' \in Seq(T) /\ sending' \in Seq(T)
  <2>1. queue \in Seq(S) /\ sending \in Seq(S) /\ queue' = queue /\ sending' = sending
    BY DEF Tick, TypeOK
  <2>2. S \subseteq T
    BY <1>2
  <2> HIDE DEF S, T
  <2> QED
    BY <1>3, <2>1, <2>2
<1>5. {lastMssUpdateT', lastTransmitT', lastRtpQueueDiscardT'} \subseteq 1 .. now'
  BY <1>1 DEF Tick, TypeOK
<1> QED
  BY <1>1, <1>4, <1>5 DEF Tick, TypeOK, sizeVars, frameVars

LEMMA TurnTypeOK == TypeOK /\ Turn => TypeOK'
BY DEF Turn, TypeOK, sizeVars, frameVars

LEMMA NextTypeOK == TypeOK /\ [Next]_vars => TypeOK'
<1> SUFFICES ASSUME TypeOK, [Next]_vars PROVE TypeOK'
  OBVIOUS
<1>1. CASE UNCHANGED vars
  BY <1>1 DEF vars, frameVars, sizeVars, TypeOK
<1> QED
  BY <1>1, FrameTypeOK, DequeueTypeOK, NotOkTypeOK, AddTransmittedTypeOK,
     FeedbackTypeOK, TurnTypeOK, TickTypeOK DEF Next

(* Every variable keeps its type, the window is never less than cwndMin and *)
(* the queue never longer than its ring.                                    *)
THEOREM TypeCorrect == Spec => []TypeOK
BY InitTypeOK, NextTypeOK, PTL DEF Spec

-----------------------------------------------------------------------------
(* How long a packet waits.  The head of the queue is the oldest packet of *)
(* it, so a packet that is accepted leaves a head that is not too old: an   *)
(* older head is seen only in a queue that refuses packets, and that queue  *)
(* filled while its head was young, after the last transmission.  Then the  *)
(* timeout comes at most Rto later, and after it there is room.             *)

Patience == Max({maxRtpQueueDelay, kMinRtpQueueDiscardInterval})

QueueInOrder ==
  /\ \A i, j \in 1 .. Len(queue) : i <= j => queue[i].at <= queue[j].at
  /\ \A i \in 1 .. Len(queue) : lastRtpQueueDiscardT <= queue[i].at

HeadWaits(t) == queue # <<>> => now - queue[1].at <= t

FilledInTime ==
  Len(queue) = kRtpQueueSize => lastTransmitT < queue[1].at + Patience

Waits ==
  /\ HeadWaits(Patience + Rto + IF at = "frame" THEN 1 ELSE 0)
  /\ at = "wait" /\ queue # <<>> => now - lastTransmitT <= Rto
  /\ at = "frame" /\ Len(queue) = kRtpQueueSize => now - lastTransmitT <= Rto + 1
  /\ at \in {"frame", "queueing"} /\ queue # <<>> =>
       lastTransmitT < now \/ queue[1].at = now
  /\ at = "sent" => Len(queue) # kRtpQueueSize

WaitInv == TypeOK /\ QueueInOrder /\ FilledInTime /\ Waits

LEMMA PatienceIs ==
  Patience \in Nat \ {0} /\ Patience >= maxRtpQueueDelay
  /\ Patience >= kMinRtpQueueDiscardInterval
<1>1. maxRtpQueueDelay \in Int /\ kMinRtpQueueDiscardInterval \in Int
  BY TimesAssumption
<1>2. /\ Patience \in {maxRtpQueueDelay, kMinRtpQueueDiscardInterval}
      /\ Patience >= maxRtpQueueDelay /\ Patience >= kMinRtpQueueDiscardInterval
  BY <1>1, MaxOfTwo, Zenon DEF Patience
<1> QED
  BY <1>2, TimesAssumption

LEMMA QueueTimes ==
  TypeOK => /\ Len(queue) \in Nat /\ (queue = <<>> <=> Len(queue) = 0)
            /\ \A i \in 1 .. Len(queue) : queue[i].at \in 1 .. now
            /\ {now, lastTransmitT, lastRtpQueueDiscardT} \subseteq Nat
            /\ lastTransmitT <= now /\ lastRtpQueueDiscardT <= now
<1> SUFFICES ASSUME TypeOK
             PROVE  /\ Len(queue) \in Nat /\ (queue = <<>> <=> Len(queue) = 0)
                    /\ \A i \in 1 .. Len(queue) : queue[i].at \in 1 .. now
                    /\ {now, lastTransmitT, lastRtpQueueDiscardT} \subseteq Nat
                    /\ lastTransmitT <= now /\ lastRtpQueueDiscardT <= now
  OBVIOUS
<1> DEFINE E == [size : {Full, Small}, at : 1 .. now]
<1>1. queue \in Seq(E)
  BY DEF TypeOK
<1>2. \A e \in E : e.at \in 1 .. now
  OBVIOUS
<1> HIDE DEF E
<1>3. \A i \in 1 .. Len(queue) : queue[i] \in E
  BY <1>1
<1>4. now \in Nat /\ {lastTransmitT, lastRtpQueueDiscardT} \subseteq 1 .. now
  BY DEF TypeOK
<1> QED
  BY <1>1, <1>2, <1>3, <1>4

LEMMA LongerQueue ==
  ASSUME TypeOK, QueueInOrder, NEW size
  PROVE  LET longer == Append(queue, [size |-> size, at |-> now])
         IN  /\ Len(longer) = Len(queue) + 1
             /\ longer[1].at = IF queue = <<>> THEN now ELSE queue[1].at
             /\ Head(longer) = longer[1] /\ longer # <<>>
             /\ \A i, j \in 1 .. Len(longer) : i <= j => longer[i].at <= longer[j].at
             /\ \A i \in 1 .. Len(longer) : lastRtpQueueDiscardT <= longer[i].at
<1> DEFINE e == [size |-> size, at |-> now]
           longer == Append(queue, e)
<1>1. e.at = now
  OBVIOUS
<1> HIDE DEF e
<1>2. \E E : queue \in Seq(E)
  BY DEF TypeOK
<1>3. /\ Len(longer) = Len(queue) + 1 /\ Head(longer) = longer[1] /\ longer # <<>>
      /\ \A i \in 1 .. Len(queue) : longer[i] = queue[i]
      /\ longer[Len(queue) + 1] = e
  BY <1>2
<1> HIDE DEF longer
<1>4. \A i \in 1 .. Len(longer) :
        longer[i].at = IF i = Len(queue) + 1 THEN now ELSE queue[i].at
  BY <1>1, <1>3, QueueTimes
<1>5. \A i, j \in 1 .. Len(longer) : i <= j => longer[i].at <= longer[j].at
  BY <1>3, <1>4, QueueTimes DEF QueueInOrder
<1>6. \A i \in 1 .. Len(longer) : lastRtpQueueDiscardT <= longer[i].at
  BY <1>3, <1>4, QueueTimes DEF QueueInOrder
<1>7. longer[1].at = IF queue = <<>> THEN now ELSE queue[1].at
  BY <1>3, <1>4, QueueTimes
<1> QED
  BY <1>3, <1>5, <1>6, <1>7 DEF longer, e

(* An accepted packet leaves the queue empty or with a head that is young.  *)
LEMMA FrameWaits ==
  ASSUME WaitInv, NEW size \in {Full, Small}, NEW left \in 0 .. MaxFrame - 1,
         NEW refresh \in BOOLEAN, GenerateFrame(size, left, refresh)
  PROVE  QueueInOrder' /\ FilledInTime' /\ Waits'
<1> DEFINE st == Packet(TxState, size, refresh)
           longer == Append(queue, [size |-> size, at |-> now])
<1>1. /\ at \in {"frame", "queueing"} /\ at' \in {"pump", "queueing"}
      /\ queue' = st.queue /\ lastRtpQueueDiscardT' = st.discardT
      /\ UNCHANGED <<now, lastTransmitT>>
  BY DEF GenerateFrame
<1>2. TypeOK /\ QueueInOrder /\ FilledInTime /\ Waits
  BY DEF WaitInv
<1>3. /\ Len(queue) = kRtpQueueSize => st.queue = queue /\ st.discardT = lastRtpQueueDiscardT
      /\ Len(queue) # kRtpQueueSize =>
           \/ /\ st.queue = longer /\ st.discardT = lastRtpQueueDiscardT
              /\ ~TooOld(longer, lastRtpQueueDiscardT)
           \/ st.queue = <<>>
  BY <1>2, PacketType
<1> HIDE DEF st
<1>4. CASE Len(queue) = kRtpQueueSize
  <2>1. UNCHANGED <<queue, lastRtpQueueDiscardT, now, lastTransmitT>>
    BY <1>1, <1>3, <1>4
  <2>2. queue # <<>> => now - queue[1].at <= Patience + Rto
    BY <1>1, <1>2, <1>4, QueueTimes, PatienceIs, TimesAssumption, BoundsAssumption
       DEF Waits, FilledInTime, HeadWaits
  <2>3. QueueInOrder' /\ FilledInTime'
    BY <1>2, <2>1 DEF QueueInOrder, FilledInTime
  <2>4. Patience + Rto + 0 = Patience + Rto
    BY PatienceIs, TimesAssumption
  <2>5. Waits'
    BY <1>1, <1>2, <2>1, <2>2, <2>4 DEF Waits, HeadWaits
  <2> QED
    BY <2>3, <2>5
<1>5. CASE queue' = <<>>
  BY <1>1, <1>5, BoundsAssumption DEF QueueInOrder, FilledInTime, Waits, HeadWaits
<1>6. CASE /\ queue' = longer /\ lastRtpQueueDiscardT' = lastRtpQueueDiscardT
           /\ ~TooOld(longer, lastRtpQueueDiscardT)
  <2>1. /\ Head(longer) = longer[1] /\ longer # <<>>
        /\ longer[1].at = IF queue = <<>> THEN now ELSE queue[1].at
        /\ \A i, j \in 1 .. Len(longer) : i <= j => longer[i].at <= longer[j].at
        /\ \A i \in 1 .. Len(longer) : lastRtpQueueDiscardT <= longer[i].at
        /\ Len(longer) = Len(queue) + 1
    BY <1>2, LongerQueue
  <2> HIDE DEF longer
  <2>2. QueueInOrder'
    BY <1>6, <2>1 DEF QueueInOrder
  <2>3. longer[1].at \in Nat /\ longer[1].at >= lastRtpQueueDiscardT
    BY <1>2, <2>1, QueueTimes
  <2>4. now - longer[1].at <= Patience
    BY <1>2, <1>6, <2>1, <2>3, PatienceIs, TimesAssumption, QueueTimes DEF TooOld
  <2>5. lastTransmitT < now \/ longer[1].at = now
    BY <1>1, <1>2, <2>1, QueueTimes DEF Waits
  <2>6. lastTransmitT < longer[1].at + Patience
    BY <1>2, <2>3, <2>4, <2>5, QueueTimes, PatienceIs
  <2>7. FilledInTime'
    BY <1>1, <1>6, <2>6 DEF FilledInTime
  <2>8. Waits'
    BY <1>1, <1>2, <1>6, <2>3, <2>4, <2>5, QueueTimes, PatienceIs, TimesAssumption
       DEF Waits, HeadWaits
  <2> QED
    BY <2>2, <2>7, <2>8
<1> QED
  BY <1>1, <1>3, <1>4, <1>5, <1>6

(* The head goes.  Only now is there room again. *)
LEMMA DequeueWaits ==
  ASSUME WaitInv, NEW headroom, Dequeue(headroom)
  PROVE  QueueInOrder' /\ FilledInTime' /\ Waits'
<1>1. /\ at = "pump" /\ at' = "sent" /\ queue # <<>> /\ queue' = Tail(queue)
      /\ UNCHANGED <<now, lastTransmitT, lastRtpQueueDiscardT>>
  BY DEF Dequeue
<1>2. TypeOK /\ QueueInOrder /\ FilledInTime /\ Waits
  BY DEF WaitInv
<1>3. \E E : queue \in Seq(E)
  BY <1>2 DEF TypeOK
<1>4. /\ Len(queue') = Len(queue) - 1 /\ Len(queue) \in Nat /\ Len(queue) > 0
      /\ \A i \in 1 .. Len(queue') : queue'[i] = queue[i + 1]
      /\ queue' # <<>> => Len(queue') > 0
  BY <1>1, <1>3
<1>5. \A i \in 1 .. Len(queue') : i + 1 \in 1 .. Len(queue)
  BY <1>4
<1>6. QueueInOrder'
  BY <1>1, <1>2, <1>4, <1>5 DEF QueueInOrder
<1>7. Len(queue') # kRtpQueueSize
  BY <1>2, <1>4, BoundsAssumption DEF TypeOK
<1>8. Waits'
  <2>1. queue' # <<>> => now - queue'[1].at <= Patience + Rto
    <3> SUFFICES ASSUME queue' # <<>> PROVE now - queue'[1].at <= Patience + Rto
      OBVIOUS
    <3>1. 1 \in 1 .. Len(queue') /\ 2 \in 1 .. Len(queue) /\ 1 \in 1 .. Len(queue)
      BY <1>4
    <3>2. queue'[1].at >= queue[1].at /\ {queue'[1].at, queue[1].at, now} \subseteq Nat
      BY <1>2, <1>4, <3>1, QueueTimes DEF QueueInOrder
    <3>3. now - queue[1].at <= Patience + Rto
      BY <1>1, <1>2, PatienceIs, TimesAssumption DEF Waits, HeadWaits
    <3> QED
      BY <3>2, <3>3, PatienceIs, TimesAssumption
  <2>2. Patience + Rto + 0 = Patience + Rto
    BY PatienceIs, TimesAssumption
  <2> QED
    BY <1>1, <1>7, <2>1, <2>2 DEF Waits, HeadWaits
<1> QED
  BY <1>6, <1>7, <1>8 DEF FilledInTime

(* Feedback leaves the queue as it is or clears it. *)
LEMMA FeedbackWaits ==
  ASSUME WaitInv, NEW bytes, NEW window, Feedback(bytes, window)
  PROVE  QueueInOrder' /\ FilledInTime' /\ Waits'
<1>1. TypeOK /\ QueueInOrder /\ FilledInTime /\ Waits
  BY DEF WaitInv
<1>2. \/ UNCHANGED <<queue, lastRtpQueueDiscardT>>
      \/ queue' = <<>> /\ lastRtpQueueDiscardT' = now
  <2> DEFINE Q == Seq(Queued(now))
             T == 1 .. now
             st == UpdateTargetBitrate(TxState)
  <2>1. TxState \in States(Q, T) /\ now \in T /\ <<>> \in Q
        /\ TxState.queue = queue /\ TxState.discardT = lastRtpQueueDiscardT
    BY <1>1, TxStateType DEF TypeOK, TxStates
  <2> HIDE DEF Q, T
  <2>2. st = TxState \/ (st.queue = <<>> /\ st.discardT = now)
    BY <2>1, UpdateType
  <2>3. \/ UNCHANGED <<queue, lastRtpQueueDiscardT>>
        \/ queue' = st.queue /\ lastRtpQueueDiscardT' = st.discardT
    BY DEF Feedback
  <2> HIDE DEF st
  <2> QED
    BY <2>1, <2>2, <2>3
<1>3. UNCHANGED <<now, at, lastTransmitT>>
  BY DEF Feedback
<1>4. CASE UNCHANGED <<queue, lastRtpQueueDiscardT>>
  BY <1>1, <1>3, <1>4 DEF QueueInOrder, FilledInTime, Waits, HeadWaits
<1>5. CASE queue' = <<>>
  BY <1>3, <1>5, BoundsAssumption DEF QueueInOrder, FilledInTime, Waits, HeadWaits
<1> QED
  BY <1>2, <1>4, <1>5

LEMMA NextWaits == WaitInv /\ [Next]_vars => WaitInv'
<1> SUFFICES ASSUME WaitInv, [Next]_vars
             PROVE  QueueInOrder' /\ FilledInTime' /\ Waits'
  BY NextTypeOK DEF WaitInv
<1>1. TypeOK /\ QueueInOrder /\ FilledInTime /\ Waits
  BY DEF WaitInv
<1>2. Patience + Rto + 0 = Patience + Rto /\ Patience + Rto <= Patience + Rto + 1
  BY PatienceIs, TimesAssumption
<1>3. CASE NotOk
  <2>1. /\ at = "pump" /\ at' = "wait" /\ (queue = <<>> \/ ~TimedOut)
        /\ UNCHANGED <<queue, lastRtpQueueDiscardT, now, lastTransmitT>>
    BY <1>3 DEF NotOk
  <2>2. queue # <<>> => now - lastTransmitT <= Rto
    BY <1>1, <2>1, QueueTimes, TimesAssumption DEF TimedOut
  <2> QED
    BY <1>1, <2>1, <2>2 DEF QueueInOrder, FilledInTime, Waits, HeadWaits
<1>4. CASE AddTransmitted
  <2>1. /\ at = "sent" /\ at' = "pump" /\ lastTransmitT' = now
        /\ UNCHANGED <<queue, lastRtpQueueDiscardT, now>>
    BY <1>4 DEF AddTransmitted
  <2> QED
    BY <1>1, <2>1 DEF QueueInOrder, FilledInTime, Waits, HeadWaits
<1>5. CASE Tick
  <2>1. /\ at = "wait" /\ at' = "frame" /\ now' = now + 1
        /\ UNCHANGED <<queue, lastRtpQueueDiscardT, lastTransmitT>>
    BY <1>5 DEF Tick
  <2>2. QueueInOrder' /\ FilledInTime'
    BY <1>1, <2>1 DEF QueueInOrder, FilledInTime
  <2>3. queue # <<>> => (now + 1) - queue[1].at <= Patience + Rto + 1
    <3>1. queue # <<>> => now - queue[1].at <= Patience + Rto
      BY <1>1, <1>2, <2>1 DEF Waits, HeadWaits
    <3>2. queue # <<>> => queue[1].at \in Nat
      BY <1>1, QueueTimes
    <3> QED
      BY <1>1, <3>1, <3>2, QueueTimes, PatienceIs, TimesAssumption
  <2>4. queue # <<>> => (now + 1) - lastTransmitT <= Rto + 1
    BY <1>1, <2>1, QueueTimes, TimesAssumption DEF Waits
  <2>5. lastTransmitT < now + 1
    BY <1>1, QueueTimes
  <2>6. Len(queue) = kRtpQueueSize => queue # <<>>
    BY BoundsAssumption
  <2>7. queue' # <<>> => now' - queue'[1].at <= Patience + Rto + 1
    BY <2>1, <2>3
  <2>8. /\ at' = "frame"
        /\ Len(queue') = kRtpQueueSize => now' - lastTransmitT' <= Rto + 1
        /\ queue' # <<>> => lastTransmitT' < now' \/ queue'[1].at = now'
    BY <2>1, <2>4, <2>5, <2>6
  <2>9. Waits'
    BY <2>7, <2>8 DEF Waits, HeadWaits
  <2> QED
    BY <2>2, <2>9
<1>6. CASE Turn
  <2>1. /\ at = "wait" /\ at' = "pump"
        /\ UNCHANGED <<queue, lastRtpQueueDiscardT, now, lastTransmitT>>
    BY <1>6 DEF Turn
  <2> QED
    BY <1>1, <2>1 DEF QueueInOrder, FilledInTime, Waits, HeadWaits
<1>7. CASE UNCHANGED vars
  BY <1>1, <1>7 DEF vars, QueueInOrder, FilledInTime, Waits, HeadWaits
<1> QED
  BY <1>3, <1>4, <1>5, <1>6, <1>7, FrameWaits, DequeueWaits, FeedbackWaits DEF Next

LEMMA InitWaits == Init => WaitInv
BY InitTypeOK, BoundsAssumption
   DEF Init, WaitInv, QueueInOrder, FilledInTime, Waits, HeadWaits

(* No packet is queued for longer than the larger of maxRtpQueueDelay and   *)
(* the discard interval, the timeout and a frame, whatever frames, feedback *)
(* and clearing of the queue come in between, or do not come.  This is more *)
(* than the comment at ScreamTx.h:242 allows, which names maxRtpQueueDelay. *)
THEOREM WaitCorrect == Spec => []WaitIsBounded
<1>1. WaitInv => WaitIsBounded
  <2> SUFFICES ASSUME WaitInv, NEW i \in 1 .. Len(queue)
               PROVE  now - queue[i].at <= Patience + Rto + 1
    BY DEF WaitIsBounded, Patience
  <2>1. TypeOK /\ QueueInOrder /\ Waits
    BY DEF WaitInv
  <2>2. queue # <<>> /\ 1 \in 1 .. Len(queue)
    BY <2>1, QueueTimes
  <2>3. queue[1].at <= queue[i].at /\ {queue[1].at, queue[i].at, now} \subseteq Nat
    BY <2>1, <2>2, QueueTimes DEF QueueInOrder
  <2>4. now - queue[1].at <= Patience + Rto + 1
    BY <2>1, <2>2, <2>3, PatienceIs, TimesAssumption DEF Waits, HeadWaits
  <2> QED
    BY <2>3, <2>4, PatienceIs, TimesAssumption
<1> QED
  BY <1>1, InitWaits, NextWaits, PTL DEF Spec

-----------------------------------------------------------------------------
(* What mss remembers.  A size sent since the last reset is in mss, and a   *)
(* size sent within the interval before the reset in mss or prevMss: the    *)
(* reset comes when more than the interval has passed since the one before, *)
(* so what it throws away, prevMss, was sent longer ago than the interval.  *)

Remembers(size) ==
  /\ sentT[size] <= now
  /\ sentT[size] > lastMssUpdateT => mss >= size
  /\ lastMssUpdateT - sentT[size] <= kMssUpdateInterval => mss >= size \/ prevMss >= size

Remembered == \A size \in {Full, Small} : Remembers(size)

WindowInv == TypeOK /\ Remembered

LEMMA MssTypes ==
  TypeOK => /\ {now, lastMssUpdateT, mss, prevMss, Full, Small, kMssUpdateInterval}
                 \subseteq Nat
            /\ lastMssUpdateT <= now
            /\ \A size \in {Full, Small} : sentT[size] \in Int
BY SizesAssumption, TimesAssumption DEF TypeOK

(* Nothing is forgotten while mss only grows. *)
LEMMA KeepsRemembered ==
  ASSUME WindowInv, mss' \in Nat, mss' >= mss, prevMss' = prevMss,
         lastMssUpdateT' = lastMssUpdateT, sentT' = sentT,
         now' \in Nat, now' >= now
  PROVE  Remembered'
<1> SUFFICES ASSUME NEW size \in {Full, Small} PROVE Remembers(size)'
  BY DEF Remembered
<1>1. /\ Remembers(size) /\ size \in Nat /\ mss \in Nat
      /\ now \in Nat /\ sentT[size] \in Int
  BY SizesAssumption DEF WindowInv, Remembered, TypeOK
<1> QED
  BY <1>1 DEF Remembers

(* Nor when isOkToTransmit resets it. *)
LEMMA RefreshRemembers ==
  ASSUME WindowInv, mss' = RefreshedMss.mss, prevMss' = RefreshedMss.prevMss,
         lastMssUpdateT' = (IF now - lastMssUpdateT > kMssUpdateInterval
                              THEN now ELSE lastMssUpdateT),
         sentT' = sentT, now' = now
  PROVE  Remembered'
<1>1. TypeOK /\ RefreshedMss \in TxStates
  BY RefreshedType DEF WindowInv
<1>2. CASE ~Resets
  <2>1. mss' = mss /\ prevMss' = prevMss /\ lastMssUpdateT' = lastMssUpdateT
    BY <1>1, <1>2, RefreshedType DEF Resets
  <2>2. mss' \in Nat /\ mss' >= mss /\ now' \in Nat /\ now' >= now
    BY <1>1, <2>1, MssTypes
  <2> QED
    BY <2>1, <2>2, KeepsRemembered
<1>3. CASE Resets
  <2> SUFFICES ASSUME NEW size \in {Full, Small} PROVE Remembers(size)'
    BY DEF Remembered
  <2>1. prevMss' = mss /\ lastMssUpdateT' = now
        /\ now - lastMssUpdateT > kMssUpdateInterval
    BY <1>1, <1>3, RefreshedType DEF Resets
  <2>2. sentT[size] <= now /\ sentT[size] \in Int /\ now \in Nat
    BY <1>1, MssTypes DEF WindowInv, Remembered, Remembers
  <2>3. now - sentT[size] <= kMssUpdateInterval => mss >= size
    BY <1>1, <2>1, MssTypes DEF WindowInv, Remembered, Remembers
  <2>4. ~(sentT[size] > now)
    BY <2>2
  <2> QED
    BY <2>1, <2>2, <2>3, <2>4 DEF Remembers
<1> QED
  BY <1>2, <1>3

(* A packet that is registered is remembered from then on. *)
LEMMA AddRemembers ==
  ASSUME WindowInv, AddTransmitted PROVE Remembered'
<1> DEFINE E == [size : {Full, Small}, at : 1 .. now]
           n == sending[1].size
           st == Grown(TxState, n, 2)
<1>1. TypeOK /\ Remembered
  BY DEF WindowInv
<1>2. n \in {Full, Small}
  <2>1. sending \in Seq(E) /\ Len(sending) = 1
    BY <1>1 DEF AddTransmitted, TypeOK
  <2>2. \A e \in E : e.size \in {Full, Small}
    OBVIOUS
  <2> HIDE DEF E
  <2>3. sending[1] \in E
    BY <2>1
  <2> QED
    BY <2>2, <2>3
<1>3. /\ mss' = st.mss /\ sentT' = [sentT EXCEPT ![n] = now]
      /\ UNCHANGED <<now, prevMss, lastMssUpdateT>>
  BY DEF AddTransmitted
<1>4. TxState \in States(Seq(Queued(now)), 1 .. now) /\ TxState.mss = mss
      /\ n \in Int
  BY <1>1, <1>2, TxStateType, SizesAssumption DEF TxStates
<1> HIDE DEF n
<1>5. st \in States(Seq(Queued(now)), 1 .. now) /\ st.mss >= mss /\ st.mss >= n
  BY <1>4, GrownType
<1> HIDE DEF st
<1>6. mss' \in Nat /\ mss' >= mss /\ mss' >= n
  BY <1>3, <1>5 DEF States
<1> SUFFICES ASSUME NEW size \in {Full, Small} PROVE Remembers(size)'
  BY DEF Remembered
<1>7. /\ Remembers(size) /\ size \in Nat /\ {now, mss, lastMssUpdateT} \subseteq Nat
      /\ sentT[size] \in Int /\ lastMssUpdateT <= now
      /\ sentT \in [{Full, Small} -> Int]
  BY <1>1, MssTypes DEF Remembered, TypeOK
<1>8. CASE size = n
  <2>1. sentT'[size] = now
    BY <1>3, <1>7, <1>8
  <2> QED
    BY <1>3, <1>6, <1>7, <1>8, <2>1 DEF Remembers
<1>9. CASE size # n
  <2>1. sentT'[size] = sentT[size]
    BY <1>3, <1>7, <1>9
  <2> QED
    BY <1>3, <1>6, <1>7, <2>1 DEF Remembers
<1> QED
  BY <1>8, <1>9

LEMMA NextRemembers == WindowInv /\ [Next]_vars => WindowInv'
<1> SUFFICES ASSUME WindowInv, [Next]_vars PROVE Remembered'
  BY NextTypeOK DEF WindowInv
<1>1. TypeOK /\ {now, mss} \subseteq Nat
  BY MssTypes DEF WindowInv
<1>2. ASSUME UNCHANGED <<mss, prevMss, lastMssUpdateT, sentT>>,
             now' \in Nat, now' >= now
      PROVE  Remembered'
  BY <1>1, <1>2, KeepsRemembered
<1>3. ASSUME NEW size \in {Full, Small}, NEW left \in 0 .. MaxFrame - 1,
             NEW refresh \in BOOLEAN, GenerateFrame(size, left, refresh)
      PROVE  Remembered'
  <2> DEFINE st == Packet(TxState, size, refresh)
  <2>1. st \in TxStates /\ st.mss >= mss /\ st.prevMss = prevMss
    BY <1>1, PacketType
  <2>2. mss' = st.mss /\ prevMss' = st.prevMss /\ UNCHANGED <<now, lastMssUpdateT, sentT>>
    BY <1>3 DEF GenerateFrame
  <2> HIDE DEF st
  <2>3. mss' \in Nat /\ mss' >= mss /\ prevMss' = prevMss
    BY <2>1, <2>2 DEF TxStates, States
  <2> QED
    BY <1>1, <2>2, <2>3, KeepsRemembered
<1>4. ASSUME NEW headroom, Dequeue(headroom) PROVE Remembered'
  <2>1. /\ mss' = RefreshedMss.mss /\ prevMss' = RefreshedMss.prevMss
        /\ lastMssUpdateT' = (IF now - lastMssUpdateT > kMssUpdateInterval
                                THEN now ELSE lastMssUpdateT)
        /\ sentT' = sentT /\ now' = now
    BY <1>4 DEF Dequeue
  <2> QED
    BY <2>1, RefreshRemembers
<1>5. CASE NotOk
  <2>1. /\ mss' = RefreshedMss.mss /\ prevMss' = RefreshedMss.prevMss
        /\ lastMssUpdateT' = (IF now - lastMssUpdateT > kMssUpdateInterval
                                THEN now ELSE lastMssUpdateT)
        /\ sentT' = sentT /\ now' = now
    BY <1>5 DEF NotOk
  <2> QED
    BY <2>1, RefreshRemembers
<1>6. CASE AddTransmitted
  BY <1>6, AddRemembers
<1>7. ASSUME NEW bytes, NEW window, Feedback(bytes, window) PROVE Remembered'
  BY <1>1, <1>2, <1>7 DEF Feedback
<1>8. CASE Turn \/ Tick
  BY <1>1, <1>2, <1>8 DEF Turn, Tick, sizeVars
<1>9. CASE UNCHANGED vars
  BY <1>1, <1>2, <1>9 DEF vars, sizeVars
<1> QED
  BY <1>3, <1>4, <1>5, <1>6, <1>7, <1>8, <1>9 DEF Next

(* With nothing in flight a packet no larger than one sent within the last  *)
(* update interval is let go, whenever mss is reset, whatever headroom the  *)
(* window has and whatever feedback leaves of it.                           *)
THEOREM WindowCorrect == Spec => []WindowAdmitsOne
<1>1. Init => WindowInv
  <2> SUFFICES ASSUME Init PROVE Remembered
    BY InitTypeOK DEF WindowInv
  <2>1. \A size \in {Full, Small} : sentT[size] = 0 - kMssUpdateInterval
    BY DEF Init
  <2> QED
    BY <2>1, TimesAssumption DEF Init, Remembered, Remembers
<1>2. WindowInv => WindowAdmitsOne
  <2> SUFFICES ASSUME WindowInv, bytesInFlight = 0, queue # <<>>,
                      NEW s \in {Full, Small}, Head(queue).size <= s,
                      now - sentT[s] <= kMssUpdateInterval, NEW headroom \in Headrooms
               PROVE  WindowAllows(RefreshedMss, Head(queue).size, headroom)
    BY DEF WindowAdmitsOne, InUse
  <2> DEFINE size == Head(queue).size
             r == RefreshedMss
  <2>1. TypeOK /\ Remembers(s)
    BY DEF WindowInv, Remembered
  <2>2. size \in Nat
    <3> DEFINE E == [size : {Full, Small}, at : 1 .. now]
    <3>1. queue \in Seq(E)
      BY <2>1 DEF TypeOK
    <3>2. \A e \in E : e.size \in Nat
      BY SizesAssumption
    <3> HIDE DEF E
    <3>3. Head(queue) \in E
      BY <3>1
    <3> QED
      BY <3>2, <3>3
  <2>3. r \in TxStates /\ (r.mss >= s \/ r.prevMss >= s)
    <3>1. r \in TxStates
      BY <2>1, RefreshedType
    <3>2. CASE Resets
      <4>1. r.prevMss = mss
        BY <2>1, <3>2, RefreshedType
      <4>2. mss >= s
        BY <2>1, <3>2, MssTypes DEF Resets, Remembers
      <4> QED
        BY <3>1, <4>1, <4>2
    <3>3. CASE ~Resets
      <4>1. r.mss = mss /\ r.prevMss = prevMss
        BY <2>1, <3>3, RefreshedType
      <4>2. mss >= s \/ prevMss >= s
        BY <2>1, MssTypes DEF Remembers
      <4> QED
        BY <3>1, <4>1, <4>2
    <3> QED
      BY <3>2, <3>3
  <2> HIDE DEF r, size
  <2>4. {r.mss, r.prevMss, r.cwnd, s} \subseteq Nat
    BY <2>1, <2>3, MssTypes DEF TxStates, States
  <2>5. r.mss \in Int /\ r.prevMss \in Int
    BY <2>4
  <2>6. /\ getMss(r) \in {r.mss, r.prevMss}
        /\ getMss(r) >= r.mss /\ getMss(r) >= r.prevMss
    BY <2>5, MaxOfTwo, Zenon DEF getMss
  <2>7. getMss(r) \in Nat /\ getMss(r) >= s
    BY <2>3, <2>4, <2>6
  <2>8. headroom * r.cwnd \in Nat
    BY <2>4, BoundsAssumption
  <2>9. 2 * (0 + size) <= headroom * r.cwnd + 2 * getMss(r)
    <3> DEFINE room == headroom * r.cwnd
               m == getMss(r)
    <3>1. size <= s
      BY DEF size
    <3> HIDE DEF room, m
    <3>2. room \in Nat /\ m \in Nat /\ m >= s /\ s \in Nat
      BY <2>4, <2>7, <2>8 DEF room, m
    <3> QED
      BY <2>2, <3>1, <3>2 DEF room, m
  <2> QED
    BY <2>9 DEF WindowAllows, r, size
<1> QED
  BY <1>1, <1>2, NextRemembers, PTL DEF Spec
=============================================================================
