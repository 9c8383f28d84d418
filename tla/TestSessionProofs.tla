------------------------- MODULE TestSessionProofs -------------------------
(***************************************************************************)
(* The safety of a session's threads, for any number of polls and any      *)
(* length of the RTP queue.                                                *)
(*                                                                         *)
(* WorkersSafe says nothing of where the starting thread is, so it is not  *)
(* preserved by CloseSocket or ResetController as it stands.  The          *)
(* invariant adds what each point of start and stop has set up (Setup) and *)
(* when each thread exists (TxExists, RtcpExists): between its         *)
(* creation, after the controller and the socket are complete, and its     *)
(* join, before either goes.                                               *)
(***************************************************************************)
EXTENDS TestSession, TLAPS

Starting == {"socket", "make", "register", "run"}
Started == {"startTx", "startRtcp", "poll"}
Stopping == {"joinTx", "joinRtcp", "close", "reset"}

(* What the thread that starts and stops has set up at each point. *)
Setup ==
  /\ main \in Starting \cup Stopping => ~running
  /\ main \in Started => running
  /\ running \/ main \in {"run"} \cup Stopping => cc = "ready"
  /\ main \in {"idle", "flag", "socket", "make"} /\ ~running => cc = "none"
  /\ running \/ main \in {"make", "register", "run", "joinTx", "joinRtcp", "close"}
       => fd
  /\ main \in {"idle", "flag", "socket", "reset"} /\ ~running => ~fd

TxExists == tx # "off" <=> main = "joinTx" \/ (running /\ main # "startTx")

RtcpExists ==
  rtcp # "off" <=> \/ main \in {"joinTx", "joinRtcp"}
                   \/ running /\ main \notin {"startTx", "startRtcp"}

Registration == unregistered = IF tx \in {"addLock", "add"} THEN 1 ELSE 0

Inv == TypeOK /\ Setup /\ TxExists /\ RtcpExists /\ Registration

-----------------------------------------------------------------------------
LEMMA InitInv == Init => Inv
<1> SUFFICES ASSUME Init PROVE Inv
  OBVIOUS
<1> USE DEF Init
<1>1. TypeOK
  <2>1. running \in BOOLEAN /\ fd \in BOOLEAN
    OBVIOUS
  <2>2. queue \in 0 .. MaxQueue /\ unregistered \in Int
    BY MaxQueueAssumption
  <2> QED
    BY <2>1, <2>2 DEF TypeOK, MainPoints, TxPoints, RtcpPoints, PollPoints
<1>2. Setup
  BY DEF Setup, Starting, Started, Stopping
<1>3. TxExists /\ RtcpExists /\ Registration
  BY DEF TxExists, RtcpExists, Registration
<1> QED
  BY <1>1, <1>2, <1>3 DEF Inv

(* Every step keeps the variables in their types. *)
LEMMA TypeStep == TypeOK /\ Registration /\ [Next]_vars => TypeOK'
<1> USE MaxQueueAssumption DEF TypeOK, MainPoints, TxPoints, RtcpPoints,
        PollPoints, Threads, Lock, Unlock
<1> SUFFICES ASSUME TypeOK, Registration, [Next]_vars PROVE TypeOK'
  OBVIOUS
<1>1. CASE StartBegin \/ StopBegin
  BY <1>1 DEF StartBegin, StopBegin
<1>2. CASE MainNext
  <2> USE <1>2 DEF MainNext, OpenSocket, StartFails, MakeController,
          RegisterStream, SetRunning, StartTx, StartRtcp, StartPolling,
          ClearRunning, JoinTx, JoinRtcp, CloseSocket, ResetController
  <2>1. running' \in BOOLEAN /\ fd' \in BOOLEAN
    BY Zenon
  <2>2. queue' \in 0 .. MaxQueue /\ unregistered' \in Int
    BY SMT
  <2>3. /\ main' \in MainPoints
        /\ cc' \in {"none", "bare", "ready"}
        /\ mutex' \in Pollers \cup Threads \cup {None}
    BY SMT
  <2>4. tx' \in TxPoints /\ rtcp' \in RtcpPoints
    BY SMT
  <2>5. poll' \in [Pollers -> PollPoints] /\ cancelled' \in SUBSET Pollers
    BY SMT
  <2> QED
    BY <2>1, <2>2, <2>3, <2>4, <2>5
<1>3. CASE TxNext
  BY <1>3 DEF TxNext, TxTop, FrameLock, FramePacket, NewMediaFrame,
       UpdateTargetBitrate, FrameEnd, Pump, AskLock, NotOk, Dequeue, Send,
       AddLock, AddTransmitted
<1>4. CASE RtcpNext \/ Received \/ ReceiveTimeout
  BY <1>4 DEF RtcpNext, RtcpTop, FeedbackLock, IncomingFeedback,
       UpdateTargetBitrate, Received, ReceiveTimeout
<1>5. CASE \E p \in Pollers : Poll(p)
  <2>1. PICK p \in Pollers : Poll(p)
    BY <1>5
  <2> QED
    BY <2>1 DEF Poll, SnapshotLock, SnapshotTest, GetMetrics, PollNext
<1>6. CASE UNCHANGED vars
  BY <1>6 DEF vars
<1> QED
  BY <1>1, <1>2, <1>3, <1>4, <1>5, <1>6 DEF Next

(* A step of one of the session's own threads, or of a poll. *)
Quiet == /\ UNCHANGED <<main, running, cc, fd>>
         /\ tx' = "off" <=> tx = "off"
         /\ rtcp' = "off" <=> rtcp = "off"

LEMMA TxIsQuiet == TxNext => Quiet
  BY DEF TxNext, TxTop, FrameLock, FramePacket, FrameEnd, Pump, AskLock, NotOk,
         Dequeue, Send, AddLock, AddTransmitted, Quiet

LEMMA RtcpIsQuiet == RtcpNext \/ Received \/ ReceiveTimeout => Quiet
  BY DEF RtcpNext, RtcpTop, FeedbackLock, IncomingFeedback, Received,
         ReceiveTimeout, Quiet

LEMMA PollIsQuiet ==
  ASSUME NEW p \in Pollers, Poll(p)
  PROVE  Quiet /\ UNCHANGED <<tx, rtcp, unregistered>>
  BY DEF Poll, SnapshotLock, SnapshotTest, GetMetrics, PollNext, Quiet

(* The steps of start and stop, and those of the threads they start. *)
LEMMA LifeStep ==
  TypeOK /\ Setup /\ TxExists /\ RtcpExists /\ [Next]_vars
    => Setup' /\ TxExists' /\ RtcpExists'
<1> USE DEF TypeOK, MainPoints, Setup, TxExists, RtcpExists, Starting, Started,
        Stopping
<1> SUFFICES ASSUME TypeOK, Setup, TxExists, RtcpExists, [Next]_vars
             PROVE  Setup' /\ TxExists' /\ RtcpExists'
  OBVIOUS
<1>1. CASE StartBegin \/ OpenSocket \/ StartFails
  BY <1>1 DEF StartBegin, OpenSocket, StartFails
<1>2. CASE MakeController \/ RegisterStream
  BY <1>2 DEF MakeController, RegisterStream
<1>3. CASE SetRunning \/ StartTx \/ StartRtcp
  BY <1>3 DEF SetRunning, StartTx, StartRtcp
<1>4. CASE \E p \in Pollers : StartPolling(p)
  BY <1>4 DEF StartPolling
<1>5. CASE StopBegin \/ ClearRunning
  BY <1>5 DEF StopBegin, ClearRunning
<1>6. CASE JoinTx \/ JoinRtcp
  BY <1>6 DEF JoinTx, JoinRtcp
<1>7. CASE CloseSocket \/ ResetController
  BY <1>7 DEF CloseSocket, ResetController
<1>8. CASE Quiet
  BY <1>8 DEF Quiet
<1>9. CASE UNCHANGED vars
  BY <1>9 DEF vars
<1> QED
  BY <1>1, <1>2, <1>3, <1>4, <1>5, <1>6, <1>7, <1>8, <1>9, TxIsQuiet,
     RtcpIsQuiet, PollIsQuiet DEF Next, MainNext

(* A packet is handed to the network and registered by the same thread. *)
LEMMA RegistrationStep ==
  TypeOK /\ TxExists /\ Registration /\ [Next]_vars => Registration'
<1> USE DEF Registration
<1> SUFFICES ASSUME TypeOK, TxExists, Registration, [Next]_vars
             PROVE  Registration'
  OBVIOUS
<1>1. CASE StartBegin \/ StopBegin
  BY <1>1 DEF StartBegin, StopBegin
<1>2. CASE MainNext
  <2>1. StartTx => tx = "off"
    BY DEF StartTx, TxExists
  <2> QED
    BY <1>2, <2>1 DEF MainNext, OpenSocket, StartFails, MakeController,
       RegisterStream, SetRunning, StartTx, StartRtcp, StartPolling,
       ClearRunning, JoinTx, JoinRtcp, CloseSocket, ResetController
<1>3. CASE TxNext
  BY <1>3 DEF TypeOK, TxNext, TxTop, FrameLock, FramePacket, FrameEnd, Pump,
       AskLock, NotOk, Dequeue, Send, AddLock, AddTransmitted
<1>4. CASE RtcpNext \/ Received \/ ReceiveTimeout
  BY <1>4 DEF RtcpNext, RtcpTop, FeedbackLock, IncomingFeedback, Received,
       ReceiveTimeout
<1>5. CASE \E p \in Pollers : Poll(p)
  BY <1>5, PollIsQuiet
<1>6. CASE UNCHANGED vars
  BY <1>6 DEF vars
<1> QED
  BY <1>1, <1>2, <1>3, <1>4, <1>5, <1>6 DEF Next

LEMMA InvStep == Inv /\ [Next]_vars => Inv'
  BY TypeStep, LifeStep, RegistrationStep DEF Inv

LEMMA InvAlways == Spec => []Inv
  BY InitInv, InvStep, PTL DEF Spec

-----------------------------------------------------------------------------
(* The variables keep their types, whatever the interleaving. *)
THEOREM TypeCorrect == Spec => []TypeOK
<1>1. Inv => TypeOK
  BY DEF Inv
<1> QED
  BY <1>1, InvAlways, PTL

(* The transmit and RTCP threads never touch a controller without its       *)
(* stream, a destroyed one or a closed socket: stop joins both before it    *)
(* closes and destroys, and start makes both before it starts them.         *)
THEOREM WorkersAreSafe == Spec => []WorkersSafe
<1>1. Inv => WorkersSafe
  BY DEF Inv, Setup, TxExists, RtcpExists, WorkersSafe, Stopping
<1> QED
  BY <1>1, InvAlways, PTL

(* When stop has returned, threads, socket and controller are gone and no   *)
(* packet is left unregistered.                                             *)
THEOREM StopIsComplete == Spec => []NothingLeftBehind
<1>1. Inv => NothingLeftBehind
  BY DEF Inv, Setup, TxExists, RtcpExists, Registration, NothingLeftBehind
<1> QED
  BY <1>1, InvAlways, PTL

(* The session implements SessionLife: whatever is interleaved, a step that *)
(* uses, launches, joins or disposes is one SessionLife allows.             *)
THEOREM ImplementsSessionLife == Spec => ImplementsLife
<1>1. Init => Life!Init
  BY DEF Init, Life!Init, Phase, Alive, Using
<1>2. ASSUME Inv, [Next]_vars PROVE [Life!Next]_(Life!vars)
  <2> USE <1>2 DEF Inv, TypeOK, MainPoints, Setup, TxExists, RtcpExists,
          Starting, Started, Stopping, Phase, Alive, Using, Threads,
          Life!Next, Life!vars
  <2>1. CASE StartBegin \/ OpenSocket \/ StartFails
    BY <2>1 DEF StartBegin, OpenSocket, StartFails, Life!Start, Life!Fail
  <2>2. CASE MakeController \/ RegisterStream
    <3>1. CASE MakeController
      <4>1. Phase = "starting" /\ Phase' = "starting" /\ UNCHANGED <<Alive, Using>>
        BY <3>1 DEF MakeController
      <4>2. ~(fd /\ cc = "ready") /\ ~(fd /\ cc = "ready")'
        BY <3>1 DEF MakeController
      <4> QED
        BY <4>1, <4>2
    <3>2. CASE RegisterStream
      BY <3>2 DEF RegisterStream, Life!Equip
    <3> QED
      BY <2>2, <3>1, <3>2
  <2>3. CASE SetRunning \/ StartTx \/ StartRtcp
    BY <2>3 DEF SetRunning, StartTx, StartRtcp, Life!Launch
  <2>4. CASE \E p \in Pollers : StartPolling(p)
    <3>1. /\ Phase = "starting" /\ Phase' = "started"
          /\ UNCHANGED <<fd, cc, Alive, Using>>
      BY <2>4 DEF StartPolling
    <3>2. Alive = {"tx", "rtcp"}
      BY <2>4 DEF StartPolling
    <3> QED
      BY <3>1, <3>2 DEF Life!Started
  <2>5. CASE StopBegin \/ ClearRunning
    BY <2>5 DEF StopBegin, ClearRunning, Life!Stop
  <2>6. CASE JoinTx \/ JoinRtcp
    BY <2>6 DEF JoinTx, JoinRtcp, Life!Join
  <2>7. CASE CloseSocket \/ ResetController
    <3>1. CASE CloseSocket
      BY <3>1 DEF CloseSocket, Life!Dispose
    <3>2. CASE ResetController
      <4>1. /\ Phase = "stopping" /\ Phase' = "stopped"
            /\ UNCHANGED <<Alive, Using>>
        BY <3>2 DEF ResetController
      <4>2. ~(fd /\ cc = "ready") /\ ~(fd /\ cc = "ready")'
        BY <3>2 DEF ResetController
      <4> QED
        BY <4>1, <4>2 DEF Life!Stopped
    <3> QED
      BY <2>7, <3>1, <3>2
  <2>8. CASE TxNext
    BY <2>8 DEF TxNext, TxTop, FrameLock, FramePacket, FrameEnd, Pump, AskLock,
       NotOk, Dequeue, Send, AddLock, AddTransmitted, Life!Use, Life!Leave
  <2>9. CASE RtcpNext \/ Received \/ ReceiveTimeout
    BY <2>9 DEF RtcpNext, RtcpTop, FeedbackLock, IncomingFeedback, Received,
       ReceiveTimeout, Life!Use, Life!Leave
  <2>10. CASE \E p \in Pollers : Poll(p)
    BY <2>10, PollIsQuiet DEF Quiet
  <2>11. CASE UNCHANGED vars
    BY <2>11 DEF vars
  <2> QED
    BY <2>1, <2>2, <2>3, <2>4, <2>5, <2>6, <2>7, <2>8, <2>9, <2>10, <2>11
       DEF Next, MainNext
<1> QED
  BY <1>1, <1>2, InvAlways, PTL DEF Spec, ImplementsLife, Life!Spec
=============================================================================
