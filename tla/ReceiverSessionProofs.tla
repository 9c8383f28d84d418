------------------------ MODULE ReceiverSessionProofs ------------------------
(***************************************************************************)
(* A receiver session implements SessionLife, for any number of polls.     *)
(*                                                                         *)
(* The steps of SessionLife that use, launch and dispose have guards that  *)
(* the code does not test: they follow from where the starting thread is.  *)
(* The invariant says what each of its points has set up (Setup), between  *)
(* which of them the receive thread exists (ThreadExists), and that the    *)
(* thread records what it received before anything else (Recording).       *)
(***************************************************************************)
EXTENDS ReceiverSession, TLAPS

Stopping == {"join", "close", "reset"}

(* What the thread that starts and stops has set up at each point. *)
Setup ==
  /\ main \in {"socket", "make", "run"} \cup Stopping => ~running
  /\ main \in {"startThread", "poll"} => running
  /\ running \/ main \in {"run"} \cup Stopping <=> rx
  /\ running \/ main \in {"make", "run", "join", "close"} <=> fd

ThreadExists ==
  thread # "off" <=> main = "join" \/ (running /\ main # "startThread")

Recording == unrecorded = IF thread \in {"lock", "inside"} THEN 1 ELSE 0

Inv == TypeOK /\ Setup /\ ThreadExists /\ Recording

-----------------------------------------------------------------------------
LEMMA InitInv == Init => Inv
<1> SUFFICES ASSUME Init PROVE Inv
  OBVIOUS
<1> USE DEF Init
<1>1. TypeOK
  <2>1. running \in BOOLEAN /\ rx \in BOOLEAN /\ fd \in BOOLEAN
    OBVIOUS
  <2>2. unrecorded \in 0 .. 1
    OBVIOUS
  <2> QED
    BY <2>1, <2>2 DEF TypeOK, MainPoints, ThreadPoints, PollPoints
<1>2. Setup /\ ThreadExists /\ Recording
  BY DEF Setup, Stopping, ThreadExists, Recording
<1> QED
  BY <1>1, <1>2 DEF Inv

(* A step of a poll changes neither the session nor its thread. *)
LEMMA PollIsQuiet ==
  ASSUME NEW p \in Pollers, Poll(p)
  PROVE  UNCHANGED <<main, running, rx, fd, thread, cancelled, unrecorded>>
  BY DEF Poll, SnapshotLock, SnapshotTest, GetMetrics, PollNext

(* Every step keeps the variables in their types. *)
LEMMA TypeStep == TypeOK /\ Recording /\ [Next]_vars => TypeOK'
<1> USE DEF TypeOK, MainPoints, ThreadPoints, PollPoints, Lock, Unlock
<1> SUFFICES ASSUME TypeOK, Recording, [Next]_vars PROVE TypeOK'
  OBVIOUS
<1>1. CASE StartBegin \/ StopBegin
  BY <1>1 DEF StartBegin, StopBegin
<1>2. CASE MainNext
  BY <1>2 DEF MainNext, OpenSocket, StartFails, MakeReceiver, SetRunning,
     StartThread, StartPolling, ClearRunning, JoinThread, CloseSocket,
     ResetReceiver
<1>3. CASE ThreadNext \/ Received \/ ReceiveTimeout
  BY <1>3 DEF ThreadNext, Top, ReceiveLock, OnRtpPacket, SendFeedback, Received,
     ReceiveTimeout, Recording
<1>4. CASE \E p \in Pollers : Poll(p)
  <2>1. PICK p \in Pollers : Poll(p)
    BY <1>4
  <2>2. /\ mutex' \in Pollers \cup {"rx", None}
        /\ poll' \in [Pollers -> PollPoints]
    BY <2>1 DEF Poll, SnapshotLock, SnapshotTest, GetMetrics, PollNext
  <2> QED
    BY <2>1, <2>2, PollIsQuiet
<1>5. CASE UNCHANGED vars
  BY <1>5 DEF vars
<1> QED
  BY <1>1, <1>2, <1>3, <1>4, <1>5 DEF Next

(* The steps of start and stop, and those of the thread they start. *)
LEMMA LifeStep ==
  TypeOK /\ Setup /\ ThreadExists /\ Recording /\ [Next]_vars
    => Setup' /\ ThreadExists' /\ Recording'
<1> USE DEF TypeOK, MainPoints, Setup, ThreadExists, Recording, Stopping
<1> SUFFICES ASSUME TypeOK, Setup, ThreadExists, Recording, [Next]_vars
             PROVE  Setup' /\ ThreadExists' /\ Recording'
  OBVIOUS
<1>1. CASE StartBegin \/ OpenSocket \/ StartFails \/ MakeReceiver
  BY <1>1 DEF StartBegin, OpenSocket, StartFails, MakeReceiver
<1>2. CASE SetRunning \/ StartThread \/ \E p \in Pollers : StartPolling(p)
  BY <1>2 DEF SetRunning, StartThread, StartPolling
<1>3. CASE StopBegin \/ ClearRunning \/ JoinThread
  BY <1>3 DEF StopBegin, ClearRunning, JoinThread
<1>4. CASE CloseSocket \/ ResetReceiver
  BY <1>4 DEF CloseSocket, ResetReceiver
<1>5. CASE ThreadNext \/ Received \/ ReceiveTimeout
  BY <1>5 DEF ThreadNext, Top, ReceiveLock, OnRtpPacket, SendFeedback, Received,
     ReceiveTimeout
<1>6. CASE \E p \in Pollers : Poll(p)
  BY <1>6, PollIsQuiet
<1>7. CASE UNCHANGED vars
  BY <1>7 DEF vars
<1> QED
  BY <1>1, <1>2, <1>3, <1>4, <1>5, <1>6, <1>7 DEF Next, MainNext

LEMMA InvAlways == Spec => []Inv
<1>1. Inv /\ [Next]_vars => Inv'
  BY TypeStep, LifeStep DEF Inv
<1> QED
  BY InitInv, <1>1, PTL DEF Spec

-----------------------------------------------------------------------------
(* The variables keep their types, whatever the interleaving. *)
THEOREM TypeCorrect == Spec => []TypeOK
<1>1. Inv => TypeOK
  BY DEF Inv
<1> QED
  BY <1>1, InvAlways, PTL

(* When stop has returned, thread, socket and engine are gone and no packet *)
(* is left unrecorded.                                                      *)
THEOREM StopIsComplete == Spec => []NothingLeftBehind
<1>1. Inv => NothingLeftBehind
  BY DEF Inv, TypeOK, Setup, ThreadExists, Recording, NothingLeftBehind, Stopping
<1> QED
  BY <1>1, InvAlways, PTL

(* The receive thread never touches a destroyed engine or a closed socket,  *)
(* although start and stop handle both without the mutex: the session       *)
(* implements SessionLife.                                                  *)
THEOREM ImplementsSessionLife == Spec => ImplementsLife
<1>1. Init => Life!Init
  BY DEF Init, Life!Init, Phase
<1>2. ASSUME Inv, [Next]_vars PROVE [Life!Next]_(Life!vars)
  <2> USE <1>2 DEF Inv, TypeOK, MainPoints, Setup, ThreadExists, Stopping, Phase,
          Life!Next, Life!vars
  <2>1. CASE StartBegin \/ OpenSocket \/ StartFails \/ MakeReceiver
    BY <2>1 DEF StartBegin, OpenSocket, StartFails, MakeReceiver, Life!Start,
       Life!Fail, Life!Equip
  <2>2. CASE SetRunning \/ StartThread \/ \E p \in Pollers : StartPolling(p)
    BY <2>2 DEF SetRunning, StartThread, StartPolling, Life!Launch, Life!Started
  <2>3. CASE StopBegin \/ ClearRunning \/ JoinThread
    BY <2>3 DEF StopBegin, ClearRunning, JoinThread, Life!Stop, Life!Join
  <2>4. CASE CloseSocket \/ ResetReceiver
    BY <2>4 DEF CloseSocket, ResetReceiver, Life!Dispose, Life!Stopped
  <2>5. CASE ThreadNext \/ Received \/ ReceiveTimeout
    BY <2>5 DEF ThreadNext, Top, ReceiveLock, OnRtpPacket, SendFeedback, Received,
       ReceiveTimeout, Life!Use, Life!Leave
  <2>6. CASE \E p \in Pollers : Poll(p)
    BY <2>6, PollIsQuiet
  <2>7. CASE UNCHANGED vars
    BY <2>7 DEF vars
  <2> QED
    BY <2>1, <2>2, <2>3, <2>4, <2>5, <2>6, <2>7 DEF Next, MainNext
<1> QED
  BY <1>1, <1>2, InvAlways, PTL DEF Spec, ImplementsLife, Life!Spec
=============================================================================
