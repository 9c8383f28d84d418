--------------------------- MODULE ReceiverSession ---------------------------
(***************************************************************************)
(* The life of a receiver session (ReceiverSession) and the threads that   *)
(* share it: the thread that starts and stops it (ScreamService, through   *)
(* ScreamEngine and the JNI), the receive thread (rxLoop) and the          *)
(* coroutines that poll the metrics.  What the engine does with a packet   *)
(* is left to ScreamRx.                                                    *)
(*                                                                         *)
(* An action is a step between two points where another thread can         *)
(* interfere; start and stop change rx_ without taking rxMutex_.           *)
(***************************************************************************)
EXTENDS Integers

CONSTANTS
  Pollers,    \* bound: polling coroutines that exist at a time
  None        \* nobody holds the mutex

ASSUME NoneAssumption == None \notin Pollers \cup {"rx"}
ASSUME PollersAssumption == "rx" \notin Pollers

VARIABLES
  main,      \* where the thread that starts and stops is
  running,   \* running_
  rx,        \* rx_ holds an engine
  fd,        \* fd_ is an open socket
  mutex,     \* the holder of rxMutex_
  thread,    \* where rxLoop is; "off" when rxThread_ is not joinable
  poll,      \* where each polling coroutine is
  cancelled, \* the coroutines that were cancelled
  unrecorded \* packets taken from the socket that rx_ was not given yet

vars == <<main, running, rx, fd, mutex, thread, poll, cancelled, unrecorded>>

MainPoints == {"idle", "socket", "make", "run", "startThread", "poll", "flag",
               "join", "close", "reset"}
ThreadPoints == {"off", "top", "receive", "lock", "inside", "send", "done"}
PollPoints == {"off", "due", "locked", "reading", "end"}

Init ==
  /\ main = "idle"
  /\ running = FALSE
  /\ rx = FALSE
  /\ fd = FALSE
  /\ mutex = None
  /\ thread = "off"
  /\ poll = [p \in Pollers |-> "off"]
  /\ cancelled = {}
  /\ unrecorded = 0

Lock(who) == mutex = None /\ mutex' = who
Unlock == mutex' = None

-----------------------------------------------------------------------------
(* ScreamEngine.startReceiver and ReceiverSession::start. *)

(* A receiver that runs is not started again. *)
StartBegin ==
  /\ main = "idle"
  /\ ~running
  /\ main' = "socket"
  /\ UNCHANGED <<running, rx, fd, mutex, thread, poll, cancelled, unrecorded>>

OpenSocket ==
  /\ main = "socket"
  /\ main' = "make"
  /\ fd' = TRUE
  /\ UNCHANGED <<running, rx, mutex, thread, poll, cancelled, unrecorded>>

(* No socket, or a port that cannot be bound: it is closed again. *)
StartFails ==
  /\ main = "socket"
  /\ main' = "idle"
  /\ UNCHANGED <<running, rx, fd, mutex, thread, poll, cancelled, unrecorded>>

(* make_unique, and the assignment to rx_ without the mutex. *)
MakeReceiver ==
  /\ main = "make"
  /\ main' = "run"
  /\ rx' = TRUE
  /\ UNCHANGED <<running, fd, mutex, thread, poll, cancelled, unrecorded>>

SetRunning ==
  /\ main = "run"
  /\ main' = "startThread"
  /\ running' = TRUE
  /\ UNCHANGED <<rx, fd, mutex, thread, poll, cancelled, unrecorded>>

StartThread ==
  /\ main = "startThread"
  /\ main' = "poll"
  /\ thread' = "top"
  /\ UNCHANGED <<running, rx, fd, mutex, poll, cancelled, unrecorded>>

(* The job of the last session is cancelled, and a new one is launched. *)
StartPolling(p) ==
  /\ main = "poll"
  /\ poll[p] = "off"
  /\ main' = "idle"
  /\ poll' = [poll EXCEPT ![p] = "due"]
  /\ cancelled' = cancelled \ {p}
  /\ UNCHANGED <<running, rx, fd, mutex, thread, unrecorded>>

-----------------------------------------------------------------------------
(* ScreamEngine.stopReceiver and ReceiverSession::stop. *)

(* Cancelling does not wait for the coroutine. *)
StopBegin ==
  /\ main = "idle"
  /\ main' = "flag"
  /\ cancelled' = {p \in Pollers : poll[p] # "off"}
  /\ UNCHANGED <<running, rx, fd, mutex, thread, poll, unrecorded>>

ClearRunning ==
  /\ main = "flag"
  /\ main' = IF running THEN "join" ELSE "idle"
  /\ running' = FALSE
  /\ UNCHANGED <<rx, fd, mutex, thread, poll, cancelled, unrecorded>>

(* Mutant: the socket is closed first, to wake the thread. *)
MutJoinThread ==
  /\ main = "join"
  /\ main' = IF thread = "done" THEN "close" ELSE main
  /\ thread' = IF thread = "done" THEN "off" ELSE thread
  /\ fd' = FALSE
  /\ UNCHANGED <<running, rx, mutex, poll, cancelled, unrecorded>>

JoinThread ==
  /\ main = "join"
  /\ thread = "done"
  /\ main' = "close"
  /\ thread' = "off"
  /\ UNCHANGED <<running, rx, fd, mutex, poll, cancelled, unrecorded>>

CloseSocket ==
  /\ main = "close"
  /\ main' = "reset"
  /\ fd' = FALSE
  /\ UNCHANGED <<running, rx, mutex, thread, poll, cancelled, unrecorded>>

(* rx_.reset(), without the mutex. *)
ResetReceiver ==
  /\ main = "reset"
  /\ main' = "idle"
  /\ rx' = FALSE
  /\ UNCHANGED <<running, fd, mutex, thread, poll, cancelled, unrecorded>>

-----------------------------------------------------------------------------
(* rxLoop. *)

Top ==
  /\ thread = "top"
  /\ thread' = IF running THEN "receive" ELSE "done"
  /\ UNCHANGED <<main, running, rx, fd, mutex, poll, cancelled, unrecorded>>

(* recvmsg returns an RTP packet, which arrives at any time or never. *)
Received ==
  /\ thread = "receive"
  /\ thread' = "lock"
  /\ unrecorded' = unrecorded + 1
  /\ UNCHANGED <<main, running, rx, fd, mutex, poll, cancelled>>

(* Mutant: without SO_RCVTIMEO, recvmsg returns on a closed socket only. *)
MutReceiveTimeout ==
  /\ thread = "receive"
  /\ ~fd
  /\ thread' = "top"
  /\ UNCHANGED <<main, running, rx, fd, mutex, poll, cancelled, unrecorded>>

(* recvmsg gives up after the 200 ms of SO_RCVTIMEO, or returns a datagram  *)
(* that is too short.                                                       *)
ReceiveTimeout ==
  /\ thread = "receive"
  /\ thread' = "top"
  /\ UNCHANGED <<main, running, rx, fd, mutex, poll, cancelled, unrecorded>>

(* Mutant: a session that is being stopped drops the packet. *)
MutReceiveLock ==
  /\ thread = "lock"
  /\ IF running THEN Lock("rx") /\ thread' = "inside"
                ELSE thread' = "top" /\ UNCHANGED mutex
  /\ UNCHANGED <<main, running, rx, fd, poll, cancelled, unrecorded>>

ReceiveLock ==
  /\ thread = "lock"
  /\ Lock("rx")
  /\ thread' = "inside"
  /\ UNCHANGED <<main, running, rx, fd, poll, cancelled, unrecorded>>

(* onRtpPacket and buildFeedback: there is a message to send, or not. *)
OnRtpPacket ==
  /\ thread = "inside"
  /\ Unlock
  /\ thread' \in {"send", "top"}
  /\ unrecorded' = unrecorded - 1
  /\ UNCHANGED <<main, running, rx, fd, poll, cancelled>>

SendFeedback ==
  /\ thread = "send"
  /\ thread' = "top"
  /\ UNCHANGED <<main, running, rx, fd, mutex, poll, cancelled, unrecorded>>

ThreadNext == Top \/ ReceiveLock \/ OnRtpPacket \/ SendFeedback

-----------------------------------------------------------------------------
(* The polling coroutines call snapshot until they are cancelled. *)

SnapshotLock(p) ==
  /\ poll[p] = "due"
  /\ Lock(p)
  /\ poll' = [poll EXCEPT ![p] = "locked"]
  /\ UNCHANGED <<main, running, rx, fd, thread, cancelled, unrecorded>>

(* if (rx_) *)
SnapshotTest(p) ==
  /\ poll[p] = "locked"
  /\ IF rx THEN UNCHANGED mutex /\ poll' = [poll EXCEPT ![p] = "reading"]
           ELSE Unlock /\ poll' = [poll EXCEPT ![p] = "end"]
  /\ UNCHANGED <<main, running, rx, fd, thread, cancelled, unrecorded>>

(* rx_ may have been destroyed since it was tested. *)
GetMetrics(p) ==
  /\ poll[p] = "reading"
  /\ Unlock
  /\ poll' = [poll EXCEPT ![p] = "end"]
  /\ UNCHANGED <<main, running, rx, fd, thread, cancelled, unrecorded>>

(* delay, and isActive. *)
PollNext(p) ==
  /\ poll[p] = "end"
  /\ poll' = [poll EXCEPT ![p] = IF p \in cancelled THEN "off" ELSE "due"]
  /\ UNCHANGED <<main, running, rx, fd, mutex, thread, cancelled, unrecorded>>

Poll(p) == SnapshotLock(p) \/ SnapshotTest(p) \/ GetMetrics(p) \/ PollNext(p)

-----------------------------------------------------------------------------
MainNext == \/ OpenSocket \/ StartFails \/ MakeReceiver \/ SetRunning
            \/ StartThread
            \/ \E p \in Pollers : StartPolling(p)
            \/ ClearRunning \/ JoinThread \/ CloseSocket \/ ResetReceiver

Next == \/ StartBegin \/ StopBegin \/ MainNext
        \/ ThreadNext \/ Received \/ ReceiveTimeout
        \/ \E p \in Pollers : Poll(p)

Spec == Init /\ [][Next]_vars

(* Threads are scheduled, and recvmsg comes back; the user need not start   *)
(* or stop anything, and no packet need ever arrive.                        *)
FairSpec == /\ Spec
            /\ WF_vars(MainNext)
            /\ WF_vars(ThreadNext)
            /\ WF_vars(ReceiveTimeout)
            /\ \A p \in Pollers : WF_vars(Poll(p))

-----------------------------------------------------------------------------
(* How the points of the program map to SessionLife. *)
Phase ==
  CASE main \in {"idle", "flag"} -> IF running THEN "started" ELSE "stopped"
    [] main \in {"join", "close", "reset"} -> "stopping"
    [] OTHER -> "starting"

Life == INSTANCE SessionLife WITH
  Threads <- {"rx"},
  phase   <- Phase,
  usable  <- fd /\ rx,
  alive   <- IF thread = "off" THEN {} ELSE {"rx"},
  using   <- IF thread \in {"receive", "inside", "send"} THEN {"rx"} ELSE {}

(* The session implements SessionLife: its thread is made when the socket   *)
(* and rx_ exist, only once, and uses them, with and without the mutex,     *)
(* until it is joined; only then they go, also without the mutex.           *)
ImplementsLife == Life!Spec

TypeOK ==
  /\ main \in MainPoints
  /\ running \in BOOLEAN
  /\ rx \in BOOLEAN
  /\ fd \in BOOLEAN
  /\ mutex \in Pollers \cup {"rx", None}
  /\ thread \in ThreadPoints
  /\ poll \in [Pollers -> PollPoints]
  /\ cancelled \in SUBSET Pollers
  /\ unrecorded \in 0 .. 1

(* Once stop has returned no thread, socket or engine is left, and every    *)
(* packet taken from the socket was recorded.                               *)
NothingLeftBehind ==
  main = "idle" /\ ~running => /\ thread = "off"
                               /\ ~fd /\ ~rx
                               /\ unrecorded = 0

(* stop returns: neither the socket, nor the engine, nor the polls of this  *)
(* or an earlier session keep the thread from being joined.                 *)
StopReturns == main = "flag" ~> main = "idle"
=============================================================================
