---------------------------- MODULE TestSession ----------------------------
(***************************************************************************)
(* The life of a sender session (TestSession) and the threads that share   *)
(* it: the thread that starts and stops it (ScreamService, through         *)
(* ScreamEngine and the JNI), the transmit thread (txLoop), the RTCP       *)
(* thread (rtcpLoop) and the coroutines that poll the metrics.             *)
(*                                                                         *)
(* An action is a step between two points where another thread can         *)
(* interfere; inside a critical section of ccMutex_ the controller is used *)
(* in a step of its own, because starting and stopping change cc_ without  *)
(* taking the mutex.  What the controller computes is left to the other    *)
(* modules: whether it lets a packet go is nondeterministic.               *)
(***************************************************************************)
EXTENDS Integers, FiniteSets

CONSTANTS
  Pollers,    \* bound: polling coroutines that exist at a time
  MaxQueue,   \* bound: packets in the RTP queue
  None        \* nobody holds the mutex

Threads == {"tx", "rtcp"}

ASSUME NoneAssumption == None \notin Pollers \cup Threads
ASSUME PollersAssumption == Pollers \cap Threads = {}
ASSUME MaxQueueAssumption == MaxQueue \in Nat

VARIABLES
  main,      \* where the thread that starts and stops is
  running,   \* running_
  cc,        \* cc_: "none", "bare" (no stream registered yet) or "ready"
  fd,        \* fd_ is an open socket
  mutex,     \* the holder of ccMutex_
  tx,        \* where txLoop is; "off" when txThread_ is not joinable
  rtcp,      \* where rtcpLoop is; "off" when rtcpThread_ is not joinable
  poll,      \* where each polling coroutine is
  cancelled, \* the coroutines that were cancelled
  queue,     \* packets in the RTP queue
  unregistered \* packets sent and not yet given to addTransmitted

vars == <<main, running, cc, fd, mutex, tx, rtcp, poll, cancelled, queue,
          unregistered>>

MainPoints == {"idle", "socket", "make", "register", "run", "startTx",
               "startRtcp", "poll", "flag", "joinTx", "joinRtcp", "close",
               "reset"}
TxPoints == {"off", "top", "frameLock", "frame", "pump", "askLock", "ask",
             "send", "addLock", "add", "done"}
RtcpPoints == {"off", "top", "receive", "lock", "feedback", "done"}
PollPoints == {"off", "due", "locked", "reading", "end"}

Init ==
  /\ main = "idle"
  /\ running = FALSE
  /\ cc = "none"
  /\ fd = FALSE
  /\ mutex = None
  /\ tx = "off"
  /\ rtcp = "off"
  /\ poll = [p \in Pollers |-> "off"]
  /\ cancelled = {}
  /\ queue = 0
  /\ unregistered = 0

Lock(who) == mutex = None /\ mutex' = who
Unlock == mutex' = None

-----------------------------------------------------------------------------
(* ScreamEngine.start and TestSession::start. *)

(* start gives up on a running session, and the service may call it then. *)
StartBegin ==
  /\ main = "idle"
  /\ ~running
  /\ main' = "socket"
  /\ UNCHANGED <<running, cc, fd, mutex, tx, rtcp, poll, cancelled, queue,
                 unregistered>>

OpenSocket ==
  /\ main = "socket"
  /\ main' = "make"
  /\ fd' = TRUE
  /\ UNCHANGED <<running, cc, mutex, tx, rtcp, poll, cancelled, queue,
                 unregistered>>

(* An address that does not parse, or a port that cannot be bound. *)
StartFails ==
  /\ main = "socket"
  /\ main' = "idle"
  /\ UNCHANGED <<running, cc, fd, mutex, tx, rtcp, poll, cancelled, queue,
                 unregistered>>

(* make_unique, and the assignment to cc_ without the mutex. *)
MakeController ==
  /\ main = "make"
  /\ main' = "register"
  /\ cc' = "bare"
  /\ queue' = 0
  /\ UNCHANGED <<running, fd, mutex, tx, rtcp, poll, cancelled, unregistered>>

RegisterStream ==
  /\ main = "register"
  /\ main' = "run"
  /\ cc' = "ready"
  /\ UNCHANGED <<running, fd, mutex, tx, rtcp, poll, cancelled, queue,
                 unregistered>>

SetRunning ==
  /\ main = "run"
  /\ main' = "startTx"
  /\ running' = TRUE
  /\ UNCHANGED <<cc, fd, mutex, tx, rtcp, poll, cancelled, queue, unregistered>>

StartTx ==
  /\ main = "startTx"
  /\ main' = "startRtcp"
  /\ tx' = "top"
  /\ UNCHANGED <<running, cc, fd, mutex, rtcp, poll, cancelled, queue,
                 unregistered>>

StartRtcp ==
  /\ main = "startRtcp"
  /\ main' = "poll"
  /\ rtcp' = "top"
  /\ UNCHANGED <<running, cc, fd, mutex, tx, poll, cancelled, queue,
                 unregistered>>

(* ScreamEngine.startPolling. *)
StartPolling(p) ==
  /\ main = "poll"
  /\ poll[p] = "off"
  /\ main' = "idle"
  /\ poll' = [poll EXCEPT ![p] = "due"]
  /\ cancelled' = cancelled \ {p}
  /\ UNCHANGED <<running, cc, fd, mutex, tx, rtcp, queue, unregistered>>

-----------------------------------------------------------------------------
(* ScreamEngine.stop and TestSession::stop. *)

(* Cancelling does not wait for the coroutine. *)
StopBegin ==
  /\ main = "idle"
  /\ main' = "flag"
  /\ cancelled' = {p \in Pollers : poll[p] # "off"}
  /\ UNCHANGED <<running, cc, fd, mutex, tx, rtcp, poll, queue, unregistered>>

ClearRunning ==
  /\ main = "flag"
  /\ main' = IF running THEN "joinTx" ELSE "idle"
  /\ running' = FALSE
  /\ UNCHANGED <<cc, fd, mutex, tx, rtcp, poll, cancelled, queue, unregistered>>

(* Mutant: the thread is left to itself. *)
MutJoinTx ==
  /\ main = "joinTx"
  /\ main' = "joinRtcp"
  /\ UNCHANGED <<running, cc, fd, mutex, tx, rtcp, poll, cancelled, queue,
                 unregistered>>

JoinTx ==
  /\ main = "joinTx"
  /\ tx = "done"
  /\ main' = "joinRtcp"
  /\ tx' = "off"
  /\ UNCHANGED <<running, cc, fd, mutex, rtcp, poll, cancelled, queue,
                 unregistered>>

(* Mutant: the socket is closed first, to wake the thread. *)
MutJoinRtcp ==
  /\ main = "joinRtcp"
  /\ main' = IF rtcp = "done" THEN "close" ELSE main
  /\ rtcp' = IF rtcp = "done" THEN "off" ELSE rtcp
  /\ fd' = FALSE
  /\ UNCHANGED <<running, cc, mutex, tx, poll, cancelled, queue, unregistered>>

JoinRtcp ==
  /\ main = "joinRtcp"
  /\ rtcp = "done"
  /\ main' = "close"
  /\ rtcp' = "off"
  /\ UNCHANGED <<running, cc, fd, mutex, tx, poll, cancelled, queue,
                 unregistered>>

CloseSocket ==
  /\ main = "close"
  /\ main' = "reset"
  /\ fd' = FALSE
  /\ UNCHANGED <<running, cc, mutex, tx, rtcp, poll, cancelled, queue,
                 unregistered>>

(* cc_.reset(), without the mutex. *)
ResetController ==
  /\ main = "reset"
  /\ main' = "idle"
  /\ cc' = "none"
  /\ queue' = 0
  /\ UNCHANGED <<running, fd, mutex, tx, rtcp, poll, cancelled, unregistered>>

-----------------------------------------------------------------------------
(* txLoop: a frame when one is due, then pump. *)

TxTop ==
  /\ tx = "top"
  /\ \/ running /\ tx' \in {"frameLock", "pump"}
     \/ ~running /\ tx' = "done"
  /\ UNCHANGED <<main, running, cc, fd, mutex, rtcp, poll, cancelled, queue,
                 unregistered>>

FrameLock ==
  /\ tx = "frameLock"
  /\ Lock("tx")
  /\ tx' = "frame"
  /\ UNCHANGED <<main, running, cc, fd, rtcp, poll, cancelled, queue,
                 unregistered>>

(* updateTargetBitrate: the packets of the queue when they have waited for  *)
(* too long are all discarded.                                              *)
UpdateTargetBitrate(waiting) == {waiting, 0}

(* newMediaFrame: updateTargetBitrate, and the queue is also discarded to   *)
(* refresh the base delay.                                                  *)
NewMediaFrame(waiting) == UpdateTargetBitrate(waiting) \cup {0}

(* Mutant: a full queue takes the packet. *)
MutFramePacket ==
  /\ tx = "frame"
  /\ running
  /\ queue' \in NewMediaFrame(queue + 1)
  /\ UNCHANGED <<main, running, cc, fd, mutex, tx, rtcp, poll, cancelled,
                 unregistered>>

(* A packet of the frame is queued; a full queue refuses it and the frame   *)
(* goes on.                                                                 *)
FramePacket ==
  /\ tx = "frame"
  /\ running
  /\ queue < MaxQueue
  /\ queue' \in NewMediaFrame(queue + 1)
  /\ UNCHANGED <<main, running, cc, fd, mutex, tx, rtcp, poll, cancelled,
                 unregistered>>

(* The frame is complete, or the session is being stopped. *)
FrameEnd ==
  /\ tx = "frame"
  /\ Unlock
  /\ tx' = "pump"
  /\ UNCHANGED <<main, running, cc, fd, rtcp, poll, cancelled, queue,
                 unregistered>>

(* The loop of pump ends after 64 packets, or when the session stops. *)
Pump ==
  /\ tx = "pump"
  /\ \/ running /\ tx' = "askLock"
     \/ tx' = "top"
  /\ UNCHANGED <<main, running, cc, fd, mutex, rtcp, poll, cancelled, queue,
                 unregistered>>

AskLock ==
  /\ tx = "askLock"
  /\ Lock("tx")
  /\ tx' = "ask"
  /\ UNCHANGED <<main, running, cc, fd, rtcp, poll, cancelled, queue,
                 unregistered>>

(* isOkToTransmit: nothing queued, or not now. *)
NotOk ==
  /\ tx = "ask"
  /\ Unlock
  /\ tx' = "top"
  /\ UNCHANGED <<main, running, cc, fd, rtcp, poll, cancelled, queue,
                 unregistered>>

Dequeue ==
  /\ tx = "ask"
  /\ queue > 0
  /\ Unlock
  /\ tx' = "send"
  /\ queue' = queue - 1
  /\ UNCHANGED <<main, running, cc, fd, rtcp, poll, cancelled, unregistered>>

Send ==
  /\ tx = "send"
  /\ tx' = "addLock"
  /\ unregistered' = unregistered + 1
  /\ UNCHANGED <<main, running, cc, fd, mutex, rtcp, poll, cancelled, queue>>

(* Mutant: a session that is being stopped does not register the packet. *)
MutAddLock ==
  /\ tx = "addLock"
  /\ IF running THEN Lock("tx") /\ tx' = "add"
                ELSE tx' = "top" /\ UNCHANGED mutex
  /\ UNCHANGED <<main, running, cc, fd, rtcp, poll, cancelled, queue,
                 unregistered>>

AddLock ==
  /\ tx = "addLock"
  /\ Lock("tx")
  /\ tx' = "add"
  /\ UNCHANGED <<main, running, cc, fd, rtcp, poll, cancelled, queue,
                 unregistered>>

AddTransmitted ==
  /\ tx = "add"
  /\ Unlock
  /\ tx' = "pump"
  /\ unregistered' = unregistered - 1
  /\ UNCHANGED <<main, running, cc, fd, rtcp, poll, cancelled, queue>>

TxNext == \/ TxTop \/ FrameLock \/ FramePacket \/ FrameEnd \/ Pump \/ AskLock
          \/ NotOk \/ Dequeue \/ Send \/ AddLock \/ AddTransmitted

-----------------------------------------------------------------------------
(* rtcpLoop. *)

RtcpTop ==
  /\ rtcp = "top"
  /\ rtcp' = IF running THEN "receive" ELSE "done"
  /\ UNCHANGED <<main, running, cc, fd, mutex, tx, poll, cancelled, queue,
                 unregistered>>

(* recvfrom returns a datagram, which arrives at any time or never. *)
Received ==
  /\ rtcp = "receive"
  /\ rtcp' = "lock"
  /\ UNCHANGED <<main, running, cc, fd, mutex, tx, poll, cancelled, queue,
                 unregistered>>

(* Mutant: without SO_RCVTIMEO, recvfrom returns on a closed socket only. *)
MutReceiveTimeout ==
  /\ rtcp = "receive"
  /\ ~fd
  /\ rtcp' = "top"
  /\ UNCHANGED <<main, running, cc, fd, mutex, tx, poll, cancelled, queue,
                 unregistered>>

(* recvfrom gives up after the 200 ms of SO_RCVTIMEO. *)
ReceiveTimeout ==
  /\ rtcp = "receive"
  /\ rtcp' = "top"
  /\ UNCHANGED <<main, running, cc, fd, mutex, tx, poll, cancelled, queue,
                 unregistered>>

FeedbackLock ==
  /\ rtcp = "lock"
  /\ Lock("rtcp")
  /\ rtcp' = "feedback"
  /\ UNCHANGED <<main, running, cc, fd, tx, poll, cancelled, queue,
                 unregistered>>

(* incomingFeedback, which ends with updateTargetBitrate. *)
IncomingFeedback ==
  /\ rtcp = "feedback"
  /\ Unlock
  /\ rtcp' = "top"
  /\ queue' \in UpdateTargetBitrate(queue)
  /\ UNCHANGED <<main, running, cc, fd, tx, poll, cancelled, unregistered>>

RtcpNext == RtcpTop \/ FeedbackLock \/ IncomingFeedback

-----------------------------------------------------------------------------
(* The polling coroutines call snapshot until they are cancelled. *)

SnapshotLock(p) ==
  /\ poll[p] = "due"
  /\ Lock(p)
  /\ poll' = [poll EXCEPT ![p] = "locked"]
  /\ UNCHANGED <<main, running, cc, fd, tx, rtcp, cancelled, queue,
                 unregistered>>

(* if (cc_) *)
SnapshotTest(p) ==
  /\ poll[p] = "locked"
  /\ IF cc = "none"
       THEN Unlock /\ poll' = [poll EXCEPT ![p] = "end"]
       ELSE UNCHANGED mutex /\ poll' = [poll EXCEPT ![p] = "reading"]
  /\ UNCHANGED <<main, running, cc, fd, tx, rtcp, cancelled, queue,
                 unregistered>>

GetMetrics(p) ==
  /\ poll[p] = "reading"
  /\ Unlock
  /\ poll' = [poll EXCEPT ![p] = "end"]
  /\ UNCHANGED <<main, running, cc, fd, tx, rtcp, cancelled, queue,
                 unregistered>>

(* delay, and isActive. *)
PollNext(p) ==
  /\ poll[p] = "end"
  /\ poll' = [poll EXCEPT ![p] = IF p \in cancelled THEN "off" ELSE "due"]
  /\ UNCHANGED <<main, running, cc, fd, mutex, tx, rtcp, cancelled, queue,
                 unregistered>>

Poll(p) == SnapshotLock(p) \/ SnapshotTest(p) \/ GetMetrics(p) \/ PollNext(p)

-----------------------------------------------------------------------------
MainNext == \/ OpenSocket \/ StartFails \/ MakeController \/ RegisterStream
            \/ SetRunning \/ StartTx \/ StartRtcp
            \/ \E p \in Pollers : StartPolling(p)
            \/ ClearRunning \/ JoinTx \/ JoinRtcp \/ CloseSocket
            \/ ResetController

Next == \/ StartBegin \/ StopBegin \/ MainNext
        \/ TxNext
        \/ RtcpNext \/ Received \/ ReceiveTimeout
        \/ \E p \in Pollers : Poll(p)

Spec == Init /\ [][Next]_vars

(* Threads are scheduled, and recvfrom comes back; the user need not start  *)
(* or stop anything, and no feedback need ever arrive.                      *)
FairSpec == /\ Spec
            /\ WF_vars(MainNext)
            /\ WF_vars(TxNext)
            /\ WF_vars(RtcpNext)
            /\ WF_vars(ReceiveTimeout)
            /\ \A p \in Pollers : WF_vars(Poll(p))

-----------------------------------------------------------------------------
(* How the points of the program map to SessionLife. *)
Phase ==
  CASE main \in {"idle", "flag"} -> IF running THEN "started" ELSE "stopped"
    [] main \in {"joinTx", "joinRtcp", "close", "reset"} -> "stopping"
    [] OTHER -> "starting"

Alive == (IF tx = "off" THEN {} ELSE {"tx"})
           \cup (IF rtcp = "off" THEN {} ELSE {"rtcp"})

Using == (IF tx \in {"frame", "ask", "send", "add"} THEN {"tx"} ELSE {})
           \cup (IF rtcp \in {"receive", "feedback"} THEN {"rtcp"} ELSE {})

Life == INSTANCE SessionLife WITH
  phase <- Phase, usable <- fd /\ cc = "ready", alive <- Alive, using <- Using

(* The session implements SessionLife: its threads are made when the socket *)
(* and the controller with its stream exist, never over one that was not    *)
(* joined (std::terminate); only when both are joined these go.             *)
ImplementsLife == Life!Spec

TypeOK ==
  /\ main \in MainPoints
  /\ running \in BOOLEAN
  /\ cc \in {"none", "bare", "ready"}
  /\ fd \in BOOLEAN
  /\ mutex \in Pollers \cup Threads \cup {None}
  /\ tx \in TxPoints
  /\ rtcp \in RtcpPoints
  /\ poll \in [Pollers -> PollPoints]
  /\ cancelled \in SUBSET Pollers
  /\ queue \in 0 .. MaxQueue
  /\ unregistered \in Int

(* The session's threads use the controller only while it exists and has    *)
(* its stream, and the socket only while it is open, although neither is    *)
(* set up nor taken down under the mutex they use it with.                  *)
WorkersSafe ==
  /\ tx \in {"frame", "ask", "add"} => cc = "ready"
  /\ rtcp = "feedback" => cc = "ready"
  /\ tx = "send" \/ rtcp = "receive" => fd

(* Once stop has returned no thread, socket or controller is left, and      *)
(* every packet the session sent was registered with its controller.        *)
NothingLeftBehind ==
  main = "idle" /\ ~running =>
    /\ tx = "off" /\ rtcp = "off"
    /\ ~fd
    /\ cc = "none"
    /\ unregistered = 0

(* stop returns: neither thread keeps the other, or the polls, from seeing  *)
(* running_ and from being joined.                                          *)
StopReturns == main = "flag" ~> main = "idle"

(* "All controller calls are serialized under ccMutex_": a poll that has    *)
(* found a controller can use it until it gives up the mutex.               *)
SnapshotSafe == \A p \in Pollers : poll[p] = "reading" => cc = "ready"
=============================================================================
