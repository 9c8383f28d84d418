----------------------------- MODULE ScreamApp -----------------------------
(***************************************************************************)
(* The app around the two native sessions: the buttons of MainActivity,    *)
(* the intents ScreamService handles, ScreamEngine with its flags, its     *)
(* samples and the coroutines that poll the sender's metrics.              *)
(*                                                                         *)
(* Taps and intents run on the main thread, one after the other, so a      *)
(* handler is one action; a poll runs on another thread and cancelling it  *)
(* does not wait.  What Android does is modelled from how the service uses *)
(* it: intents are delivered in order and create the service when there is *)
(* none; stopSelf destroys it after the intents already on their way; a    *)
(* wakelock acquired with a timeout is released when that has passed.      *)
(***************************************************************************)
EXTENDS Integers, Sequences, FiniteSets

CONSTANTS
  Polls,        \* bound: coroutines that exist at a time
  MaxSessions,  \* bound: sender sessions started
  MaxInbox,     \* bound: intents on their way
  MaxSession    \* MAX_SESSION_MS, the timeout of the wakelock

ASSUME BoundsAssumption == MaxSessions \in Nat /\ MaxInbox \in Nat
ASSUME TimeoutAssumption == MaxSession \in Nat \ {0}

VARIABLES
  inbox,      \* intents on their way to the service
  alive,      \* the service exists
  foreground, \* its notification is shown
  wakeLock,   \* how long its wakelock is still held, 0 when it is not
  shown,      \* how long the notification is shown, up to MaxSession
              \* (history variable)
  running,    \* _running, and the native session's running_
  rxRunning,  \* _rxRunning, and the native receiver's
  session,    \* the last sender session
  poll,       \* where each coroutine is, and the session it has read
  pollJob,    \* the coroutines not cancelled
  samples     \* the sessions with a sample in the list that is exported

serviceVars == <<alive, foreground, wakeLock, shown>>
vars == <<inbox, serviceVars, running, rxRunning, session, poll, pollJob, samples>>

Off == [at |-> "off", read |-> 0]

Init ==
  /\ inbox = <<>>
  /\ alive = FALSE
  /\ foreground = FALSE
  /\ wakeLock = 0
  /\ shown = 0
  /\ running = FALSE
  /\ rxRunning = FALSE
  /\ session = 0
  /\ poll = [j \in Polls |-> Off]
  /\ pollJob = {}
  /\ samples = {}

-----------------------------------------------------------------------------
(* The buttons. *)

Post(intent) ==
  /\ Len(inbox) < MaxInbox
  /\ inbox' = Append(inbox, intent)
  /\ UNCHANGED <<serviceVars, running, rxRunning, session, poll, pollJob>>

TapSender == /\ Post(IF running THEN "STOP" ELSE "START")
             /\ UNCHANGED samples

TapReceiver == /\ Post(IF rxRunning THEN "STOP_RX" ELSE "START_RX")
               /\ UNCHANGED samples

ClearSessionData == samples' = {}

(* resetAll clears the data at once; the sessions stop later. *)
TapReset == Post("STOP_ALL") /\ ClearSessionData

-----------------------------------------------------------------------------
(* The service.  onStartCommand of an intent it was started for. *)

Delivered(intent) == inbox # <<>> /\ Head(inbox) = intent /\ alive' = TRUE

(* A wakelock that is held is not acquired again: its timeout runs on. *)
EnsureForeground ==
  /\ foreground' = TRUE
  /\ wakeLock' = IF wakeLock = 0 THEN MaxSession ELSE wakeLock
  /\ shown' = IF foreground THEN shown ELSE 0

(* stopSelf; while a destruction is on its way another changes nothing. *)
TearDown ==
  /\ foreground' = FALSE /\ shown' = 0
  /\ wakeLock' = 0
  /\ inbox' = IF \E i \in DOMAIN inbox : inbox[i] = "DESTROY"
                THEN Tail(inbox) ELSE Append(Tail(inbox), "DESTROY")

MaybeStopService ==
  IF ~running' /\ ~rxRunning'
    THEN TearDown
    ELSE inbox' = Tail(inbox) /\ UNCHANGED <<foreground, wakeLock, shown>>

(* Mutant: the samples are cleared before the test for a running session. *)
MutEngineStart ==
  /\ samples' = {}
  /\ \/ running /\ UNCHANGED <<running, session, poll, pollJob>>
     \/ ~running /\ UNCHANGED <<running, session, poll, pollJob>>
     \/ /\ ~running
        /\ session < MaxSessions
        /\ running' = TRUE
        /\ session' = session + 1
        /\ \E j \in Polls :
             /\ poll[j] = Off
             /\ poll' = [poll EXCEPT ![j] = [at |-> "top", read |-> 0]]
             /\ pollJob' = {j}

(* ScreamEngine.start: a running session is left alone; the native start    *)
(* fails, or succeeds and its metrics are polled.                           *)
EngineStart ==
  \/ running /\ UNCHANGED <<running, session, poll, pollJob, samples>>
  \/ /\ ~running
     /\ samples' = {}
     /\ UNCHANGED <<running, session, poll, pollJob>>
  \/ /\ ~running
     /\ session < MaxSessions
     /\ samples' = {}
     /\ running' = TRUE
     /\ session' = session + 1
     /\ \E j \in Polls :
          /\ poll[j] = Off
          /\ poll' = [poll EXCEPT ![j] = [at |-> "top", read |-> 0]]
          /\ pollJob' = {j}

(* Mutant: the coroutine is not cancelled. *)
MutEngineStop == running' = FALSE /\ UNCHANGED pollJob

EngineStop == running' = FALSE /\ pollJob' = {}

Start ==
  /\ Delivered("START")
  /\ inbox' = Tail(inbox)
  /\ EnsureForeground
  /\ EngineStart
  /\ UNCHANGED rxRunning

Stop ==
  /\ Delivered("STOP")
  /\ EngineStop
  /\ UNCHANGED <<rxRunning, session, poll, samples>>
  /\ MaybeStopService

(* startReceiver succeeds, or the port cannot be bound. *)
StartReceiver == rxRunning' \in {rxRunning, TRUE}

StopReceiver == rxRunning' = FALSE

StartRx ==
  /\ Delivered("START_RX")
  /\ inbox' = Tail(inbox)
  /\ EnsureForeground
  /\ StartReceiver
  /\ UNCHANGED <<running, session, poll, pollJob, samples>>

(* Mutant: the service stops with its receiver. *)
MutStopRx ==
  /\ Delivered("STOP_RX")
  /\ StopReceiver
  /\ UNCHANGED <<running, session, poll, pollJob, samples>>
  /\ TearDown

StopRx ==
  /\ Delivered("STOP_RX")
  /\ StopReceiver
  /\ UNCHANGED <<running, session, poll, pollJob, samples>>
  /\ MaybeStopService

StopAll ==
  /\ Delivered("STOP_ALL")
  /\ EngineStop
  /\ StopReceiver
  /\ UNCHANGED <<session, poll, samples>>
  /\ TearDown

(* onDestroy; the notification goes with the service. *)
Destroy ==
  /\ inbox # <<>>
  /\ Head(inbox) = "DESTROY"
  /\ inbox' = Tail(inbox)
  /\ alive' = FALSE
  /\ EngineStop
  /\ StopReceiver
  /\ foreground' = FALSE /\ shown' = 0
  /\ wakeLock' = 0
  /\ UNCHANGED <<session, poll, samples>>

(* Time passes while the notification is shown; the wakelock ends by itself *)
(* at its timeout, and nothing else does.                                   *)
Elapse ==
  /\ foreground
  /\ wakeLock' = IF wakeLock = 0 THEN 0 ELSE wakeLock - 1
  /\ shown' = IF shown = MaxSession THEN shown ELSE shown + 1
  /\ UNCHANGED <<inbox, alive, foreground, running, rxRunning, session, poll,
                 pollJob, samples>>

-----------------------------------------------------------------------------
(* startPolling's coroutine. *)

(* bridge.metrics: of the last session, running or not. *)
ReadMetrics(j) ==
  /\ poll[j].at = "top"
  /\ poll' = [poll EXCEPT ![j] = [at |-> "read", read |-> session]]
  /\ UNCHANGED <<inbox, serviceVars, running, rxRunning, session, pollJob,
                 samples>>

(* recordSample, then delay, which ends a cancelled coroutine. *)
RecordSample(j) ==
  /\ poll[j].at = "read"
  /\ samples' = samples \cup {poll[j].read}
  /\ poll' = [poll EXCEPT ![j] = IF j \in pollJob THEN [at |-> "top", read |-> 0]
                                                  ELSE Off]
  /\ UNCHANGED <<inbox, serviceVars, running, rxRunning, session, pollJob>>

(* Mutant: a coroutine that is still active ends. *)
MutCancelled(j) ==
  /\ poll[j].at = "top"
  /\ poll' = [poll EXCEPT ![j] = Off]
  /\ UNCHANGED <<inbox, serviceVars, running, rxRunning, session, pollJob,
                 samples>>

(* while (isActive), or delay, ends the coroutine. *)
Cancelled(j) ==
  /\ poll[j].at = "top"
  /\ j \notin pollJob
  /\ poll' = [poll EXCEPT ![j] = Off]
  /\ UNCHANGED <<inbox, serviceVars, running, rxRunning, session, pollJob,
                 samples>>

Next == \/ TapSender \/ TapReceiver \/ TapReset
        \/ Start \/ Stop \/ StartRx \/ StopRx \/ StopAll \/ Destroy \/ Elapse
        \/ \E j \in Polls : ReadMetrics(j) \/ RecordSample(j) \/ Cancelled(j)

Spec == Init /\ [][Next]_vars

-----------------------------------------------------------------------------
Intents == {"START", "STOP", "START_RX", "STOP_RX", "STOP_ALL", "DESTROY"}

TypeOK ==
  /\ inbox \in Seq(Intents) /\ Len(inbox) <= MaxInbox
  /\ alive \in BOOLEAN /\ foreground \in BOOLEAN
  /\ wakeLock \in 0 .. MaxSession /\ shown \in 0 .. MaxSession
  /\ running \in BOOLEAN /\ rxRunning \in BOOLEAN
  /\ session \in 0 .. MaxSessions
  /\ poll \in [Polls -> [at : {"off", "top", "read"}, read : 0 .. MaxSessions]]
  /\ pollJob \subseteq {j \in Polls : poll[j].at # "off"}
  /\ samples \in SUBSET (0 .. MaxSessions)

(* While a session runs the service exists and shows its notification, and  *)
(* for MaxSession from when that appeared it holds the wakelock, so that    *)
(* the session's threads are not suspended, whichever of the two sessions   *)
(* is stopped and however late the service is destroyed.  No session has    *)
(* these hours to itself: one that starts late in those of the other, or of *)
(* a start that failed, goes on without the wakelock when they are over.    *)
KeptAwake ==
  running \/ rxRunning =>
    alive /\ foreground /\ (wakeLock > 0 \/ shown = MaxSession)

(* The metrics of a running session are polled by one coroutine, those of a *)
(* stopped one by none that goes on: intents sent twice start nothing twice.*)
OnePoll == Cardinality(pollJob) = IF running THEN 1 ELSE 0

(* The samples of a running session are given up for Reset only: no intent  *)
(* that finds it running erases what will be exported.                      *)
SamplesKept ==
  [][running /\ running' /\ session \in samples
       => session \in samples' \/ TapReset]_vars
=============================================================================
