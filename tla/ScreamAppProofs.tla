-------------------------- MODULE ScreamAppProofs --------------------------
(***************************************************************************)
(* The app with any number of coroutines, sessions and intents under way.  *)
(*                                                                         *)
(* That a session is kept awake does not depend on the order of intents:   *)
(* each handler leaves the service as the sessions it leaves need it, and   *)
(* the wakelock is acquired with the notification and lasts MaxSession from *)
(* then (LockLasts).  That one coroutine polls depends on when EngineStart *)
(* leaves pollJob alone: the set has to be known (PollOfRunning), not only *)
(* its size.                                                               *)
(***************************************************************************)
EXTENDS ScreamApp, FiniteSetTheorems, TLAPS

PollOfRunning ==
  /\ running => \E j \in Polls : pollJob = {j}
  /\ ~running => pollJob = {}

LockLasts ==
  /\ foreground => shown + wakeLock >= MaxSession
  /\ ~foreground => wakeLock = 0

Inv == TypeOK /\ KeptAwake /\ LockLasts /\ PollOfRunning

(* The wakelock is held, or its time is over. *)
LockOrOver == wakeLock > 0 \/ shown = MaxSession

-----------------------------------------------------------------------------
(* Tear down keeps the inbox within its bound. *)
LEMMA InboxTail ==
  ASSUME inbox \in Seq(Intents), Len(inbox) <= MaxInbox, inbox # <<>>
  PROVE  /\ Tail(inbox) \in Seq(Intents) /\ Len(Tail(inbox)) <= MaxInbox
         /\ TearDown => inbox' \in Seq(Intents) /\ Len(inbox') <= MaxInbox
<1>1. Tail(inbox) \in Seq(Intents) /\ Len(Tail(inbox)) = Len(inbox) - 1
  OBVIOUS
<1>2. "DESTROY" \in Intents
  BY DEF Intents
<1>3. /\ Append(Tail(inbox), "DESTROY") \in Seq(Intents)
      /\ Len(Append(Tail(inbox), "DESTROY")) = Len(inbox)
  BY <1>1, <1>2
<1> QED
  BY <1>1, <1>3, BoundsAssumption DEF TearDown

LEMMA MaybeStopInbox ==
  ASSUME inbox \in Seq(Intents), Len(inbox) <= MaxInbox, inbox # <<>>,
         MaybeStopService
  PROVE  inbox' \in Seq(Intents) /\ Len(inbox') <= MaxInbox
BY InboxTail DEF MaybeStopService

LEMMA InitInv == Init => Inv
<1> SUFFICES ASSUME Init PROVE Inv
  OBVIOUS
<1>1. /\ alive \in BOOLEAN /\ foreground \in BOOLEAN
      /\ running \in BOOLEAN /\ rxRunning \in BOOLEAN
  BY Zenon DEF Init
<1>2. inbox \in Seq(Intents) /\ Len(inbox) <= MaxInbox
  BY BoundsAssumption DEF Init
<1>3. /\ session \in 0 .. MaxSessions /\ samples \in SUBSET (0 .. MaxSessions)
      /\ poll \in [Polls -> [at : {"off", "top", "read"}, read : 0 .. MaxSessions]]
  BY BoundsAssumption DEF Init, Off
<1>4. wakeLock \in 0 .. MaxSession /\ shown \in 0 .. MaxSession /\ LockLasts
  BY TimeoutAssumption DEF Init, LockLasts
<1> QED
  BY <1>1, <1>2, <1>3, <1>4 DEF Init, Inv, TypeOK, KeptAwake, PollOfRunning

-----------------------------------------------------------------------------
(* One lemma for each part of the system that moves. *)

LEMMA ButtonsKeep ==
  ASSUME Inv, TapSender \/ TapReceiver \/ TapReset
  PROVE  Inv'
<1>1. PICK intent \in Intents : Post(intent)
  BY DEF TapSender, TapReceiver, TapReset, Intents
<1>2. samples' \in SUBSET (0 .. MaxSessions)
  BY DEF TapSender, TapReceiver, TapReset, ClearSessionData, Inv, TypeOK
<1>3. inbox' \in Seq(Intents) /\ Len(inbox') <= MaxInbox
  BY <1>1, BoundsAssumption DEF Post, Inv, TypeOK
<1> QED
  BY <1>1, <1>2, <1>3
     DEF Post, serviceVars, Inv, TypeOK, KeptAwake, LockLasts, PollOfRunning

(* The notification is shown, and a wakelock that had run out is acquired.  *)
LEMMA ForegroundKeeps ==
  ASSUME Inv, EnsureForeground
  PROVE  /\ foreground' = TRUE /\ LockLasts' /\ LockOrOver'
         /\ wakeLock' \in 0 .. MaxSession /\ shown' \in 0 .. MaxSession
<1>1. /\ wakeLock \in 0 .. MaxSession /\ shown \in 0 .. MaxSession
      /\ LockLasts /\ MaxSession \in Nat \ {0}
  BY TimeoutAssumption DEF Inv, TypeOK
<1>2. /\ foreground' = TRUE
      /\ wakeLock' = IF wakeLock = 0 THEN MaxSession ELSE wakeLock
      /\ shown' = IF foreground THEN shown ELSE 0
  BY DEF EnsureForeground
<1>3. wakeLock' \in 0 .. MaxSession /\ shown' \in 0 .. MaxSession /\ wakeLock' > 0
  BY <1>1, <1>2
<1>4. foreground \in BOOLEAN
  BY DEF Inv, TypeOK
<1>5. shown' + wakeLock' >= MaxSession
  <2>1. CASE foreground
    BY <1>1, <1>2, <2>1 DEF LockLasts
  <2>2. CASE ~foreground
    BY <1>1, <1>2, <2>2 DEF LockLasts
  <2> QED
    BY <1>4, <2>1, <2>2
<1> QED
  BY <1>2, <1>3, <1>5 DEF LockLasts, LockOrOver

LEMMA StartKeeps == ASSUME Inv, Start PROVE Inv'
<1>1. inbox' \in Seq(Intents) /\ Len(inbox') <= MaxInbox
  BY InboxTail DEF Start, Delivered, Inv, TypeOK
<1>2. /\ alive' = TRUE /\ foreground' = TRUE /\ LockLasts' /\ LockOrOver'
      /\ wakeLock' \in 0 .. MaxSession /\ shown' \in 0 .. MaxSession
      /\ rxRunning' = rxRunning
  BY ForegroundKeeps DEF Start, Delivered
<1>3. CASE UNCHANGED <<running, session, poll, pollJob>>
  <2>1. samples' \in SUBSET (0 .. MaxSessions)
    BY DEF Start, EngineStart, Inv, TypeOK
  <2> QED
    BY <1>1, <1>2, <1>3, <2>1
       DEF Inv, TypeOK, KeptAwake, LockOrOver, PollOfRunning
<1>4. CASE ~UNCHANGED <<running, session, poll, pollJob>>
  <2>1. /\ ~running /\ running' = TRUE /\ samples' = {}
        /\ session < MaxSessions /\ session' = session + 1
    BY <1>4 DEF Start, EngineStart
  <2>2. PICK j \in Polls :
          /\ poll[j] = Off
          /\ poll' = [poll EXCEPT ![j] = [at |-> "top", read |-> 0]]
          /\ pollJob' = {j}
    BY <1>4 DEF Start, EngineStart
  <2>3. session' \in 0 .. MaxSessions
    BY <2>1, BoundsAssumption DEF Inv, TypeOK
  <2>4. poll' \in [Polls -> [at : {"off", "top", "read"}, read : 0 .. MaxSessions]]
    BY <2>2, BoundsAssumption DEF Inv, TypeOK
  <2>5. poll'[j].at # "off"
    BY <2>2 DEF Inv, TypeOK
  <2> QED
    BY <1>1, <1>2, <2>1, <2>2, <2>3, <2>4, <2>5
       DEF Inv, TypeOK, KeptAwake, LockOrOver, PollOfRunning
<1> QED
  BY <1>3, <1>4

LEMMA StopKeeps ==
  ASSUME Inv, Stop \/ StopRx \/ StopAll \/ Destroy
  PROVE  Inv'
<1>1. inbox' \in Seq(Intents) /\ Len(inbox') <= MaxInbox
  BY InboxTail, MaybeStopInbox
     DEF Stop, StopRx, StopAll, Destroy, Delivered, Inv, TypeOK
<1>2. UNCHANGED <<session, poll, samples>>
  BY DEF Stop, StopRx, StopAll, Destroy
<1>3. /\ running' \in BOOLEAN /\ rxRunning' \in BOOLEAN
      /\ alive' \in BOOLEAN /\ foreground' \in BOOLEAN
  BY Zenon DEF Stop, StopRx, StopAll, Destroy, Delivered, EngineStop, StopReceiver,
     MaybeStopService, TearDown, Inv, TypeOK
<1>4. /\ running' = FALSE /\ pollJob' = {}
      \/ UNCHANGED <<running, pollJob>>
  BY DEF Stop, StopRx, StopAll, Destroy, EngineStop
<1>5. \/ UNCHANGED <<foreground, wakeLock, shown>>
      \/ foreground' = FALSE /\ wakeLock' = 0 /\ shown' = 0
  BY DEF Stop, StopRx, StopAll, Destroy, MaybeStopService, TearDown
<1>6. KeptAwake'
  BY DEF Stop, StopRx, StopAll, Destroy, Delivered, EngineStop, StopReceiver,
     MaybeStopService, TearDown, Inv, KeptAwake
<1>7. /\ wakeLock' \in 0 .. MaxSession /\ shown' \in 0 .. MaxSession
      /\ LockLasts'
  BY <1>5, TimeoutAssumption DEF Inv, TypeOK, LockLasts
<1> QED
  BY <1>1, <1>2, <1>3, <1>4, <1>6, <1>7 DEF Inv, TypeOK, PollOfRunning

LEMMA StartRxKeeps == ASSUME Inv, StartRx PROVE Inv'
<1>1. inbox' \in Seq(Intents) /\ Len(inbox') <= MaxInbox
  BY InboxTail DEF StartRx, Delivered, Inv, TypeOK
<1>2. rxRunning' \in BOOLEAN
  BY DEF StartRx, StartReceiver, Inv, TypeOK
<1>3. /\ alive' = TRUE /\ foreground' = TRUE /\ LockLasts' /\ LockOrOver'
      /\ wakeLock' \in 0 .. MaxSession /\ shown' \in 0 .. MaxSession
      /\ UNCHANGED <<running, session, poll, pollJob, samples>>
  BY ForegroundKeeps DEF StartRx, Delivered
<1> QED
  BY <1>1, <1>2, <1>3 DEF Inv, TypeOK, KeptAwake, LockOrOver, PollOfRunning

(* What is taken from the wakelock's time is added to that it was shown.   *)
LEMMA ElapseKeeps == ASSUME Inv, Elapse PROVE Inv'
<1>1. /\ wakeLock \in 0 .. MaxSession /\ shown \in 0 .. MaxSession
      /\ shown + wakeLock >= MaxSession /\ MaxSession \in Nat \ {0}
  BY TimeoutAssumption DEF Elapse, Inv, TypeOK, LockLasts
<1>2. /\ wakeLock' = IF wakeLock = 0 THEN 0 ELSE wakeLock - 1
      /\ shown' = IF shown = MaxSession THEN shown ELSE shown + 1
      /\ foreground /\ foreground' = foreground
      /\ UNCHANGED <<inbox, alive, running, rxRunning, session, poll, pollJob,
                     samples>>
  BY DEF Elapse
<1>3. wakeLock' \in 0 .. MaxSession /\ shown' \in 0 .. MaxSession
  BY <1>1, <1>2
<1>4. shown' + wakeLock' >= MaxSession
  BY <1>1, <1>2
<1>5. LockLasts' /\ LockOrOver'
  BY <1>1, <1>2, <1>3, <1>4 DEF LockLasts, LockOrOver
<1> QED
  BY <1>2, <1>3, <1>5 DEF Inv, TypeOK, KeptAwake, LockOrOver, PollOfRunning

(* A coroutine moves and the rest of the app does not. *)
LEMMA PollKeeps ==
  ASSUME Inv, NEW j \in Polls, ReadMetrics(j) \/ RecordSample(j) \/ Cancelled(j)
  PROVE  Inv'
<1>1. UNCHANGED <<inbox, alive, foreground, wakeLock, shown, running, rxRunning,
                  session, pollJob>>
  BY DEF ReadMetrics, RecordSample, Cancelled, serviceVars
<1>2. PICK at \in {"off", "top", "read"}, read \in 0 .. MaxSessions :
        /\ poll' = [poll EXCEPT ![j] = [at |-> at, read |-> read]]
        /\ j \in pollJob => at # "off"
  BY BoundsAssumption DEF ReadMetrics, RecordSample, Cancelled, Off, Inv, TypeOK
<1>3. poll[j].read \in 0 .. MaxSessions
  BY DEF Inv, TypeOK
<1>4. samples' = samples \/ samples' = samples \cup {poll[j].read}
  BY DEF ReadMetrics, RecordSample, Cancelled
<1> QED
  BY <1>1, <1>2, <1>3, <1>4 DEF Inv, TypeOK, KeptAwake, LockLasts, PollOfRunning

LEMMA InvStep == Inv /\ [Next]_vars => Inv'
<1> SUFFICES ASSUME Inv, [Next]_vars PROVE Inv'
  OBVIOUS
<1>1. CASE UNCHANGED vars
  BY <1>1 DEF vars, serviceVars, Inv, TypeOK, KeptAwake, LockLasts, PollOfRunning
<1>2. CASE Next
  BY <1>2, ButtonsKeep, StartKeeps, StopKeeps, StartRxKeeps, ElapseKeeps, PollKeeps
     DEF Next
<1> QED
  BY <1>1, <1>2

LEMMA InvAlways == Spec => []Inv
  BY InitInv, InvStep, PTL DEF Spec

-----------------------------------------------------------------------------
(* The state of the app is typed, and the inbox within its bound: a         *)
(* destruction takes the place of the intent that asked for it.             *)
THEOREM TypeCorrect == Spec => []TypeOK
<1>1. Inv => TypeOK
  BY DEF Inv
<1> QED
  BY <1>1, InvAlways, PTL

(* While a session runs the service exists in the foreground, with its      *)
(* wakelock for MaxSession from when its notification appeared, whatever    *)
(* was tapped and however late it is handled.                               *)
THEOREM StaysAwake == Spec => []KeptAwake
<1>1. Inv => KeptAwake
  BY DEF Inv
<1> QED
  BY <1>1, InvAlways, PTL

(* One coroutine polls a running session and none goes on after it, for     *)
(* any number of coroutines that have not ended yet.                        *)
THEOREM PolledOnce == Spec => []OnePoll
<1>1. Inv => OnePoll
  BY FS_EmptySet, FS_Singleton DEF Inv, PollOfRunning, OnePoll
<1> QED
  BY <1>1, InvAlways, PTL

(* Only Reset gives up a sample of the session that runs. *)
THEOREM SamplesAreKept == Spec => SamplesKept
<1>1. [Next]_vars => [running /\ running' /\ session \in samples
                        => session \in samples' \/ TapReset]_vars
  <2> SUFFICES ASSUME Next, running, running', session \in samples, ~TapReset
               PROVE  session \in samples'
    OBVIOUS
  <2> QED
    BY DEF Next, TapSender, TapReceiver, Start, Stop, StartRx, StopRx, StopAll,
       Destroy, Elapse, ReadMetrics, RecordSample, Cancelled, EngineStart
<1> QED
  BY <1>1, PTL DEF Spec, SamplesKept
=============================================================================
