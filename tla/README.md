# Verification of the SCReAM phone app

The SCReAM phone app measures networks: an Android app that runs Ericsson's
SCReAM congestion control on synthetic RTP traffic and shows its state. One
phone sends RTP over UDP and receives RTCP feedback, the same or another one
receives RTP and makes the feedback. This directory holds TLA+ modules of its
core logic, the TLC configurations that check them on small instances, and
proofs for TLAPS of what can be proved for every instance. Paths below are
relative to `src/app/src/main/`.

## 1. The system

```
MainActivity --intents--> ScreamService --calls--> ScreamEngine --JNI--> TestSession
 (buttons)                 (main thread)            (flags, polls)       ReceiverSession
                                                         ^                   |
                                                         +----- snapshot ----+

TestSession     main thread: start, stop      ccMutex_   ScreamController
                txLoop:   generateFrame, pump ---------> RtpQueue, ScreamV2Tx
                rtcpLoop: recvfrom            --------->
                                | RTP                ^ RTCP feedback
                                v                    |
ReceiverSession rxLoop: recvmsg, rxMutex_, ScreamReceiver, ScreamRx, sendto
```

| Component | State | Operations | What is hard | What makes it correct |
|---|---|---|---|---|
| RTP queue and heap copies (`scream_core/RtpQueue`, `controllers/ScreamController`) | ring of 1024 slots, two ends, three cached counters, one heap copy per packet | `enqueueRtp`, `dequeueRtp`, `clear`, construction, destruction | two ends moved and tested separately; caches refreshed in three places; a loop ended by a counter another function decrements; manual memory | ring and counters agree, caches are fresh, each copy is owned once, it is a FIFO, `clear` ends |
| Packets in flight (`ScreamV2Tx`, one `Stream`) | table of 4096 slots, `bytesInFlight`, `hiSeqAck`, timestamps of the last ack | `isOkToTransmit`, `addTransmitted`, feedback (`markAcked`, `detectLoss`) | loss, reordering, duplication and delay of feedback; 16 bit wrap; timeout against a late ack; feedback before `addTransmitted` | the bytes counted are those of the packets out there, the window reopens, acked is not lost |
| Window and rate control (`ScreamV2Tx`) | `cwnd`, `mss`, three kinds of events and the times of the last ones; `cwndI`, L4S alpha, base delay, target bitrate | the event tests of the feedback, `updateCwnd` and what it calls, the resets of `mss` | events of several kinds share `lastLossEventT`; the window is counted in packets of a size that is forgotten every second; single precision numerics | a loss is answered, once per round trip time; the window admits the next packet; no packet waits for long |
| Several streams (`ScreamV2Tx`) | credit, priorities | `getPrioritizedStream`, `adjustPriorities` | - | not modelled: the app has one stream |
| Sender statistics (`ScreamTx.cpp`) | averages | `ScreamTx` statistics helpers | - | display only |
| Sender session (`wrapper/TestSession`, its JNI) | `running_`, `cc_`, `fd_`, two threads, `ccMutex_` | `start`, `stop`, `txLoop`, `rtcpLoop`, `snapshot` | `cc_` and `fd_` change without the mutex the threads use them under; joins; polls that are not waited for | no use of what is gone, nothing left behind, `stop` returns |
| Receiver engine (`ScreamRx`, `ScreamReceiver`) | highest numbers received and reported, a history of 512, `doFlush` | `receive`, `createStandardizedFeedback` | holes larger than a report, several blocks, wraps, overwritten history | no false ack, every in-order packet is acked |
| Receiver session (`wrapper/ReceiverSession`) | `running_`, `rx_`, `fd_`, one thread, `rxMutex_` | `start`, `stop`, `rxLoop`, `snapshot` | as the sender session | as the sender session |
| App (`ScreamEngine`, `ScreamService`, the buttons) | `_running`, `_rxRunning`, poll jobs, samples, foreground state, wakelock | five intents, `onDestroy`, Reset, polls | taps faster than the service; a stopSelf that is under way; a cancelled poll that still runs | a running session is kept awake, polled once, and its samples are kept |
| JNI binding, charts, build files | handles, pixels | - | - | no control of their own |

Data is shared as follows: the two sender threads and the polls share the
controller under `ccMutex_`, which the thread that starts and stops does not
take; the receiver's thread and its polls share `rx_` in the same way; the
service and the polls share `ScreamEngine` with a lock for the samples only.

`PROJECT.json` lists the hazards, each at its line with the properties that
would catch it, and every definition with the lines it stands for.

## 2. The modules

| Module | Models | Checked by |
|---|---|---|
| `RtpFifo` | what the queue promises: a bounded FIFO (abstract) | refined by `RtpQueue` |
| `RtpQueue` | `RtpQueue.cpp` and the calls of `ScreamController` on it | `MCRtpQueue`, `RtpQueueProofs` |
| `TxFlight` | packets in flight: window test, timeout, table, acks, loss detection | `MCTxFlight`, `LinkProofs` |
| `ScreamRx` | the receiver engine as `rxLoop` drives it | `MCScreamRx`, `ScreamRxProofs` |
| `Link` | sender and receiver over a network, with restarts: composes `TxFlight` and `ScreamRx` | `MCLink`, `LinkProofs` |
| `LossReaction` | when losses, CE marks and delay reduce the window | `MCLossReaction`, `LossReactionProofs` |
| `SendWindow` | the RTP queue in front of the window, `mss`, discards | `MCSendWindow`, `SendWindowProofs` |
| `SessionLife` | what a session with threads promises (abstract) | refined by the next two |
| `TestSession` | the sender session's four kinds of threads | `MCTestSession`, `TestSessionProofs` |
| `ReceiverSession` | the receiver session's three kinds of threads | `MCReceiverSession`, `ReceiverSessionProofs` |
| `ScreamApp` | buttons, service, engine, polls | `MCScreamApp`, `ScreamAppProofs` |

**RtpQueue.** The variables are the fields of `RtpQueue`, and `heap` is the set
of blocks `malloc` handed out. Every call is made with `ccMutex_` held and is
one action, except `clear()`: `ClearBegin`, a `ClearStep` per turn of its loop,
`ClearEnd`, because whether the loop ends is a question. `abandoned` is a history
variable: the blocks whose only pointer was destroyed. `RtpFifo` is instantiated
with `fifo <- Waiting`, the used slots from `tail` on.

**TxFlight.** `txPackets` is the set of packets in used slots. A packet has the
number `n` of its place in the stream; the code sees `SeqNr(n)`, taken modulo
65536, and `SlotOf(n)`. `pump()` is two actions, `Transmit` (window test, dequeue,
`sendto`) and `AddTransmitted`, since the mutex is free in between. `Feedback`
is the whole of `incomingStandardizedFeedback` for one block: the outer test for
reports out of order, then `Element` for each number reported as received, which
is `MarkAcked` and, for the last one or a frame's last packet, `DetectLoss`. The
receiver's arrival order is `arrivals`, a report is what was received after its
first `k` arrivals, and any report may be processed at any later time and any
number of times. `cwnd` may be anything up to `MaxWindow`: `WindowFull` is only
what no window may let pass, so the safety properties hold for every reaction
of the congestion control. The initial state may be one where `start` packets
were sent and acknowledged, so that the wrap happens inside the bound.

**Link** extends `TxFlight` and instantiates `ScreamRx` as `rx`. Its actions are theirs
(`LinkTransmit` is `Transmit` and what becomes of the packet, and so on), joined by two
queues, `rtp` and `rtcp`, from which the network takes what it likes, in any order or for
good. `LinkFeedback` takes the place of `Feedback`, whose reports come from `arrivals`. What `TxFlight` leaves free, which report arrives, is what `ScreamRx`
sends. `RestartSender` is `stop()` and `start()`: a new controller and
`seqNr_ = 0`; `RestartReceiver` forgets the stream. The packets of all sessions
have distinct places `n`, and a session starts at a multiple of `SeqNrs`. `net`
records how well the network has behaved, for the properties that are about a
good one. `delivered` is the packets received that a report may be about: all of them, but when the
sender is restarted with no message under way only those of the receiver's session.

**LossReaction.** The three events that `updateCwnd` consumes. `Elements` are the
elements of a report up to the last, in which `detectLoss` may raise the loss
event several times; `LastElement` is the block for the last one (the CE event,
the event for a long queue, the inhibition, `updateCwnd`), in the order of
the code. Whether a packet is lost, marked, the queue long, and the round trip
time are free. `log` is a history variable: the last loss, the loss
behind the last event, and the last reduction for a loss.

**SendWindow.** A turn of `txLoop`: `GenerateFrame` for each packet of a frame
(`frameLeft` are those to come; all share one critical section, so `Feedback` stays out until the
last one), then `Dequeue`, `AddTransmitted` until `NotOk`; the next turn (`Turn`) may come before
the next frame (`Tick`). `NotOk` resets `mss` when that is due with an empty queue too: the
only stream is prioritized whatever its queue holds. `Feedback` of the other thread comes at any
point; it takes bytes out of flight, and updates the window (`UpdateCwnd`) and the queue
(`UpdateTargetBitrate`) or does not, since what that depends on, the time since the last
update, an event or a new frame, is not followed. `refreshing` is whether the base delay is measured with this frame,
which clears the queue after each of its packets. Sizes are kept,
since the window is measured in the largest of them. `sentT` is a history
variable: when a packet of each size was last registered. `Grown` is the three
statements by which `mss` pulls up `cwndMin` and `cwnd`, in all the places they
occur. Feedback may set any window not below `cwndMin`, which is what the end of
`updateCwnd` ensures.

**SessionLife** has four variables: the phase, whether socket and engine exist, the
threads that were made and not joined, and those that are using the
objects. `TestSession` and `ReceiverSession` map their points to it (`Phase`,
`Alive`, `Using`); the mutexes do not appear in it, since what matters is done
outside them.

**TestSession.** A program counter per thread; an action is a step between two
points where another thread can interfere. `cc` is `"bare"` between
`make_unique` and `registerStream`. `UpdateTargetBitrate` and `NewMediaFrame`
are what these calls do to the queue; what else the controller computes is
nondeterministic.

**ReceiverSession** has the same grain; `rx` is whether `rx_` holds an engine, and
`unrecorded` counts the packets between `recvmsg` and `onRtpPacket`.

**ScreamRx.** `Receive` is a turn of `rxLoop`: `Stream::receive`, then
`createStandardizedFeedback` with as many blocks as fit. `hist` is the set of
packets whose number and receive time are in the history.

**ScreamApp.** A handler is one action, since the main thread runs one at a
time; a poll is two (`ReadMetrics`, `RecordSample`). What Android does is not
in the repository: the model takes intents to be delivered in order and
`stopSelf` to destroy the service after the intents already under way, and a
wakelock to be released when its timeout has passed (`Elapse`). `wakeLock` is the time it is
still held, which `EnsureForeground` sets only when it is not held; `shown` is a history variable,
how long the notification has been there.

The first state of every module is the one the program starts in, with the
exception of `start` above. Definitions that begin with `Mut` are mutations, a
plausible bug each; substituted for the definition they mutate they make one of
the properties fail, which shows that the property depends on that definition.

## 3. The runs

Passing:

| Run | Shows | Distinct states |
|---|---|---|
| `rtp_queue` | ring, counters, caches and copies agree at every step of `clear()` too; `clear()` ends; the queue is a FIFO | 225072 |
| `tx_flight` | `FlightAccounting`: `bytesInFlight` is the sum over the packets in the table no ack has overtaken, however the table was cut; `UnreportedIsCounted`: the window is opened by what was reported only, also across the wrap; `AckedNeverLost` | 132981 |
| `scream_rx` | `HighestIsHighest`, `NoFalseAck`, `InOrderIsAcked` with the catch-up over several messages | 161970 |
| `link` | `AckedWereReceived`: an ack means that the packet was received, or one of an earlier session with its number, whatever is lost, reordered or restarted; `NoSpuriousLoss`: with packets in order, a message that is lost or comes before its packet is registered is made good by the next one; `FirstSessionAcked`: over a quiet network everything is acknowledged; `NeverStuck`: the sender goes on whatever is lost | 398409 |
| `loss_reaction` | `LossAnswered`: no loss is hidden by events that come to nothing (without L4S); `OneLossReaction`: one reduction for losses in a round trip time | 61992 |
| `send_window` | `WindowAdmitsOne`: an idle window admits a packet no larger than one sent in the last second, whatever `mss` is reset to; `WaitIsBounded`: a queued packet is sent or discarded within the longer of `maxRtpQueueDelay` and the discard interval, the timeout and a frame, also when the queue is full | 965614 |
| `test_session` | `WorkersSafe`, `NothingLeftBehind`, `ImplementsLife`, `StopReturns`, and no deadlock | 11412 |
| `receiver_session` | `NothingLeftBehind`, `ImplementsLife`, `StopReturns`, and no deadlock | 883 |
| `scream_app` | `KeptAwake`: no stop of the other session and no late destruction takes the service or its wakelock from a running session (the wakelock for the time of its timeout); `OnePoll`, `SamplesKept` | 114168 |

Runs in which the code contradicts what its own comments or documents say; each
one is a finding in `PROJECT.json` with the quotation:

| Run | Contradicted |
|---|---|
| `rtp_queue_leak` | "we own a heap copy here and release it on dequeue": a controller destroyed with packets queued leaves their copies, and `RtpQueue` has no destructor |
| `test_session_snapshot` | "serialized under ccMutex_": `stop()` resets, and `start()` publishes, the controller without the mutex, so a poll can be inside `getMetrics` of one that is gone or has no stream |
| `link_restart` | "ACK feedback clocks out new packets": not for a sender that is started again beside a receiver that goes on, whose packets count as old until their numbers come near the old highest |

Limits of the code that the modules show when a bound is moved, and at which the
passing runs stop short; each is a hazard with a note:

- Reports that end more than 535 behind `hiSeqAck` are not recognised as out of
  order and set it back (`ScreamV2Tx.cpp:624`); the accounting survives it.
- `timeStampAckHigh` sticks after a gap of 0.555 s (`ScreamV2Tx.cpp:957`).
- After 16384 lost packets the receiver takes new ones for old (`ScreamRx.cpp:120`;
  `HighestIsHighest` with `MaxJump` above `WrapGap`, which `NetworkAssumption` excludes).
- A hole longer than a report across the wrap skips the catch-up (`ScreamRx.cpp:156`): the
  difference is taken in `int` and is negative there, so that packets received before the hole
  are passed over, which the comment at 157-161 says "can be reported later"
  (`InOrderIsAcked` with `SeqNrs` 16, `WrapGap` 7, `kRxHistorySize` 8, `MaxBlocks` 2,
  `First` 1, `MaxN` 19, `MaxJump` 4, `MaxLate` 0).
- Number 0 counts as fed back from the start (`ScreamRx.cpp:26`): when the first
  message is due beyond number 31, packet 0 is never reported (`InOrderIsAcked` with `First` 0,
  `MaxJump`, `Reported` and `MaxBlocks` 2, `SeqNrs` 16, `WrapGap` 6, `kRxHistorySize` 8, `MaxN` 15,
  `MaxLate` 1).
- With L4S a CE event that is taken back still sets `lastLossEventT` and hides a
  loss (`ScreamV2Tx.cpp:852`; `LossAnswered` without its first condition).
- When the queue is discarded so often that for two resets of `mss` only the
  small rests of frames are sent, the size of the full packets is forgotten: the
  next one does not fit the window although nothing is in flight, and goes out
  with the timeout (`ScreamV2Tx.cpp:431`; `WindowAdmitsOne` without `InUse`). Sizes sent within the
  last second are not forgotten, which is what the property says and the proof
  shows.
- The history of the receiver is not cleared when the numbers wrap. A slot to which
  nothing came for a whole round (all of its 128 numbers lost) still holds the packet of the
  round before, and reports its number (`NoFalseAck` without `SlotIdle`).
- The sequence number does not tell a packet from one of the last session. When the sender is
  restarted beside a receiver that goes on, a slot of the history, a message or a packet of
  the last session acknowledges the packet of the same number in the new one, also when
  it was lost (`AckedWereReceived` without its second case). That case is as narrow as it can be stated
  by the state: the packet with that number is of an earlier session, was received, and a report may still tell of it.
- A packet waits in the queue for longer than `maxRtpQueueDelay` (0.2 s), although the comment at
  `ScreamTx.h:242` has the queue cleared then: the age is looked at when a packet is accepted or feedback
  has its update due, and not within 0.25 s of the last discard. A full queue accepts nothing, so that
  without feedback only the timeout of 0.5 s makes room. The bound of `WaitIsBounded`, 0.75 s and a
  frame with these numbers, is reached: one less is violated in the run.
- The wakelock is acquired for six hours and not again while it is held (`ScreamService.kt:81,136`).
  A session that is started late in the six hours of the other, or of a start that failed,
  loses it before its own are over, and a session of more than six hours goes on without it
  (`KeptAwake` without `shown = MaxSession`). `PROJECT.md:215` says that the receiver shares the sender's service
  and wakelock and that long runs are supported, which the code does but for these hours;
  `TESTING.md:235-236` (no foreground service for the receiver) and `PROJECT.md:26` (still to do)
  are older than the code.
- Reports that stay away, or come late, for longer than the table holds: beyond the
  span of `SpanAssumption` a new packet takes the slot of one in flight
  (`FlightAccounting` with `kMaxTxPackets` 8).

## 4. Bounds

*Ring.* Three slots, four heap blocks (one more than the ring holds, so
that the full ring is reached with memory left), sizes 1 and 3, which no sum of
two slots confuses. The proofs lift every one of these.

*Flight.* The constants are scaled together: 64 sequence numbers for 65536, a
table of 32 for 4096, a strip (`AckWindow`) of 1 for 512, reports of 6 for 32, a
wrap gap of 20 for 20000, `OooDiff` 60 for 65000 and `OooSlack` 2 for 512. The
relations the code relies on are kept: numbers are a multiple of the table, the gap is less than
half of the numbers, and `SpanAssumption`. Three packets are sent with at most one missing between two,
from number 62, so the wrap
lies among them. A tick is half a second, the timeout; the RTP timestamps are in the same unit, so a
`TsJump` of 2 stands for 0.555 s rounded up. `MaxAhead` and `MaxBack`, how far packets run ahead of
reports and how late reports are, are 6 each, which three packets never exceed: they cut nothing
from this run and are there for the proofs.

`SpanAssumption` is the bound that matters: `MaxAhead + MaxBack + 2 * Reported + AckWindow` is at
most the table. In the code this leaves 3520 numbers for packets in
flight, gaps included, and late reports together. Beyond it the strip of `detectLoss` reaches slots
still in use and `FlightAccounting` fails, although `ScreamTx.h:85-88` promises
4096. Sessions are shorter than 4.9 hours, after which a sum of
times wraps 32 bits. A report ends at the highest packet received: reports that
catch up after a hole longer than 32 are in `ScreamRx`.

*Session.* Two polls: the current one and one that a past session has cancelled and that
still runs; the same for the receiver session. Two packets of queue, so that it is neither full nor empty at every step. The number of sessions is not bounded.

*Receiver.* 8 sequence numbers, a history of 4, reports of 3, feedback every
2 packets, one block per message, so that the catch-up
takes several messages. The stream starts at
number 3, a report from the initial 0, and ends at 17: more than a round, so that
the slots of the history are reused, and numbers repeat. Reordering and jumps are limited to 2, less than
the wrap gap of 3 (16384 in the code) and the history, as `NetworkAssumption` says.

*Link.* Sixteen numbers, a report of 2 and feedback after every packet: as in the
code (32 and 16) a report covers two feedback intervals, on which
`NoSpuriousLoss` rests. Three packets by all sessions of the sender together, two
packets and two messages in the network, one restart of either side: what a session leaves behind meets
the next one, with packets enough for a lost one between two that are reported. The proofs take any number of restarts. `MaxAhead` is the number of packets, which cuts nothing. Seven ticks: a timeout of two for each packet
and one to spare, without which `NeverStuck` would end at the bound of the clock. The
receiver's wrap gap is never reached. `link_restart` has a window of 8, so that
four packets fit, and one packet in the network.

*Loss reaction.* Round trip times 1 and 3 around a back off interval of 2, since
the code takes the smaller of the two; nine ticks are three of the longest round
trips. The proofs lift these bounds.

*Window.* A full packet is 6 and the rest 2 with an initial `mss` of 1, so that
a reset `mss` matters; frames of one to three packets, a queue of four, which a frame and a part of
the next fill. The intervals of `mss` and of a discard are two ticks and `maxRtpQueueDelay` is one, so that several
frames fall within the first two, and seven ticks are two resets, which are enough to
forget a size. With frames of three packets the bound of `WaitIsBounded` is met exactly. `windowHeadroom` is 1.5 or 3; the larger
`MaxCwnd` admits three packets. The refresh of the base delay may happen at any frame.

*App.* Two sessions, two polls, three intents under way; the wakelock's timeout is two steps of `Elapse`, which
come between any two intents, so that a session starts before, between and after them.

`CHECK_DEADLOCK FALSE` is set for `TxFlight`, `ScreamRx`, `Link`, `LossReaction`, `SendWindow` and
`ScreamApp`, whose bounds end every behaviour; `RtpQueue`, `TestSession` and
`ReceiverSession` are checked for deadlock.

## 5. Fairness

- `RtpQueue`: weak fairness of `ClearStep` and `ClearEnd`. The loop runs with
  the mutex held and does not block.
- `Link`: weak fairness of `LinkTransmitAfterTimeout` and `LinkAddTransmitted`
  (`txLoop` polls every 0.5 ms for as long as the session runs) and of the clock.
  Nothing is assumed of the network, the receiver or the window.
- `TestSession`: weak fairness of the thread inside `start` or `stop`, of both
  loops, of `recvfrom` timing out (`SO_RCVTIMEO` of 200 ms, set before the
  threads exist) and of each poll. The mutex is not assumed fair: a step that
  takes it shares its fairness with the rest of its thread, and no loop keeps it forever. The user and the arrival of feedback are not fair.
- `ReceiverSession`: the same for its one loop, and for `recvmsg` timing out.

Fairness is stated in `FairSpec`; safety is checked and proved for `Spec`, and a
property of every behaviour of `Spec` is one of `FairSpec`.

## 6. Proofs

`RtpQueueProofs`, for every ring size, set of positive packet sizes and heap
(assumptions `RingAssumption`, `SizesAssumption`, `NullAssumption` of `RtpQueue`):

- `TypeCorrect`, `RingCorrect` (`RingConsistent`), `NextSizeCorrect` (`NextSizeFresh`),
  `BytesCorrect` (`BytesConsistent`),
  `OwnershipCorrect` (`PacketsOwnedOnce`), and `QueueIsFifo`
  (`Spec => ImplementsFifo`).
- The invariant is `IInv`. `RingInv` joins the slot flags, the two ends and the
  counters: `push` tests only the slot after `head`, and that this slot is free
  exactly when the queue is not full needs the count, while `pop`
  tests only the slot at `tail`, so none of the three is inductive alone.
  `UsedSlotsTyped`, `Distinct` and `heap = Owned \cup abandoned` are what
  ownership needs: that `push` of a block `malloc` just returned shares it with no slot
  follows from `Owned` being inside the heap.
- The ring arithmetic is in `AtType`, `AtInjective`, `AtZero`, `AtNext` and
  `NextOfAt`; `PushKeepsRing` and `PopKeepsRing` are the two operations, used by
  every action that calls them; `PushIsPut` and `PopIsTake` are the steps of the
  refinement, as equalities of sequences.

`TestSessionProofs`, for any number of polls and any queue bound:

- `TypeCorrect`, `WorkersAreSafe`, `StopIsComplete`, and `ImplementsSessionLife`
  (`Spec => ImplementsLife`).
- `WorkersSafe` says nothing of where the starting thread is, so `CloseSocket`
  could break it. `Inv` adds what each point of `start` and `stop` has set up
  (`Setup`), when each thread exists (`TxExists`, `RtcpExists`), and that
  `unregistered` is 1 between `sendto` and `addTransmitted` and 0 elsewhere
  (`Registration`). `Quiet` is what a step of a worker or a poll leaves alone.

`ReceiverSessionProofs`, for any number of polls: `TypeCorrect`, `StopIsComplete`
and `ImplementsSessionLife`, from an invariant of the same shape; what `usable`
means in `SessionLife` is read off `Setup`, and `Join` needs that a joined thread uses nothing.

`LossReactionProofs`, for any round trip times, any back off interval and any
length of the session (`RttsAssumption`, `BackOffAssumption`, `TimeAssumption`):

- `TypeCorrect`, `LossIsAnswered`, `LossesReduceOnce` (`Spec => OneLossReaction`).
- `detectLoss` tests the time of the last *event* and the properties are about the
  last *reduction*, which another function sets later. `EventsReduce` ties the two
  without L4S, where every event reduces the window. For losses alone `CutWasEvent`
  does, with and without L4S; `PendingIsDue` carries the test at the time a
  loss is declared to the time it is acted upon, an unknown number of elements later.

`LinkProofs`, on `Spec` of `TxFlight`, for tables, windows and sessions of any length, any losses,
reordering, duplication and delay within `SpanAssumption`:

- `TypeCorrect`, `FlightCorrect` (`FlightAccounting`), `UnreportedCorrect`,
  `AckedCorrect`, all from `FlightInvariant` (`Spec => []FlightInv`).
- The code compares 16 bit numbers and computes slots from them; the proofs speak of
  places in the stream. `NotAfterIs`, `NumberMod` and `SameSlot` carry one to the
  other, for places not further apart than `Span`.
- None of the properties is inductive. `FlightInv` adds that `hiSeqAck` is the number of a packet
  near the last one reported and that no counted packet is before it
  (`EdgeInv`), that a packet is counted exactly while it lies after this edge and in the
  table (`TableInv`), and that none of those loses its slot (`LiveInv`, `Outgoing`).
- Within a report the invariant does not hold. `InFlight` is what holds while the
  element for one number is processed, `DetectLossCounts` and `AckKeeps` carry it over the
  two functions an element calls, `ReportKeeps` over all elements of a report.
- Sums over sets (`Bytes`) and the function over the elements of a report are recursive, and
  the prover has no induction rule it can instantiate. What induction would show is
  shown by least counterexamples: `SumsExist` takes a least set, by
  inclusion, over which no sum is defined, `StepsExist` a least number of elements.
  The same lemmas serve `BytesCorrect` in `RtpQueueProofs`.

`LinkProofs`, on `LinkSpec`, for any network, any number of restarts of either side, and
tables, windows, histories and feedback intervals of any size. `SessionAssumption` has
fewer packets, by all sessions together, than there are sequence numbers (65536 in the code: eleven
minutes at 100 packets a second, one minute at 1000), since a place and its number are then the same in the first
session. `ReportAssumption` has two feedback
intervals within a report (16 and 32 in the code), a report within the history (512) and
within what counts as in order (65000). The restriction to places not further
ahead of the last one acked than `MaxAhead` is that of `SpanAssumption` again.

- Whatever the network does (`LinkInvariant`): `LinkTypeCorrect`, `AckedCorrectOverLink`
  (`AckedWereReceived`), `LinkAckedCorrect` (`AckedNeverLost`, now across restarts). `LinkInv` keeps
  of the sender only `Outgoing` and `TableInv`: late feedback and that of another session set
  `hiSeqAck` anywhere, so `EdgeInv` and the accounting do not hold here. `NetInv` adds
  that each message on its way reports only numbers that were delivered, and `RxInv` that the
  history holds nothing else; with these an ack needs the receipt of a packet with that number.
- Which packet that was is `SessionInvariant`. A session has all places from its first to the last one
  sent, each was sent once, and there are at most `MaxTx` of them: so it does not use up the numbers, and
  two of its packets never share one. The table, and with it every ack, holds only packets of the
  session (`From`, kept by `AckFrom` and `DetectLossFrom` through every element of a report), and nothing
  on the network is later than the last one sent. An ack whose number was
  delivered in this session is therefore that of the very packet; else it is that of a packet
  of an earlier one.
- While the network is tidy (`TidyInvariant`): `NoSpuriousLossCorrect`. What the property says, that
  nothing is lost, depends on both ends and on every message between them, and `TidyInv` says
  where each of the three is. `SenderTidy`: all up to the edge is acked, and what follows is in the
  table. `ReceiverTidy`: the receiver has all up to `Top`, the history the last ones of these.
  `Chain`: each message ends 1 to `AckDiff` after the one before, and the first
  begins at the sender's edge or, when a message was just missed, at most `AckDiff`
  after it. A report therefore ends at most `2 * AckDiff` after the edge; since that is no
  more than `Reported`, it repeats every number not yet acked, `detectLoss` finds none that
  was not received (`ReportClean`, `FeedbackTidy`), and two messages missed in a row are just what this does not allow for.
- `FirstSessionCorrect` (`FirstSessionAcked`) follows: with nothing in the network and nothing
  unreported, `Chain` is empty and joins the edge to `Top`, which is the last packet sent.
  `CleanInv` is what is needed besides: a clean network is tidy for as long as the sender is in its
  first session. After a restart it need not be, and there `AllAcked` fails (`link_restart`).

`ScreamRxProofs`, for streams of any length that wrap as often as they like, any
history, report and feedback interval:

- `TypeCorrect`, `HighestCorrect` (`HighestIsHighest`), `NoFalseAckCorrect`.
- `HistLatest` is the strengthening: of the packets of a slot the last one of the stream
  is in the history, for which a late packet must not be later than the history is long
  (`NetworkAssumption`). `AdvancesIs` is the test of `Stream::receive` in terms of places;
  it needs that holes and delays are shorter than `WrapGap` (16384).
- `InOrderIsAcked` is false for all holes together with all wraps (section 3, Limits), so two
  theorems state where it holds. `InOrderCorrect`: with any number of wraps, when
  `ReportsReachBack` over the packets between two messages. With the code's 32, 16 and 13
  that is a `MaxJump` of 2, no two packets in a row lost, and a stream that begins
  before 387; at 3 a message across the wrap already passes packets over.
  `InOrderWithoutWrap`: when the numbers do not wrap and
  `HistoryReachesBack(J)`: up to 31 packets in a row are lost when the stream begins
  within 1..416 (`J` = 1), fewer when it takes `J` messages to reach its beginning.
- The history holds every packet not older than it is long (`HistComplete`). `ReachInv` adds
  that a message ends at the highest packet (`CaughtUp`) and that what is unreported came
  after it. `FollowInv` has four phases instead: no message yet (`Fresh`), at the highest
  (`Reached`), not yet at the beginning (`Starting`), and behind it with more to come
  (`Following`); everything up to `highestSeqNrTx` is acked, except packet 0 at the start
  (`ZeroIsFresh`). `EndIs` gives the ends of the blocks in closed form, `BlockAcks` what a
  block reports, `BlocksMeet` that no number falls between two of them.

`SendWindowProofs`, for any sizes, intervals, queue and frame length:

- `TypeCorrect`, `WindowCorrect` (`WindowAdmitsOne`), `WaitCorrect` (`WaitIsBounded`).
- `Remembered`: a size sent since the last reset is in `mss`, one sent in
  the interval before the reset in `mss` or `prevMss`. Only the two together survive a reset, which throws
  `prevMss` away. An idle pump resets `mss` like any other, which `NotOk` and `Dequeue` share.
- `Waits` and `FilledInTime`: an accepted packet leaves a head that is not old, since
  it would have cleared the queue; an old head exists only in a full queue, that queue
  filled while its head was young and after the last transmission, and so the timeout comes
  in time. Each part needs the point of `txLoop`.

`ScreamAppProofs`, for any number of polls, sessions and intents under way:
`TypeCorrect`, `StaysAwake` (`KeptAwake`), `PolledOnce` (`OnePoll`), `SamplesAreKept` (`SamplesKept`).
`OnePoll` counts the polls; `PollOfRunning` says which one it is. `LockLasts` is what `KeptAwake` needs of time:
the wakelock is held for at least as long as the notification has yet to be shown to reach the timeout.

Model-checked and not proved:

- `ClearTerminates`, `StopReturns` and `NeverStuck`: the prover has no rule for
  fairness and ENABLED.
- `InOrderIsAcked` at the constants of `scream_rx`, which meet the hypothesis of neither
  theorem: one block to a message, so that the catch-up and the wraps meet.
- What the composition does on a network that is not tidy, beyond `LinkInv`: the
  accounting of bytes after feedback of another session is neither claimed nor proved.

## 7. Not modelled

- The sizes `updateCwnd` computes, L4S alpha, pacing rate, base delay and target
  bitrate: single precision numerics with tuned constants. Their effects on the parts that are
  modelled are nondeterministic: any window not below its least, any pacing, a queue
  refreshed at any time. When the window is reduced is `LossReaction`.
- Sessions of more than 4.9 hours, after which `timeTx + reorderTime + tsDiffCorrection`
  wraps 32 bits, and the wrap of the 18 hour clock.
- Priorities and credit of several streams: `getPrioritizedStream` returns the
  only stream before it looks at them.
- Out of order packets in `ScreamRx` (`isOooHist`, `createStandardizedFeedbackOoo`):
  recorded and never reported, since nothing calls the function.
- Statistics, charts, layout, the copies of arrays through the JNI, the
  log files, the build.
- `sendPacket`, `setSizeOfLastFrame`, `destroy`, `updateBitrateStream`: no caller.

## 8. Plan

Done, in this order: the queue and its abstract FIFO; the flight account; the
sender session; the receiver engine; the app; the receiver session and the
abstract session both implement; sender and receiver composed, with restarts;
the reaction to losses; the window and its queue. Proofs of the queue, both
sessions and the reaction to losses; of the app, the window, the receiver engine and the
packets in flight; of sender and receiver together.

Next, in order of weight:

1. Proofs: `InOrderIsAcked` for streams that wrap and catch up elsewhere; `NoSpuriousLoss` for
   streams longer than the sequence numbers.
2. `ScreamApp`: a sample of the last session recorded after the next has begun, a
   failed start that has erased the samples and keeps the wakelock.
3. 32 bit time: the wrap of `timeTx + reorderTime + tsDiffCorrection` after 4.9 hours.
