------------------------------ MODULE RtpQueue ------------------------------
(***************************************************************************)
(* The RTP queue of one stream (scream_core/RtpQueue.cpp) and the calls    *)
(* ScreamController makes on it: a ring of kRtpQueueSize slots, three      *)
(* cached counters, and the heap copy of each packet it holds.             *)
(*                                                                         *)
(* Every call is made with TestSession's ccMutex_ held, so a call is one   *)
(* step, except clear(), whose loop makes one step per packet because      *)
(* whether the loop ends depends on the counters it reads.                 *)
(***************************************************************************)
EXTENDS Integers, Sequences, FiniteSetsExt

CONSTANTS kRtpQueueSize,     \* slots of the ring (1024 in the code)
          PacketSizes,       \* sizes of RTP packets
          Buffers,           \* heap blocks malloc can return
          NULL               \* the null pointer

ASSUME RingAssumption == kRtpQueueSize \in Nat \ {0}
ASSUME SizesAssumption == PacketSizes \subseteq Nat \ {0}
ASSUME NullAssumption == NULL \notin Buffers

VARIABLES
  items,            \* the slots: used, size, packet (pointer to the heap copy)
  head,             \* index of the last inserted item, -1 before the first
  tail,             \* index of the oldest item
  bytesInQueue_,    \* cached number of bytes in the queue
  sizeOfQueue_,     \* cached number of items in the queue
  sizeOfNextRtp_,   \* cached size of the oldest packet, -1 if there is none
  clearing,         \* a call of clear() is inside its loop
  alive,            \* the controller, hence the queue, exists
  heap,             \* heap blocks allocated and not freed
  abandoned,        \* heap blocks whose only pointer was lost (history)
  out               \* the packet the last dequeueRtp copied out, <<>> if none

ring == <<items, head, tail, bytesInQueue_, sizeOfQueue_, sizeOfNextRtp_>>
vars == <<items, head, tail, bytesInQueue_, sizeOfQueue_, sizeOfNextRtp_,
          clearing, alive, heap, abandoned, out>>

Slots == 0 .. kRtpQueueSize - 1
Packet == [size : PacketSizes, packet : Buffers]
Item == [used : BOOLEAN, size : Nat, packet : Buffers \cup {NULL}]

TypeOK ==
  /\ items \in [Slots -> Item]
  /\ head \in -1 .. kRtpQueueSize - 1
  /\ tail \in Slots
  /\ bytesInQueue_ \in Int
  /\ sizeOfQueue_ \in Int
  /\ sizeOfNextRtp_ \in Int
  /\ clearing \in BOOLEAN
  /\ alive \in BOOLEAN
  /\ heap \in SUBSET Buffers
  /\ abandoned \in SUBSET Buffers
  /\ out \in {<<>>} \cup {<<p>> : p \in Packet}

(* RtpQueue::RtpQueue: no slot is used, and the counters say so. *)
EmptyRing ==
  /\ items = [s \in Slots |-> [used |-> FALSE, size |-> 0, packet |-> NULL]]
  /\ head = -1
  /\ tail = 0
  /\ bytesInQueue_ = 0
  /\ sizeOfQueue_ = 0
  /\ sizeOfNextRtp_ = -1

Init == /\ EmptyRing
        /\ clearing = FALSE
        /\ alive = TRUE
        /\ heap = {}
        /\ abandoned = {}
        /\ out = <<>>

-----------------------------------------------------------------------------
(* The next index on the ring, as push and pop advance head and tail. *)
NextIx(i) == IF i + 1 = kRtpQueueSize THEN 0 ELSE i + 1

(* computeSizeOfNextRtp: the cache, from a ring `its` whose oldest slot is t. *)
SizeOfOldest(its, t) == IF its[t].used THEN its[t].size ELSE -1

(* Mutants of push: no test of the slot, and no refresh of the cache. *)
MutPushOverwrites(b, size) ==
  LET ix == NextIx(head)
  IN  /\ head' = ix
      /\ items' = [items EXCEPT ![ix] =
                     [used |-> TRUE, size |-> size, packet |-> b]]
      /\ bytesInQueue_' = bytesInQueue_ + size
      /\ sizeOfQueue_' = sizeOfQueue_ + 1
      /\ sizeOfNextRtp_' = SizeOfOldest(items', tail)
      /\ tail' = tail

MutPushStaleCache(b, size) ==
  LET ix == NextIx(head)
  IN  /\ ~items[ix].used
      /\ head' = ix
      /\ items' = [items EXCEPT ![ix] =
                     [used |-> TRUE, size |-> size, packet |-> b]]
      /\ bytesInQueue_' = bytesInQueue_ + size
      /\ sizeOfQueue_' = sizeOfQueue_ + 1
      /\ UNCHANGED <<sizeOfNextRtp_, tail>>

(* RtpQueue::push of the heap copy b, when the slot after head is free. *)
Push(b, size) ==
  LET ix == NextIx(head)
  IN  /\ ~items[ix].used
      /\ head' = ix
      /\ items' = [items EXCEPT ![ix] =
                     [used |-> TRUE, size |-> size, packet |-> b]]
      /\ bytesInQueue_' = bytesInQueue_ + size
      /\ sizeOfQueue_' = sizeOfQueue_ + 1
      /\ sizeOfNextRtp_' = SizeOfOldest(items', tail)
      /\ tail' = tail

(* A slot given up keeps its stale fields. *)
Vacated(item) ==
  [used |-> FALSE, size |-> item.size, packet |-> item.packet]

(* Mutant of pop: the bytes are taken from the slot tail moved on to. *)
MutPopSizeAfterAdvance ==
  /\ items[tail].used
  /\ items' = [items EXCEPT ![tail] = Vacated(items[tail])]
  /\ tail' = NextIx(tail)
  /\ bytesInQueue_' = bytesInQueue_ - items[NextIx(tail)].size
  /\ sizeOfQueue_' = sizeOfQueue_ - 1
  /\ sizeOfNextRtp_' = SizeOfOldest(items', tail')
  /\ head' = head

(* RtpQueue::pop when the oldest slot is used. *)
Pop ==
  /\ items[tail].used
  /\ items' = [items EXCEPT ![tail] = Vacated(items[tail])]
  /\ tail' = NextIx(tail)
  /\ bytesInQueue_' = bytesInQueue_ - items[tail].size
  /\ sizeOfQueue_' = sizeOfQueue_ - 1
  /\ sizeOfNextRtp_' = SizeOfOldest(items', tail')
  /\ head' = head

(* RtpQueue::pop when it is not: the packet pointer is set to NULL. *)
PopNothing ==
  /\ ~items[tail].used
  /\ sizeOfNextRtp_' = -1
  /\ UNCHANGED <<items, head, tail, bytesInQueue_, sizeOfQueue_>>

Idle == alive /\ ~clearing
-----------------------------------------------------------------------------
(* ScreamController::enqueueRtp: malloc, memcpy, push.  malloc may return   *)
(* any block that is not in use.                                            *)
EnqueueRtp(b, size) ==
  /\ Idle
  /\ b \notin heap
  /\ Push(b, size)
  /\ heap' = heap \cup {b}
  /\ UNCHANGED <<clearing, alive, abandoned, out>>

(* The same call when the ring is full (the copy is freed again) or when    *)
(* malloc returns null: the caller is told false and nothing is kept.       *)
EnqueueRefused ==
  /\ Idle
  /\ items[NextIx(head)].used \/ heap = Buffers
  /\ UNCHANGED vars

(* Mutants of dequeueRtp: the fields are read after the pop, or from the    *)
(* newest packet.                                                           *)
MutDequeueReadsAfterPop ==
  /\ Idle
  /\ Pop
  /\ out' = <<[size |-> items[tail'].size, packet |-> items[tail'].packet]>>
  /\ heap' = heap \ {items[tail].packet}
  /\ UNCHANGED <<clearing, alive, abandoned>>

MutDequeueNewest ==
  /\ Idle
  /\ Pop
  /\ out' = <<[size |-> items[head].size, packet |-> items[head].packet]>>
  /\ heap' = heap \ {items[tail].packet}
  /\ UNCHANGED <<clearing, alive, abandoned>>

(* ScreamController::dequeueRtp: pop, copy out, free. *)
DequeueRtp ==
  /\ Idle
  /\ Pop
  /\ out' = <<[size |-> items[tail].size, packet |-> items[tail].packet]>>
  /\ heap' = heap \ {items[tail].packet}
  /\ UNCHANGED <<clearing, alive, abandoned>>

(* The same call on an empty queue returns -1. *)
DequeueNothing ==
  /\ Idle
  /\ PopNothing
  /\ out' = <<>>
  /\ UNCHANGED <<clearing, alive, heap, abandoned>>

(* RtpQueue::clear, called by ScreamV2Tx when the queue delay is too large  *)
(* or the base delay is refreshed.                                          *)
ClearBegin ==
  /\ Idle
  /\ clearing' = TRUE
  /\ UNCHANGED <<ring, alive, heap, abandoned, out>>

(* Mutants of its loop: the packet is not freed, or looked at and not popped. *)
MutClearStepLeaks ==
  /\ clearing
  /\ sizeOfQueue_ > 0
  /\ Pop
  /\ UNCHANGED <<clearing, alive, heap, abandoned, out>>

MutClearStepPeeks ==
  /\ clearing
  /\ sizeOfQueue_ > 0
  /\ heap' = heap \ {items[tail].packet}
  /\ UNCHANGED <<ring, clearing, alive, abandoned, out>>

(* One turn of its loop: pop, and free the packet unless it is NULL. *)
ClearStep ==
  /\ clearing
  /\ sizeOfQueue_ > 0
  /\ IF items[tail].used
       THEN Pop /\ heap' = heap \ {items[tail].packet}
       ELSE PopNothing /\ heap' = heap
  /\ UNCHANGED <<clearing, alive, abandoned, out>>

ClearEnd ==
  /\ clearing
  /\ ~(sizeOfQueue_ > 0)
  /\ clearing' = FALSE
  /\ UNCHANGED <<ring, alive, heap, abandoned, out>>

(* The heap blocks the ring points to. *)
Owned == {items[s].packet : s \in {r \in Slots : items[r].used}}

(* ScreamController::~ScreamController deletes the queue, which has no      *)
(* destructor: what its slots point to stays allocated and unreachable.     *)
Destroy ==
  /\ Idle
  /\ alive' = FALSE
  /\ items' = [s \in Slots |-> [used |-> FALSE, size |-> 0, packet |-> NULL]]
  /\ head' = -1 /\ tail' = 0
  /\ bytesInQueue_' = 0 /\ sizeOfQueue_' = 0 /\ sizeOfNextRtp_' = -1
  /\ abandoned' = abandoned \cup Owned
  /\ out' = <<>>
  /\ UNCHANGED <<clearing, heap>>

(* ScreamController::registerStream of the next session: a fresh RtpQueue. *)
RegisterStream ==
  /\ ~alive
  /\ alive' = TRUE
  /\ UNCHANGED <<ring, clearing, heap, abandoned, out>>

Next == \/ \E b \in Buffers, size \in PacketSizes : EnqueueRtp(b, size)
        \/ EnqueueRefused
        \/ DequeueRtp \/ DequeueNothing
        \/ ClearBegin \/ ClearStep \/ ClearEnd
        \/ Destroy \/ RegisterStream

Spec == Init /\ [][Next]_vars

(* A call of clear() that has begun runs on: it holds the mutex and does    *)
(* not block.                                                               *)
FairSpec == Spec /\ WF_vars(ClearStep) /\ WF_vars(ClearEnd)
-----------------------------------------------------------------------------
(* The slot k places after slot t, for k < kRtpQueueSize. *)
At(t, k) == IF t + k < kRtpQueueSize THEN t + k ELSE t + k - kRtpQueueSize

(* The packets waiting, oldest first. *)
Waiting == [k \in 1 .. sizeOfQueue_ |->
              [size |-> items[At(tail, k - 1)].size,
               packet |-> items[At(tail, k - 1)].packet]]

(* The used slots are the sizeOfQueue_ slots from tail on, the last of      *)
(* which is head: push and pop, which test and move the two ends            *)
(* separately, never leave a hole, overrun each other or lose count, also   *)
(* between two steps of clear().                                            *)
RingConsistent ==
  /\ sizeOfQueue_ \in 0 .. kRtpQueueSize
  /\ \A k \in Slots : items[At(tail, k)].used <=> k < sizeOfQueue_
  /\ NextIx(head) = IF sizeOfQueue_ = kRtpQueueSize
                      THEN tail ELSE At(tail, sizeOfQueue_)

(* The size isOkToTransmit tests the window against is that of the packet   *)
(* dequeueRtp would return now: the cache is never stale.                   *)
NextSizeFresh ==
  sizeOfNextRtp_ = IF sizeOfQueue_ = 0 THEN -1 ELSE items[tail].size

(* bytesInQueue_, which frame pacing is scaled by, is the sum over the      *)
(* packets waiting.                                                         *)
BytesConsistent ==
  bytesInQueue_ = MapThenSumSet(LAMBDA s : items[s].size,
                                {s \in Slots : items[s].used})

(* Each heap copy has one owner: two slots never share a block, a used slot *)
(* never points to a freed one (so none is freed twice), and a block still  *)
(* allocated is in the ring unless its queue was destroyed around it.       *)
PacketsOwnedOnce ==
  /\ \A r, s \in Slots :
        items[r].used /\ items[s].used /\ r # s
          => items[r].packet # items[s].packet
  /\ heap = Owned \cup abandoned
  /\ Owned \cap abandoned = {}

(* A discard always ends: clear() loops on a counter that pop, not the      *)
(* loop, decrements.                                                        *)
ClearTerminates == clearing ~> ~clearing

(* The queue is a bounded FIFO, whatever the ring does. *)
Fifo == INSTANCE RtpFifo WITH Capacity <- kRtpQueueSize,
                              fifo <- Waiting, sent <- out
ImplementsFifo == Fifo!Spec

(* ScreamController.cpp says of the heap copy made by enqueueRtp that the   *)
(* controller owns it and releases it: with the controller gone, no copy    *)
(* would be left.                                                           *)
NoPacketOutlivesController == ~alive => heap = {}
=============================================================================
