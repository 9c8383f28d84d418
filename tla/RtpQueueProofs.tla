--------------------------- MODULE RtpQueueProofs ---------------------------
(***************************************************************************)
(* Proofs about RtpQueue, for every ring size, set of packet sizes and     *)
(* heap.  IInv is the inductive invariant: the two ends of the ring, the   *)
(* slot flags and the counters are kept consistent by each other, so none  *)
(* of the conjuncts is inductive alone.                                    *)
(***************************************************************************)
EXTENDS RtpQueue, SequenceTheorems, FiniteSetTheorems, TLAPS

(* What a used slot holds could have been enqueued. *)
UsedSlotsTyped ==
  \A s \in Slots : items[s].used => /\ items[s].size \in PacketSizes
                                    /\ items[s].packet \in Buffers

(* The ring and its counters. *)
RingInv == /\ items \in [Slots -> Item]
           /\ head \in -1 .. kRtpQueueSize - 1
           /\ tail \in Slots
           /\ bytesInQueue_ \in Int
           /\ sizeOfNextRtp_ \in Int
           /\ RingConsistent
           /\ NextSizeFresh

(* No two used slots share a heap copy. *)
Distinct == \A r, s \in Slots :
              items[r].used /\ items[s].used /\ r # s
                => items[r].packet # items[s].packet

IInv == /\ RingInv
        /\ UsedSlotsTyped
        /\ Distinct
        /\ heap = Owned \cup abandoned
        /\ Owned \cap abandoned = {}
        /\ clearing \in BOOLEAN /\ alive \in BOOLEAN
        /\ heap \in SUBSET Buffers /\ abandoned \in SUBSET Buffers
        /\ out \in {<<>>} \cup {<<p>> : p \in Packet}

-----------------------------------------------------------------------------
(* Arithmetic of the ring. *)
LEMMA AtType ==
  ASSUME NEW t \in Slots, NEW k \in Slots
  PROVE  At(t, k) \in Slots
BY RingAssumption DEF At, Slots

LEMMA AtInjective ==
  ASSUME NEW t \in Slots, NEW j \in Slots, NEW k \in Slots,
         At(t, j) = At(t, k)
  PROVE  j = k
BY RingAssumption DEF At, Slots

LEMMA AtZero ==
  ASSUME NEW t \in Slots
  PROVE  /\ 0 \in Slots
         /\ At(t, 0) = t
BY RingAssumption DEF At, Slots

(* Moving the oldest end by one shifts every later place down by one, and   *)
(* the slot given up becomes the last place.                                *)
LEMMA AtNext ==
  ASSUME NEW t \in Slots, NEW k \in Slots
  PROVE  /\ NextIx(t) \in Slots
         /\ k + 1 < kRtpQueueSize => /\ k + 1 \in Slots
                                     /\ At(NextIx(t), k) = At(t, k + 1)
         /\ k + 1 = kRtpQueueSize => At(NextIx(t), k) = t
BY RingAssumption DEF At, NextIx, Slots

LEMMA NextOfAt ==
  ASSUME NEW t \in Slots, NEW k \in Slots
  PROVE  NextIx(At(t, k)) = IF k + 1 = kRtpQueueSize THEN t ELSE At(t, k + 1)
BY RingAssumption DEF At, NextIx, Slots
-----------------------------------------------------------------------------
(* The two operations on the ring.  Each preserves RingConsistent and       *)
(* NextSizeFresh: what the slot flags say about the ends is what the        *)
(* counters say.                                                            *)
LEMMA RoomWhenFree ==
  ASSUME RingInv, ~items[NextIx(head)].used
  PROVE  /\ sizeOfQueue_ \in Slots
         /\ NextIx(head) = At(tail, sizeOfQueue_)
         /\ NextIx(head) \in Slots
<1>1. sizeOfQueue_ # kRtpQueueSize
  <2>1. SUFFICES ASSUME sizeOfQueue_ = kRtpQueueSize PROVE FALSE
    OBVIOUS
  <2>2. NextIx(head) = tail
    BY <2>1 DEF RingInv, RingConsistent
  <2>3. items[tail].used
    BY <2>1, AtZero, RingAssumption DEF RingInv, RingConsistent
  <2>. QED BY <2>2, <2>3
<1>2. sizeOfQueue_ \in Slots
  BY <1>1, RingAssumption DEF RingInv, RingConsistent, Slots
<1>. QED BY <1>1, <1>2, AtType DEF RingInv, RingConsistent

LEMMA PushKeepsRing ==
  ASSUME RingInv, NEW b \in Buffers, NEW size \in PacketSizes, Push(b, size)
  PROVE  RingInv'
<1> DEFINE ix == NextIx(head)
<1>1. /\ ~items[ix].used
      /\ head' = ix
      /\ items' = [items EXCEPT ![ix] =
                     [used |-> TRUE, size |-> size, packet |-> b]]
      /\ bytesInQueue_' = bytesInQueue_ + size
      /\ sizeOfQueue_' = sizeOfQueue_ + 1
      /\ sizeOfNextRtp_' = SizeOfOldest(items', tail)
      /\ tail' = tail
  BY DEF Push
<1>2. /\ sizeOfQueue_ \in Slots
      /\ ix = At(tail, sizeOfQueue_)
      /\ ix \in Slots
  BY <1>1, RoomWhenFree
<1>3. size \in Nat /\ size > 0
  BY SizesAssumption
<1> HIDE DEF ix
<1>4. items' \in [Slots -> Item]
  BY <1>1, <1>2, <1>3 DEF RingInv, Item
<1>5. /\ head' \in -1 .. kRtpQueueSize - 1
      /\ tail' \in Slots
      /\ bytesInQueue_' \in Int
  BY <1>1, <1>2, <1>3, RingAssumption DEF RingInv, Slots
<1>6. sizeOfQueue_' \in 1 .. kRtpQueueSize
  BY <1>1, <1>2, RingAssumption DEF Slots
<1>7. ASSUME NEW k \in Slots
      PROVE  items'[At(tail', k)].used <=> k < sizeOfQueue_'
  <2>1. tail \in Slots /\ At(tail, k) \in Slots
    BY AtType DEF RingInv
  <2>2. CASE k = sizeOfQueue_
    BY <1>1, <1>2, <2>1, <2>2 DEF RingInv, Slots
  <2>3. CASE k # sizeOfQueue_
    <3>1. At(tail, k) # ix
      BY <1>2, <2>1, <2>3, AtInjective
    <3>2. items'[At(tail, k)] = items[At(tail, k)]
      BY <1>1, <2>1, <3>1 DEF RingInv
    <3>3. items[At(tail, k)].used <=> k < sizeOfQueue_
      BY DEF RingInv, RingConsistent
    <3>. QED BY <1>1, <1>2, <2>3, <3>2, <3>3 DEF Slots
  <2>. QED BY <2>2, <2>3
<1>8. NextIx(head') = IF sizeOfQueue_' = kRtpQueueSize
                        THEN tail' ELSE At(tail', sizeOfQueue_')
  BY <1>1, <1>2, NextOfAt DEF RingInv
<1>9. RingConsistent'
  BY <1>1, <1>6, <1>7, <1>8, RingAssumption DEF RingConsistent, At, NextIx, Slots
<1>10. NextSizeFresh'
  <2>1. items'[tail'].used
    BY <1>6, <1>7, AtZero, <1>5
  <2>. QED BY <1>1, <1>6, <2>1 DEF NextSizeFresh, SizeOfOldest
<1>11. sizeOfNextRtp_' \in Int
  BY <1>1, <1>4, <1>5 DEF SizeOfOldest, Item
<1>. QED BY <1>4, <1>5, <1>9, <1>10, <1>11 DEF RingInv

LEMMA PopKeepsRing ==
  ASSUME RingInv, Pop
  PROVE  RingInv'
<1>1. /\ items[tail].used
      /\ items' = [items EXCEPT ![tail] = Vacated(items[tail])]
      /\ tail' = NextIx(tail)
      /\ bytesInQueue_' = bytesInQueue_ - items[tail].size
      /\ sizeOfQueue_' = sizeOfQueue_ - 1
      /\ sizeOfNextRtp_' = SizeOfOldest(items', tail')
      /\ head' = head
  BY DEF Pop
<1>2. tail \in Slots /\ tail' \in Slots
  BY <1>1, AtNext DEF RingInv
<1>3. items' \in [Slots -> Item] /\ items[tail].size \in Nat
  BY <1>1, <1>2 DEF RingInv, Item, Vacated
<1>4. sizeOfQueue_ \in 1 .. kRtpQueueSize
  BY <1>1, <1>2, AtZero DEF RingInv, RingConsistent
<1>5. ASSUME NEW k \in Slots
      PROVE  items'[At(tail', k)].used <=> k < sizeOfQueue_'
  <2>1. CASE k + 1 < kRtpQueueSize
    <3>1. k + 1 \in Slots /\ At(tail', k) = At(tail, k + 1)
      BY <1>1, <1>2, <2>1, AtNext
    <3>2. At(tail, k + 1) # tail
      BY <1>2, <3>1, AtZero, AtInjective, 0 # k + 1 DEF Slots
    <3>3. items'[At(tail, k + 1)].used <=> items[At(tail, k + 1)].used
      BY <1>1, <1>2, <3>1, <3>2, AtType DEF RingInv
    <3>4. items[At(tail, k + 1)].used <=> k + 1 < sizeOfQueue_
      BY <3>1 DEF RingInv, RingConsistent
    <3>. QED BY <1>1, <1>4, <3>1, <3>3, <3>4 DEF Slots
  <2>2. CASE k + 1 = kRtpQueueSize
    <3>1. At(tail', k) = tail
      BY <1>1, <1>2, <2>2, AtNext
    <3>2. ~items'[tail].used
      BY <1>1, <1>2 DEF RingInv, Item, Vacated
    <3>. QED BY <1>1, <1>4, <2>2, <3>1, <3>2 DEF Slots
  <2>. QED BY <2>1, <2>2, RingAssumption DEF Slots
<1>6. NextIx(head') = At(tail', sizeOfQueue_')
  <2>1. sizeOfQueue_' \in Slots /\ sizeOfQueue_' + 1 = sizeOfQueue_
    BY <1>1, <1>4, RingAssumption DEF Slots
  <2>2. CASE sizeOfQueue_ = kRtpQueueSize
    <3>1. At(tail', sizeOfQueue_') = tail
      BY <1>1, <1>2, <2>1, <2>2, AtNext
    <3>. QED BY <1>1, <2>2, <3>1 DEF RingInv, RingConsistent
  <2>3. CASE sizeOfQueue_ < kRtpQueueSize
    <3>1. At(tail', sizeOfQueue_') = At(tail, sizeOfQueue_)
      BY <1>1, <1>2, <2>1, <2>3, AtNext
    <3>. QED BY <1>1, <2>3, <3>1 DEF RingInv, RingConsistent
  <2>. QED BY <1>4, <2>2, <2>3, RingAssumption
<1>7. sizeOfQueue_' \in 0 .. kRtpQueueSize /\ sizeOfQueue_' # kRtpQueueSize
  BY <1>1, <1>4, RingAssumption
<1>8. RingConsistent'
  BY <1>5, <1>6, <1>7, RingAssumption DEF RingConsistent, At, NextIx, Slots
<1>9. NextSizeFresh'
  <2>1. items'[tail'].used <=> 0 < sizeOfQueue_'
    BY <1>2, <1>5, AtZero
  <2>2. sizeOfNextRtp_' = IF items'[tail'].used THEN items'[tail'].size ELSE -1
    BY <1>1 DEF SizeOfOldest
  <2>3. CASE sizeOfQueue_' = 0
    BY <2>1, <2>2, <2>3 DEF NextSizeFresh
  <2>4. CASE sizeOfQueue_' > 0
    BY <1>7, <2>1, <2>2, <2>4 DEF NextSizeFresh
  <2>. QED BY <1>7, <2>3, <2>4, RingAssumption
<1>10. sizeOfNextRtp_' \in Int
  BY <1>1, <1>2, <1>3 DEF SizeOfOldest, Item
<1>11. head' \in -1 .. kRtpQueueSize - 1 /\ bytesInQueue_' \in Int
  BY <1>1, <1>3 DEF RingInv
<1>. QED BY <1>2, <1>3, <1>8, <1>9, <1>10, <1>11 DEF RingInv
LEMMA PopNothingKeepsRing ==
  ASSUME RingInv, PopNothing
  PROVE  RingInv' /\ sizeOfQueue_ = 0
<1>1. sizeOfQueue_ = 0
  BY AtZero, RingAssumption DEF PopNothing, RingInv, RingConsistent
<1>2. RingConsistent' /\ NextSizeFresh'
  BY <1>1 DEF PopNothing, RingInv, RingConsistent, NextSizeFresh, At, NextIx, Slots
<1>. QED BY <1>1, <1>2 DEF PopNothing, RingInv

-----------------------------------------------------------------------------
(* Ownership of the heap copies. *)
(* A block that is not owned goes into a slot that is not used. *)
LEMMA PushOwns ==
  ASSUME RingInv, UsedSlotsTyped, Distinct,
         NEW b \in Buffers, b \notin Owned,
         NEW size \in PacketSizes, Push(b, size)
  PROVE  /\ Owned' = Owned \cup {b}
         /\ Distinct'
         /\ UsedSlotsTyped'
<1> DEFINE ix == NextIx(head)
<1>1. /\ ~items[ix].used
      /\ ix \in Slots
      /\ items' = [items EXCEPT ![ix] =
                     [used |-> TRUE, size |-> size, packet |-> b]]
      /\ items \in [Slots -> Item]
  BY RoomWhenFree DEF Push, RingInv
<1> HIDE DEF ix
<1>2. /\ items'[ix].used
      /\ items'[ix].packet = b
      /\ items'[ix].size = size
      /\ \A s \in Slots : s # ix => items'[s] = items[s]
  BY <1>1
<1>3. Owned' = Owned \cup {b}
  BY <1>1, <1>2 DEF Owned
<1>4. \A s \in Slots : items[s].used => items[s].packet # b
  BY DEF Owned
<1>5. Distinct'
  BY <1>1, <1>2, <1>4 DEF Distinct
<1>6. UsedSlotsTyped'
  BY <1>1, <1>2 DEF UsedSlotsTyped
<1>. QED BY <1>3, <1>5, <1>6

(* The block of the oldest slot is owned no more, and was owned only there. *)
LEMMA PopDisowns ==
  ASSUME RingInv, UsedSlotsTyped, Distinct, Pop
  PROVE  /\ Owned' = Owned \ {items[tail].packet}
         /\ Distinct'
         /\ UsedSlotsTyped'
         /\ items[tail].packet \in Owned
<1>1. /\ items[tail].used
      /\ tail \in Slots
      /\ items' = [items EXCEPT ![tail] = Vacated(items[tail])]
      /\ items \in [Slots -> Item]
  BY DEF Pop, RingInv
<1>2. /\ ~items'[tail].used
      /\ \A s \in Slots : s # tail => items'[s] = items[s]
  BY <1>1 DEF Vacated
<1>3. items[tail].packet \in Owned
  BY <1>1 DEF Owned
<1>4. Owned' = Owned \ {items[tail].packet}
  BY <1>1, <1>2 DEF Owned, Distinct
<1>5. Distinct'
  BY <1>1, <1>2 DEF Distinct
<1>6. UsedSlotsTyped'
  BY <1>1, <1>2 DEF UsedSlotsTyped
<1>. QED BY <1>3, <1>4, <1>5, <1>6

(* A ring that has just been built satisfies all of it. *)
FreshRing == RingInv /\ Owned = {} /\ Distinct /\ UsedSlotsTyped

LEMMA EmptyRingIsFresh == EmptyRing => FreshRing
<1>. SUFFICES ASSUME EmptyRing PROVE FreshRing
  OBVIOUS
<1>1. \A s \in Slots : items[s].used = FALSE
  BY DEF EmptyRing
<1>2. \A k \in Slots : At(0, k) \in Slots
  BY AtZero, AtType, RingAssumption DEF Slots
<1>3. RingConsistent
  <2>1. \A k \in Slots : items[At(tail, k)].used <=> k < sizeOfQueue_
    BY <1>1, <1>2, RingAssumption DEF EmptyRing, Slots
  <2>2. NextIx(head) = IF sizeOfQueue_ = kRtpQueueSize
                         THEN tail ELSE At(tail, sizeOfQueue_)
    BY RingAssumption DEF EmptyRing, NextIx, At
  <2>3. sizeOfQueue_ \in 0 .. kRtpQueueSize
    BY RingAssumption DEF EmptyRing
  <2>. QED BY <2>1, <2>2, <2>3 DEF RingConsistent
<1>4. RingInv
  BY <1>3, RingAssumption DEF EmptyRing, RingInv, NextSizeFresh, Slots, Item
<1>5. Owned = {} /\ Distinct /\ UsedSlotsTyped
  BY <1>1 DEF Owned, Distinct, UsedSlotsTyped
<1>. QED BY <1>4, <1>5 DEF FreshRing

-----------------------------------------------------------------------------
(* The invariant. *)
LEMMA InvariantImplies ==
  IInv => TypeOK /\ RingConsistent /\ NextSizeFresh /\ PacketsOwnedOnce
BY RingAssumption
   DEF IInv, TypeOK, RingInv, RingConsistent, PacketsOwnedOnce, Distinct

LEMMA InitInvariant == Init => IInv
BY EmptyRingIsFresh DEF Init, IInv, FreshRing

LEMMA NextInvariant == IInv /\ [Next]_vars => IInv'
<1>. SUFFICES ASSUME IInv, [Next]_vars PROVE IInv'
  OBVIOUS
<1>. USE DEF IInv
<1>1. ASSUME NEW b \in Buffers, NEW size \in PacketSizes, EnqueueRtp(b, size)
      PROVE  IInv'
  <2>1. Push(b, size) /\ b \notin Owned /\ b \notin abandoned
    BY <1>1 DEF EnqueueRtp
  <2>2. RingInv'
    BY <2>1, PushKeepsRing
  <2>3. Owned' = Owned \cup {b} /\ Distinct' /\ UsedSlotsTyped'
    BY <2>1, PushOwns
  <2>. QED BY <1>1, <2>1, <2>2, <2>3 DEF EnqueueRtp
<1>2. ASSUME DequeueRtp PROVE IInv'
  <2>1. RingInv'
    BY <1>2, PopKeepsRing DEF DequeueRtp
  <2>2. /\ Owned' = Owned \ {items[tail].packet}
        /\ Distinct' /\ UsedSlotsTyped'
        /\ items[tail].packet \in Owned
    BY <1>2, PopDisowns DEF DequeueRtp
  <2>3. out' \in {<<>>} \cup {<<p>> : p \in Packet}
    BY <1>2 DEF DequeueRtp, Pop, UsedSlotsTyped, RingInv, Packet
  <2>. QED BY <1>2, <2>1, <2>2, <2>3 DEF DequeueRtp
<1>3. ASSUME DequeueNothing PROVE IInv'
  <2>1. RingInv'
    BY <1>3, PopNothingKeepsRing DEF DequeueNothing
  <2>. QED BY <1>3, <2>1
        DEF DequeueNothing, PopNothing, Owned, Distinct, UsedSlotsTyped
<1>4. ASSUME ClearStep PROVE IInv'
  <2>1. CASE items[tail].used
    <3>1. Pop /\ heap' = heap \ {items[tail].packet}
      BY <1>4, <2>1 DEF ClearStep
    <3>2. RingInv'
      BY <3>1, PopKeepsRing
    <3>3. /\ Owned' = Owned \ {items[tail].packet}
          /\ Distinct' /\ UsedSlotsTyped'
          /\ items[tail].packet \in Owned
      BY <3>1, PopDisowns
    <3>. QED BY <1>4, <3>1, <3>2, <3>3 DEF ClearStep
  <2>2. CASE ~items[tail].used
    <3>1. PopNothing /\ sizeOfQueue_ > 0
      BY <1>4, <2>2 DEF ClearStep
    <3>. QED BY <3>1, PopNothingKeepsRing
  <2>. QED BY <2>1, <2>2
<1>5. ASSUME Destroy PROVE IInv'
  <2>1. EmptyRing'
    BY <1>5 DEF Destroy, EmptyRing
  <2>2. FreshRing'
    BY <2>1, EmptyRingIsFresh, PTL
  <2>. QED BY <1>5, <2>2 DEF FreshRing, Destroy, Idle
<1>6. ASSUME EnqueueRefused \/ ClearBegin \/ ClearEnd \/ RegisterStream
             \/ UNCHANGED vars
      PROVE  IInv'
  <2>1. UNCHANGED <<ring, heap, abandoned, out>>
        /\ clearing' \in BOOLEAN /\ alive' \in BOOLEAN
    BY <1>6 DEF EnqueueRefused, ClearBegin, ClearEnd, RegisterStream, vars, ring
  <2>. QED BY <2>1 DEF ring, RingInv, RingConsistent, NextSizeFresh,
                       Owned, Distinct, UsedSlotsTyped
<1>. QED BY <1>1, <1>2, <1>3, <1>4, <1>5, <1>6 DEF Next

(* The type invariant, for every size of the ring. *)
THEOREM TypeCorrect == Spec => []TypeOK
<1>1. IInv => TypeOK
  BY InvariantImplies
<1>. QED BY <1>1, InitInvariant, NextInvariant, PTL DEF Spec

(* The slots in use are always the run from tail to head that the counters  *)
(* describe, also while a discard is under way.                             *)
THEOREM RingCorrect == Spec => []RingConsistent
<1>1. IInv => RingConsistent
  BY InvariantImplies
<1>. QED BY <1>1, InitInvariant, NextInvariant, PTL DEF Spec

(* The cached size of the next packet, which three operations refresh, is   *)
(* never stale.                                                             *)
THEOREM NextSizeCorrect == Spec => []NextSizeFresh
<1>1. IInv => NextSizeFresh
  BY InvariantImplies
<1>. QED BY <1>1, InitInvariant, NextInvariant, PTL DEF Spec

(* No heap copy of a packet is freed twice, shared, or lost, except those   *)
(* the destructor abandons.                                                 *)
THEOREM OwnershipCorrect == Spec => []PacketsOwnedOnce
<1>1. IInv => PacketsOwnedOnce
  BY InvariantImplies
<1>. QED BY <1>1, InitInvariant, NextInvariant, PTL DEF Spec

-----------------------------------------------------------------------------
(* Sums over a set of slots.  The fold of the community modules is a         *)
(* function defined by recursion on subsets; that it exists, and what it    *)
(* returns, is proved by taking a least set for which it would not be so.   *)
SizeSum(its, S) == MapThenSumSet(LAMBDA s : its[s].size, S)

Chosen(s) == CHOOSE x \in s : TRUE

(* g is the function that the sum over S is computed by. *)
Sums(its, S, g) ==
  g = [s \in SUBSET S |->
         IF s = {} THEN 0 ELSE its[Chosen(s)].size + g[s \ {Chosen(s)}]]

(* SizeSum is computed by such a function, if there is one. *)
LEMMA SumIsSome ==
  ASSUME NEW its, NEW S, NEW g, Sums(its, S, g)
  PROVE  \E h : Sums(its, S, h) /\ SizeSum(its, S) = h[S]
<1>1. \E h : Sums(its, S, h)
  OBVIOUS
<1>2. Sums(its, S, CHOOSE h : Sums(its, S, h))
  BY <1>1, Zenon
<1>3. SizeSum(its, S) = (CHOOSE h : Sums(its, S, h))[S]
  BY Zenon DEF SizeSum, MapThenSumSet, MapThenFoldSet, Sums, Chosen
<1> QED
  BY <1>2, <1>3, Zenon

(* A set of finite sets that is not empty has a least one. *)
LEMMA LeastSubset ==
  ASSUME NEW S, IsFiniteSet(S), NEW T, T \subseteq SUBSET S, T # {}
  PROVE  \E t \in T : \A u \in T : u \subseteq t => u = t
<1>1. FiniteSubsetsOf(S) = SUBSET S
  BY FS_FiniteSubsetsOfFinite
<1>2. IsWellFoundedOn(StrictSubsetOrdering(S), SUBSET S)
  BY <1>1, FS_StrictSubsetOrderingWellFounded, Zenon
<1>3. \E t \in T : \A u \in T : ~ (<<u, t>> \in StrictSubsetOrdering(S))
  BY <1>2, WFMin, Zenon
<1>4. PICK t \in T : \A u \in T : ~ (<<u, t>> \in StrictSubsetOrdering(S))
  BY <1>3, Zenon
<1>5. ASSUME NEW u \in T, u \subseteq t, u # t
      PROVE  FALSE
  <2>1. <<u, t>> \in (SUBSET S) \X (SUBSET S)
    BY Zenon
  <2>2. <<u, t>> \in StrictSubsetOrdering(S)
    BY <1>5, <2>1 DEF StrictSubsetOrdering
  <2> QED
    BY <1>4, <2>2, Zenon
<1> QED
  BY <1>4, <1>5, Zenon

(* There is one such function. *)
LEMMA SumsUnique ==
  ASSUME NEW its, NEW S, IsFiniteSet(S), NEW g, NEW h,
         Sums(its, S, g), Sums(its, S, h)
  PROVE  \A s \in SUBSET S : g[s] = h[s]
<1> DEFINE T == {s \in SUBSET S : g[s] # h[s]}
<1> SUFFICES ASSUME T # {} PROVE FALSE
  OBVIOUS
<1>0. T \subseteq SUBSET S
  BY Zenon
<1>1. PICK t \in T : \A u \in T : u \subseteq t => u = t
  <2> HIDE DEF T
  <2> QED BY <1>0, LeastSubset
<1>2. /\ g[t] = IF t = {} THEN 0 ELSE its[Chosen(t)].size + g[t \ {Chosen(t)}]
      /\ h[t] = IF t = {} THEN 0 ELSE its[Chosen(t)].size + h[t \ {Chosen(t)}]
  BY Zenon DEF Sums
<1>3. t # {} => Chosen(t) \in t
  BY DEF Chosen
<1>4. t # {} => t \ {Chosen(t)} \in SUBSET S /\ t \ {Chosen(t)} \notin T
  BY <1>1, <1>3
<1> QED
  BY <1>2, <1>4

(* It gives the sum over any subset too. *)
LEMMA SumsRestricted ==
  ASSUME NEW its, NEW S, NEW g, Sums(its, S, g), NEW U \in SUBSET S
  PROVE  Sums(its, U, [s \in SUBSET U |-> g[s]])
<1> DEFINE r == [s \in SUBSET U |-> g[s]]
<1>1. ASSUME NEW s \in SUBSET U
      PROVE  r[s] = IF s = {} THEN 0 ELSE its[Chosen(s)].size + r[s \ {Chosen(s)}]
  <2>1. s \in SUBSET S /\ s \ {Chosen(s)} \in SUBSET U
    OBVIOUS
  <2>2. g[s] = IF s = {} THEN 0 ELSE its[Chosen(s)].size + g[s \ {Chosen(s)}]
    BY <2>1, Zenon DEF Sums
  <2> QED
    BY <2>1, <2>2
<1> QED
  BY <1>1, Zenon DEF Sums

(* It exists: it is put together from those of the proper subsets. *)
LEMMA SumsExist ==
  ASSUME NEW its, NEW S, IsFiniteSet(S)
  PROVE  \E g : Sums(its, S, g)
<1> DEFINE T == {s \in SUBSET S : ~ \E g : Sums(its, s, g)}
<1> SUFFICES ASSUME T # {} PROVE FALSE
  OBVIOUS
<1>0. T \subseteq SUBSET S
  BY Zenon
<1>1. PICK t \in T : \A u \in T : u \subseteq t => u = t
  <2> HIDE DEF T
  <2> QED BY <1>0, LeastSubset
<1> DEFINE of(u) == CHOOSE g : Sums(its, u, g)
           next(u, v) == IF u = {} THEN 0 ELSE its[Chosen(u)].size + v
           G == [u \in SUBSET t |->
                   IF u = t THEN next(t, of(t \ {Chosen(t)})[t \ {Chosen(t)}])
                            ELSE of(u)[u]]
<1>2. ASSUME NEW u \in SUBSET t, u # t
      PROVE  Sums(its, u, of(u)) /\ IsFiniteSet(u)
  <2>1. \E g : Sums(its, u, g)
    BY <1>1, <1>2
  <2> QED
    BY <2>1, FS_Subset, Zenon
<1>3. ASSUME NEW u \in SUBSET t, u # {}
      PROVE  Chosen(u) \in u /\ u \ {Chosen(u)} \in SUBSET t /\ u \ {Chosen(u)} # t
  BY <1>3 DEF Chosen
<1>4. ASSUME NEW u \in SUBSET t
      PROVE  G[u] = next(u, G[u \ {Chosen(u)}])
  <2>1. CASE u = {}
    <3>1. CASE u = t
      BY <2>1, <3>1
    <3>2. CASE u # t
      <4>1. Sums(its, u, of(u))
        BY <1>2, <3>2
      <4>2. of(u)[u] = 0
        BY <2>1, <4>1, Zenon DEF Sums
      <4> QED
        BY <2>1, <3>2, <4>2
    <3> QED
      BY <3>1, <3>2
  <2>2. CASE u # {}
    <3> DEFINE v == u \ {Chosen(u)}
    <3>1. v \in SUBSET t /\ v # t
      BY <1>3, <2>2
    <3>2. G[v] = of(v)[v]
      BY <3>1
    <3>3. CASE u = t
      BY <3>2, <3>3
    <3>4. CASE u # t
      <4>1. Sums(its, u, of(u)) /\ Sums(its, v, of(v)) /\ IsFiniteSet(v)
        BY <1>2, <3>1, <3>4
      <4>2. of(u)[u] = next(u, of(u)[v])
        BY <4>1, Zenon DEF Sums
      <4>3. Sums(its, v, [s \in SUBSET v |-> of(u)[s]])
        <5>1. v \in SUBSET u
          OBVIOUS
        <5> HIDE DEF v, of, next, G
        <5> QED
          BY <4>1, <5>1, SumsRestricted
      <4>4. [s \in SUBSET v |-> of(u)[s]][v] = of(v)[v]
        BY <4>1, <4>3, SumsUnique
      <4>5. of(u)[v] = of(v)[v]
        BY <4>4
      <4> QED
        BY <3>2, <3>4, <4>2, <4>5
    <3> QED
      BY <3>3, <3>4
  <2> QED
    BY <2>1, <2>2
<1>5. Sums(its, t, G)
  <2>1. G = [u \in SUBSET t |-> G[u]]
    OBVIOUS
  <2> HIDE DEF G
  <2>2. G = [u \in SUBSET t |-> next(u, G[u \ {Chosen(u)}])]
    BY <1>4, <2>1, Zenon
  <2> QED
    BY <2>2, Zenon DEF Sums
<1> QED
  BY <1>5

(* The sum over a finite set, one element at a time. *)
LEMMA SumChosen ==
  ASSUME NEW its, NEW S, IsFiniteSet(S)
  PROVE  /\ SizeSum(its, {}) = 0
         /\ S # {} => SizeSum(its, S) =
                        its[Chosen(S)].size + SizeSum(its, S \ {Chosen(S)})
<1> DEFINE R == S \ {Chosen(S)}
<1>1. PICK g : Sums(its, S, g) /\ SizeSum(its, S) = g[S]
  BY SumsExist, SumIsSome
<1>2. IsFiniteSet(R) /\ IsFiniteSet({})
  BY FS_RemoveElement, FS_EmptySet
<1>3. PICK h : Sums(its, R, h) /\ SizeSum(its, R) = h[R]
  BY <1>2, SumsExist, SumIsSome
<1>4. PICK e : Sums(its, {}, e) /\ SizeSum(its, {}) = e[{}]
  BY <1>2, SumsExist, SumIsSome
<1>5. Sums(its, R, [s \in SUBSET R |-> g[s]])
  BY <1>1, SumsRestricted
<1>6. g[R] = h[R]
  BY <1>2, <1>3, <1>5, SumsUnique
<1>7. S # {} => g[S] = its[Chosen(S)].size + g[R]
  BY <1>1, Zenon DEF Sums
<1>8. e[{}] = 0
  BY <1>4, Zenon DEF Sums
<1> QED
  BY <1>1, <1>3, <1>4, <1>6, <1>7, <1>8

Sized(its, S) == \A s \in S : its[s].size \in Int

(* The sum does not depend on the order: any element can be taken out. *)
LEMMA SumTakeOut ==
  ASSUME NEW its, NEW S, IsFiniteSet(S), Sized(its, S)
  PROVE  /\ SizeSum(its, S) \in Int
         /\ \A x \in S : SizeSum(its, S) = its[x].size + SizeSum(its, S \ {x})
<1> DEFINE P(s) == /\ SizeSum(its, s) \in Int
                   /\ \A x \in s : SizeSum(its, s) =
                                     its[x].size + SizeSum(its, s \ {x})
           T == {s \in SUBSET S : ~P(s)}
<1> SUFFICES ASSUME T # {} PROVE FALSE
  OBVIOUS
<1>0. T \subseteq SUBSET S
  BY Zenon
<1>1. PICK t \in T : \A u \in T : u \subseteq t => u = t
  <2> HIDE DEF T
  <2> QED BY <1>0, LeastSubset
<1>2. \A u \in SUBSET t : u # t => P(u)
  BY <1>1
<1>3. IsFiniteSet(t)
  BY FS_Subset
<1>4. t # {}
  <2>1. SizeSum(its, {}) = 0
    BY <1>3, SumChosen
  <2>2. t = {} => P(t)
    BY <2>1
  <2>3. ~P(t)
    BY Zenon
  <2> QED
    BY <2>2, <2>3
<1> DEFINE f == Chosen(t)
           r == t \ {f}
<1>5. f \in t
  BY <1>4 DEF Chosen
<1>6. SizeSum(its, t) = its[f].size + SizeSum(its, r)
  BY <1>3, <1>4, SumChosen
<1>7. P(r)
  BY <1>2, <1>5
<1> HIDE DEF f
<1>8. its[f].size \in Int
  BY <1>5 DEF Sized
<1>9. ASSUME NEW x \in t, x # f
      PROVE  SizeSum(its, t) = its[x].size + SizeSum(its, t \ {x})
  <2>1. P(t \ {x})
    BY <1>2
  <2>2. SizeSum(its, t \ {x}) = its[f].size + SizeSum(its, (t \ {x}) \ {f})
    BY <1>5, <1>9, <2>1
  <2>3. SizeSum(its, r) = its[x].size + SizeSum(its, r \ {x})
    BY <1>7, <1>9
  <2>4. r \ {x} = (t \ {x}) \ {f}
    OBVIOUS
  <2>5. its[x].size \in Int /\ SizeSum(its, r \ {x}) \in Int
    <3>1. P(r \ {x})
      BY <1>2, <1>5
    <3> QED
      BY <3>1 DEF Sized
  <2> DEFINE v == SizeSum(its, r \ {x})
  <2>6. /\ SizeSum(its, t \ {x}) = its[f].size + v
        /\ SizeSum(its, r) = its[x].size + v /\ v \in Int
    BY <2>2, <2>3, <2>4, <2>5, Zenon
  <2> HIDE DEF v
  <2> QED
    BY <1>6, <1>8, <2>5, <2>6
<1>10. P(t)
  <2>1. SizeSum(its, t) \in Int
    BY <1>6, <1>7, <1>8
  <2> QED
    BY <1>6, <1>9, <2>1
<1> QED
  BY <1>10
(* Only the sizes of the slots summed over matter. *)
LEMMA SumSame ==
  ASSUME NEW a, NEW b, NEW S, IsFiniteSet(S), \A s \in S : a[s].size = b[s].size
  PROVE  SizeSum(a, S) = SizeSum(b, S)
<1> DEFINE T == {s \in SUBSET S : SizeSum(a, s) # SizeSum(b, s)}
<1> SUFFICES ASSUME T # {} PROVE FALSE
  OBVIOUS
<1>0. T \subseteq SUBSET S
  BY Zenon
<1>1. PICK t \in T : \A u \in T : u \subseteq t => u = t
  <2> HIDE DEF T
  <2> QED BY <1>0, LeastSubset
<1>2. IsFiniteSet(t)
  BY FS_Subset
<1>3. /\ SizeSum(a, {}) = 0 /\ SizeSum(b, {}) = 0
      /\ t # {} => /\ SizeSum(a, t) = a[Chosen(t)].size + SizeSum(a, t \ {Chosen(t)})
                   /\ SizeSum(b, t) = b[Chosen(t)].size + SizeSum(b, t \ {Chosen(t)})
  BY <1>2, SumChosen
<1>4. t # {} => Chosen(t) \in t
  BY DEF Chosen
<1>5. t # {} => t \ {Chosen(t)} \in SUBSET S /\ t \ {Chosen(t)} \notin T
  BY <1>1, <1>4
<1> QED
  BY <1>3, <1>4, <1>5

-----------------------------------------------------------------------------
(* bytesInQueue_ is the sum over the slots in use. *)
UsedSlots == {s \in Slots : items[s].used}

LEMMA BytesAreSum == BytesConsistent <=> bytesInQueue_ = SizeSum(items, UsedSlots)
BY DEF BytesConsistent, SizeSum, UsedSlots

LEMMA UsedSlotsFinite == IsFiniteSet(UsedSlots) /\ IsFiniteSet(UsedSlots')
<1>1. IsFiniteSet(Slots)
  BY FS_Interval, RingAssumption DEF Slots
<1> QED
  BY <1>1, FS_Subset DEF UsedSlots

LEMMA SlotsSized ==
  ASSUME RingInv, NEW S \in SUBSET Slots
  PROVE  Sized(items, S)
BY DEF RingInv, Item, Sized

LEMMA PushKeepsBytes ==
  ASSUME RingInv, bytesInQueue_ = SizeSum(items, UsedSlots),
         NEW b \in Buffers, NEW size \in PacketSizes, Push(b, size)
  PROVE  bytesInQueue_' = SizeSum(items', UsedSlots')
<1> DEFINE ix == NextIx(head)
<1>1. /\ ~items[ix].used
      /\ ix \in Slots
      /\ items' = [items EXCEPT ![ix] =
                     [used |-> TRUE, size |-> size, packet |-> b]]
      /\ items \in [Slots -> Item]
      /\ bytesInQueue_' = bytesInQueue_ + size
  BY RoomWhenFree DEF Push, RingInv
<1> HIDE DEF ix
<1>2. /\ UsedSlots' = UsedSlots \cup {ix} /\ ix \notin UsedSlots
      /\ \A s \in UsedSlots : items'[s].size = items[s].size
      /\ items'[ix].size = size
  BY <1>1 DEF UsedSlots
<1>3. RingInv'
  BY PushKeepsRing
<1>4. Sized(items', UsedSlots') /\ Sized(items, UsedSlots)
  BY <1>3, SlotsSized DEF UsedSlots, RingInv, Item, Sized
<1>5. SizeSum(items', UsedSlots') = size + SizeSum(items', UsedSlots' \ {ix})
  BY <1>2, <1>4, UsedSlotsFinite, SumTakeOut
<1>6. UsedSlots' \ {ix} = UsedSlots
  BY <1>2
<1>7. SizeSum(items', UsedSlots) = SizeSum(items, UsedSlots)
  BY <1>2, UsedSlotsFinite, SumSame
<1>8. SizeSum(items, UsedSlots) \in Int /\ size \in Int
  BY <1>4, UsedSlotsFinite, SumTakeOut, SizesAssumption
<1>9. SizeSum(items', UsedSlots') = size + SizeSum(items, UsedSlots)
  BY <1>5, <1>6, <1>7
<1> QED
  BY <1>1, <1>8, <1>9

LEMMA PopKeepsBytes ==
  ASSUME RingInv, bytesInQueue_ = SizeSum(items, UsedSlots), Pop
  PROVE  bytesInQueue_' = SizeSum(items', UsedSlots')
<1>1. /\ items[tail].used
      /\ tail \in Slots
      /\ items' = [items EXCEPT ![tail] = Vacated(items[tail])]
      /\ items \in [Slots -> Item]
      /\ bytesInQueue_' = bytesInQueue_ - items[tail].size
  BY DEF Pop, RingInv
<1>2. /\ UsedSlots' = UsedSlots \ {tail} /\ tail \in UsedSlots
      /\ \A s \in UsedSlots' : items'[s].size = items[s].size
  BY <1>1 DEF UsedSlots, Vacated
<1>3. Sized(items, UsedSlots)
  BY SlotsSized DEF UsedSlots
<1>4. SizeSum(items, UsedSlots)
        = items[tail].size + SizeSum(items, UsedSlots \ {tail})
  BY <1>2, <1>3, UsedSlotsFinite, SumTakeOut
<1>5. SizeSum(items', UsedSlots') = SizeSum(items, UsedSlots \ {tail})
  BY <1>2, UsedSlotsFinite, SumSame
<1>6. IsFiniteSet(UsedSlots \ {tail}) /\ Sized(items, UsedSlots \ {tail})
  BY <1>3, UsedSlotsFinite, FS_RemoveElement DEF Sized
<1>7. SizeSum(items, UsedSlots \ {tail}) \in Int /\ items[tail].size \in Int
  BY <1>1, <1>6, SumTakeOut DEF Item
<1>8. bytesInQueue_ = items[tail].size + SizeSum(items', UsedSlots')
  BY <1>4, <1>5
<1>9. SizeSum(items', UsedSlots') \in Int
  BY <1>5, <1>7
<1> QED
  BY <1>1, <1>7, <1>8, <1>9

LEMMA EmptySum == \A its : SizeSum(its, {}) = 0
BY FS_EmptySet, SumChosen

LEMMA NextBytes == IInv /\ BytesConsistent /\ [Next]_vars => BytesConsistent'
<1> SUFFICES ASSUME IInv, bytesInQueue_ = SizeSum(items, UsedSlots), [Next]_vars
             PROVE  bytesInQueue_' = SizeSum(items', UsedSlots')
  <2>1. BytesConsistent' <=> (bytesInQueue_ = SizeSum(items, UsedSlots))'
    BY BytesAreSum, PTL
  <2> QED
    BY <2>1, BytesAreSum
<1>0. RingInv
  BY DEF IInv
<1>1. CASE \E b \in Buffers, size \in PacketSizes : EnqueueRtp(b, size)
  BY <1>0, <1>1, PushKeepsBytes DEF EnqueueRtp
<1>2. CASE DequeueRtp \/ (ClearStep /\ items[tail].used)
  BY <1>0, <1>2, PopKeepsBytes DEF DequeueRtp, ClearStep
<1>3. CASE Destroy
  <2>1. bytesInQueue_' = 0 /\ UsedSlots' = {}
    BY <1>3 DEF Destroy, UsedSlots
  <2> QED
    BY <2>1, EmptySum
<1>4. CASE \/ DequeueNothing \/ (ClearStep /\ ~items[tail].used)
           \/ EnqueueRefused \/ ClearBegin \/ ClearEnd \/ RegisterStream
           \/ UNCHANGED vars
  <2>1. UNCHANGED <<items, bytesInQueue_>>
    BY <1>4 DEF DequeueNothing, ClearStep, PopNothing, EnqueueRefused, ClearBegin,
       ClearEnd, RegisterStream, vars, ring
  <2> QED
    BY <2>1 DEF UsedSlots
<1> QED
  BY <1>1, <1>2, <1>3, <1>4 DEF Next

(* bytesInQueue_, added to and subtracted from one packet at a time, is at  *)
(* every moment the sum of the sizes of the packets waiting.                *)
THEOREM BytesCorrect == Spec => []BytesConsistent
<1>1. Init => BytesConsistent
  <2>1. Init => bytesInQueue_ = 0 /\ UsedSlots = {}
    BY DEF Init, EmptyRing, UsedSlots
  <2> QED
    BY <2>1, EmptySum, BytesAreSum
<1> QED
  BY <1>1, InitInvariant, NextInvariant, NextBytes, PTL DEF Spec

-----------------------------------------------------------------------------
(* Refinement: the ring is a bounded FIFO. *)
WaitingIsSeq ==
  /\ Waiting \in Seq(Packet)
  /\ Len(Waiting) = sizeOfQueue_
  /\ \A k \in 1 .. sizeOfQueue_ :
       Waiting[k] = [size |-> items[At(tail, k - 1)].size,
                     packet |-> items[At(tail, k - 1)].packet]

LEMMA WaitingIsASeq == IInv => WaitingIsSeq
<1>. SUFFICES ASSUME IInv PROVE WaitingIsSeq
  OBVIOUS
<1>1. sizeOfQueue_ \in Nat /\ sizeOfQueue_ <= kRtpQueueSize /\ tail \in Slots
  BY RingAssumption DEF IInv, RingInv, RingConsistent
<1>2. ASSUME NEW k \in 1 .. sizeOfQueue_
      PROVE  [size |-> items[At(tail, k - 1)].size,
              packet |-> items[At(tail, k - 1)].packet] \in Packet
  <2>1. k - 1 \in Slots /\ k - 1 < sizeOfQueue_
    BY <1>1, RingAssumption DEF Slots
  <2>2. At(tail, k - 1) \in Slots /\ items[At(tail, k - 1)].used
    BY <1>1, <2>1, AtType DEF IInv, RingInv, RingConsistent
  <2>. QED BY <2>2 DEF IInv, UsedSlotsTyped, Packet
<1>3. Waiting \in [1 .. sizeOfQueue_ -> Packet]
  BY <1>2 DEF Waiting
<1>4. Waiting \in Seq(Packet)
  BY <1>1, <1>3, SeqDef
<1>5. Len(Waiting) = sizeOfQueue_
  BY <1>1, <1>3, <1>4, LenProperties
<1>. QED BY <1>4, <1>5 DEF WaitingIsSeq, Waiting

(* push appends. *)
LEMMA PushIsPut ==
  ASSUME RingInv, WaitingIsSeq, WaitingIsSeq',
         NEW b \in Buffers, NEW size \in PacketSizes, Push(b, size)
  PROVE  /\ Len(Waiting) < kRtpQueueSize
         /\ Waiting' = Append(Waiting, [size |-> size, packet |-> b])
<1> DEFINE p == [size |-> size, packet |-> b]
           ix == NextIx(head)
<1>1. /\ sizeOfQueue_ \in Slots
      /\ ix = At(tail, sizeOfQueue_)
      /\ ix \in Slots
      /\ tail \in Slots /\ tail' = tail
      /\ sizeOfQueue_' = sizeOfQueue_ + 1
      /\ items \in [Slots -> Item]
      /\ items' = [items EXCEPT ![ix] =
                     [used |-> TRUE, size |-> size, packet |-> b]]
  BY RoomWhenFree DEF Push, RingInv
<1>2. Len(Waiting) = sizeOfQueue_ /\ Len(Waiting) < kRtpQueueSize
  BY <1>1, RingAssumption DEF WaitingIsSeq, Slots
<1>3. p \in Packet
  BY DEF Packet
<1>4. /\ Append(Waiting, p) \in Seq(Packet)
      /\ Len(Append(Waiting, p)) = sizeOfQueue_ + 1
      /\ \A k \in 1 .. sizeOfQueue_ : Append(Waiting, p)[k] = Waiting[k]
      /\ Append(Waiting, p)[sizeOfQueue_ + 1] = p
  BY <1>1, <1>2, <1>3, AppendProperties, RingAssumption DEF WaitingIsSeq, Slots
<1> HIDE DEF ix
<1>5. ASSUME NEW k \in 1 .. sizeOfQueue_
      PROVE  Waiting'[k] = Waiting[k]
  <2>1. /\ k \in 1 .. sizeOfQueue_'
        /\ k - 1 \in Slots /\ k - 1 # sizeOfQueue_
    BY <1>1, RingAssumption DEF Slots
  <2>2. At(tail, k - 1) \in Slots /\ At(tail, k - 1) # ix
    BY <1>1, <2>1, AtType, AtInjective
  <2>3. items'[At(tail, k - 1)] = items[At(tail, k - 1)]
    BY <1>1, <2>2
  <2>4. Waiting'[k] = [size |-> items'[At(tail', k - 1)].size,
                       packet |-> items'[At(tail', k - 1)].packet]
    BY <2>1 DEF WaitingIsSeq
  <2>5. Waiting[k] = [size |-> items[At(tail, k - 1)].size,
                      packet |-> items[At(tail, k - 1)].packet]
    BY DEF WaitingIsSeq
  <2>. QED BY <1>1, <2>3, <2>4, <2>5
<1>6. Waiting'[sizeOfQueue_ + 1] = p
  <2>1. /\ sizeOfQueue_ + 1 \in 1 .. sizeOfQueue_'
        /\ (sizeOfQueue_ + 1) - 1 = sizeOfQueue_
    BY <1>1, RingAssumption DEF Slots
  <2>2. items'[ix].size = size /\ items'[ix].packet = b
    BY <1>1
  <2>. QED BY <1>1, <2>1, <2>2 DEF WaitingIsSeq
<1> HIDE DEF p
<1>7. ASSUME NEW k \in 1 .. sizeOfQueue_ + 1
      PROVE  Waiting'[k] = Append(Waiting, p)[k]
  <2>1. k \in 1 .. sizeOfQueue_ \/ k = sizeOfQueue_ + 1
    BY <1>1, RingAssumption DEF Slots
  <2>. QED BY <1>4, <1>5, <1>6, <2>1
<1>8. Waiting' = Append(Waiting, p)
  BY <1>1, <1>4, <1>7, SeqEqual DEF WaitingIsSeq
<1>. QED BY <1>2, <1>8 DEF p

(* pop takes the head. *)
LEMMA PopIsTake ==
  ASSUME RingInv, WaitingIsSeq, WaitingIsSeq', Pop
  PROVE  /\ Waiting # <<>>
         /\ Head(Waiting) = [size |-> items[tail].size,
                             packet |-> items[tail].packet]
         /\ Waiting' = Tail(Waiting)
<1>1. /\ items[tail].used
      /\ tail \in Slots /\ tail' = NextIx(tail)
      /\ sizeOfQueue_' = sizeOfQueue_ - 1
      /\ items \in [Slots -> Item]
      /\ items' = [items EXCEPT ![tail] = Vacated(items[tail])]
  BY DEF Pop, RingInv
<1>2. sizeOfQueue_ \in 1 .. kRtpQueueSize
  BY <1>1, AtZero DEF RingInv, RingConsistent
<1>3. Waiting # <<>> /\ Waiting \in Seq(Packet) /\ Len(Waiting) = sizeOfQueue_
  BY <1>2, EmptySeq, RingAssumption DEF WaitingIsSeq
<1>4. Head(Waiting) = [size |-> items[tail].size, packet |-> items[tail].packet]
  <2>1. 1 \in 1 .. sizeOfQueue_ /\ 1 - 1 = 0 /\ At(tail, 0) = tail
    BY <1>1, <1>2, AtZero, RingAssumption
  <2>2. Waiting[1] = [size |-> items[tail].size, packet |-> items[tail].packet]
    BY <2>1 DEF WaitingIsSeq
  <2>. QED BY <1>3, <2>2
<1>5. /\ Tail(Waiting) \in Seq(Packet)
      /\ Len(Tail(Waiting)) = sizeOfQueue_ - 1
      /\ \A k \in 1 .. sizeOfQueue_ - 1 : Tail(Waiting)[k] = Waiting[k + 1]
  BY <1>3, HeadTailProperties
<1>6. ASSUME NEW k \in 1 .. sizeOfQueue_ - 1
      PROVE  Waiting'[k] = Waiting[k + 1]
  <2>1. /\ k + 1 \in 1 .. sizeOfQueue_ /\ (k + 1) - 1 = k
        /\ k - 1 \in Slots /\ k \in Slots /\ (k - 1) + 1 = k
        /\ k < kRtpQueueSize /\ k # 0
    BY <1>2, RingAssumption DEF Slots
  <2>2. At(tail', k - 1) = At(tail, k)
    BY <1>1, <2>1, AtNext
  <2>3. At(tail, k) \in Slots /\ At(tail, k) # tail
    BY <1>1, <2>1, AtType, AtZero, AtInjective
  <2>4. items'[At(tail, k)] = items[At(tail, k)]
    BY <1>1, <2>3
  <2>. QED BY <1>1, <2>1, <2>2, <2>4 DEF WaitingIsSeq
<1>7. Waiting' = Tail(Waiting)
  BY <1>1, <1>5, <1>6, SeqEqual DEF WaitingIsSeq
<1>. QED BY <1>3, <1>4, <1>7

LEMMA FifoInit == Init => Fifo!Init
<1>. SUFFICES ASSUME Init PROVE Fifo!Init
  OBVIOUS
<1>1. Waiting \in Seq(Packet) /\ Len(Waiting) = 0
  BY InitInvariant, WaitingIsASeq DEF WaitingIsSeq, Init, EmptyRing
<1>2. Waiting = <<>>
  BY <1>1, EmptySeq
<1>. QED BY <1>2 DEF Init, Fifo!Init, Fifo!Nothing

LEMMA FifoStep ==
  IInv /\ WaitingIsSeq /\ WaitingIsSeq' /\ [Next]_vars
    => [Fifo!Next]_Fifo!vars
<1>. SUFFICES ASSUME IInv, WaitingIsSeq, WaitingIsSeq', [Next]_vars
              PROVE  [Fifo!Next]_Fifo!vars
  OBVIOUS
<1>0. RingInv
  BY DEF IInv
<1>1. ASSUME NEW b \in Buffers, NEW size \in PacketSizes, EnqueueRtp(b, size)
      PROVE  Fifo!Next
  <2>1. /\ Len(Waiting) < kRtpQueueSize
        /\ Waiting' = Append(Waiting, [size |-> size, packet |-> b])
        /\ out' = out
    BY <1>0, <1>1, PushIsPut DEF EnqueueRtp
  <2>2. [size |-> size, packet |-> b] \in Packet
    BY DEF Packet
  <2>. QED BY <2>1, <2>2 DEF Fifo!Next, Fifo!Put
<1>2. ASSUME DequeueRtp PROVE Fifo!Next
  <2>1. /\ Waiting # <<>>
        /\ Waiting' = Tail(Waiting)
        /\ out' = <<Head(Waiting)>>
    BY <1>0, <1>2, PopIsTake DEF DequeueRtp
  <2>. QED BY <2>1 DEF Fifo!Next, Fifo!Take
<1>3. ASSUME DequeueNothing PROVE Fifo!Next
  <2>1. sizeOfQueue_ = 0 /\ sizeOfQueue_' = 0 /\ out' = <<>>
    BY <1>0, <1>3, PopNothingKeepsRing DEF DequeueNothing, PopNothing
  <2>2. Waiting = <<>> /\ Waiting' = <<>>
    BY <2>1, EmptySeq DEF WaitingIsSeq
  <2>. QED BY <2>1, <2>2 DEF Fifo!Next, Fifo!TakeNothing, Fifo!Nothing
<1>4. ASSUME ClearStep PROVE Fifo!Next
  <2>1. CASE items[tail].used
    <3>1. Waiting # <<>> /\ Waiting' = Tail(Waiting) /\ out' = out
      BY <1>0, <1>4, <2>1, PopIsTake DEF ClearStep
    <3>. QED BY <3>1 DEF Fifo!Next, Fifo!Discard
  <2>2. CASE ~items[tail].used
    BY <1>0, <1>4, <2>2, PopNothingKeepsRing DEF ClearStep
  <2>. QED BY <2>1, <2>2
<1>5. ASSUME Destroy PROVE Fifo!Next
  <2>1. sizeOfQueue_' = 0 /\ out' = <<>>
    BY <1>5 DEF Destroy
  <2>2. Waiting' = <<>>
    BY <2>1, EmptySeq DEF WaitingIsSeq
  <2>. QED BY <2>1, <2>2 DEF Fifo!Next, Fifo!Reset, Fifo!Nothing
<1>6. ASSUME EnqueueRefused \/ ClearBegin \/ ClearEnd \/ RegisterStream
             \/ UNCHANGED vars
      PROVE  UNCHANGED Fifo!vars
  <2>1. UNCHANGED <<ring, out>>
    BY <1>6 DEF EnqueueRefused, ClearBegin, ClearEnd, RegisterStream, vars, ring
  <2>. QED BY <2>1 DEF ring, Waiting, At, Fifo!vars
<1>. QED BY <1>1, <1>2, <1>3, <1>4, <1>5, <1>6 DEF Next

(* The queue never reorders, duplicates or invents a packet, never holds    *)
(* more than its capacity, and what dequeueRtp hands out is the oldest      *)
(* packet not discarded.                                                    *)
THEOREM QueueIsFifo == Spec => ImplementsFifo
<1>. QED BY InitInvariant, NextInvariant, WaitingIsASeq, FifoInit, FifoStep, PTL
         DEF Spec, ImplementsFifo, Fifo!Spec
=============================================================================
