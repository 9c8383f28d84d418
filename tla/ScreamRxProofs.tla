---------------------------- MODULE ScreamRxProofs ----------------------------
(***************************************************************************)
(* Proofs about ScreamRx, for streams of any length that wrap as often as  *)
(* they like: its types, the highest packet, and that no packet is         *)
(* reported that was not received.  That every packet in order is reported *)
(* is proved for two kinds of streams: with small holes and any wraps, and *)
(* with large holes and no wrap.                                           *)
(***************************************************************************)
EXTENDS ScreamRx, WellFoundedInduction, TLAPS

(* Residues. *)

LEMMA ModIs ==
  ASSUME NEW n \in Int, NEW d \in Nat \ {0}
  PROVE  (n % d) \in 0 .. d - 1 /\ \E q \in Int : n = d * q + (n % d)
<1>1. (n % d) = n - d * (n \div d) /\ n \div d \in Int
  OBVIOUS
<1>2. d * (n \div d) \in Int
  BY <1>1
<1>3. (n % d) \in 0 .. d - 1
  OBVIOUS
<1> DEFINE k == d * (n \div d)
           r == (n % d)
<1>4. r = n - k /\ k \in Int /\ r \in Int
  BY <1>1, <1>2, <1>3
<1> HIDE DEF k, r
<1>5. n = k + r
  BY <1>4
<1> QED
  BY <1>1, <1>3, <1>5 DEF k, r

LEMMA ModUnique ==
  ASSUME NEW n \in Int, NEW d \in Nat \ {0}, NEW q \in Int, NEW r \in 0 .. d - 1,
         n = d * q + r
  PROVE  (n % d) = r
OBVIOUS

(* Different numbers with the same residue are far apart. *)
LEMMA SameResidue ==
  ASSUME NEW n \in Int, NEW m \in Int, NEW d \in Nat \ {0}, (n % d) = (m % d), m < n
  PROVE  n - m >= d
<1>1. PICK q \in Int : n = d * q + (n % d)
  BY ModIs
<1>2. PICK p \in Int : m = d * p + (m % d)
  BY ModIs
<1>3. (n % d) \in Int /\ d * q \in Int /\ d * p \in Int
  OBVIOUS
<1>4. n - m = d * q - d * p
  BY <1>1, <1>2, <1>3
<1>5. q > p
  <2> SUFFICES ASSUME q <= p PROVE d * q <= d * p
    BY <1>3, <1>4
  <2> QED
    OBVIOUS
<1>6. d * q - d * p = d * (q - p) /\ q - p >= 1
  BY <1>5
<1>7. d * (q - p) >= d
  BY <1>6
<1> QED
  BY <1>4, <1>6, <1>7

(* Residues of numbers less than a round apart: either none, or one wrapped. *)
LEMMA NearResidue ==
  ASSUME NEW n \in Int, NEW m \in Int, NEW d \in Nat \ {0}, m <= n, n - m < d
  PROVE  (n % d) - (m % d) \in {n - m, n - m - d}
<1>1. PICK q \in Int : n = d * q + (n % d)
  BY ModIs
<1>2. PICK p \in Int : m = d * p + (m % d)
  BY ModIs
<1>3. (n % d) \in 0 .. d - 1 /\ (m % d) \in 0 .. d - 1 /\ d * q \in Int /\ d * p \in Int
  OBVIOUS
<1>4. (n % d) - (m % d) = (n - m) - (d * q - d * p)
  BY <1>1, <1>2, <1>3
<1>5. d * q - d * p = d * (q - p) /\ q - p \in Int
  OBVIOUS
<1>6. 0 - d < d * (q - p) /\ d * (q - p) < 2 * d
  BY <1>3, <1>4, <1>5
<1>7. q - p \in {0, 1}
  BY <1>5, <1>6
<1>8. d * (q - p) \in {0, d}
  BY <1>7
<1> QED
  BY <1>3, <1>4, <1>5, <1>8

(* The slot of a packet depends on its number only. *)
LEMMA SlotOfNumber ==
  ASSUME NEW n \in Int, NEW m \in Int, SeqNr(n) = SeqNr(m)
  PROVE  n % kRxHistorySize = m % kRxHistorySize
<1> DEFINE d == kRxHistorySize
           s == SeqNrs
<1>1. d \in Nat \ {0} /\ s \in Nat \ {0} /\ s \in Int /\ (s % d) = 0
  BY RingAssumption
<1> HIDE DEF d, s
<1>2. PICK c \in Int : s = d * c + (s % d)
  BY <1>1, ModIs
<1>3. (n % s) = (m % s)
  BY DEF SeqNr, s
<1>4. PICK q \in Int : n = s * q + (n % s)
  BY <1>1, ModIs
<1>5. PICK p \in Int : m = s * p + (m % s)
  BY <1>1, ModIs
<1>6. PICK t \in Int : m = d * t + (m % d)
  BY <1>1, ModIs
<1>7. s = d * c /\ d * c \in Int
  BY <1>1, <1>2
<1>8. n - m = s * (q - p)
  <2>1. s * q - s * p = s * (q - p) /\ s * q \in Int /\ s * p \in Int /\ (n % s) \in Int
    BY <1>1
  <2> QED
    BY <1>3, <1>4, <1>5, <2>1
<1>9. s * (q - p) = d * (c * (q - p)) /\ c * (q - p) \in Int
  BY <1>1, <1>7
<1>10. n = d * (c * (q - p) + t) + (m % d) /\ c * (q - p) + t \in Int
  <2> DEFINE u == c * (q - p)
  <2>1. u \in Int /\ n - m = d * u
    BY <1>8, <1>9
  <2> HIDE DEF u
  <2>2. d * (u + t) = d * u + d * t /\ d * u \in Int /\ d * t \in Int /\ (m % d) \in Int
    BY <1>1, <2>1
  <2>3. n = d * (u + t) + (m % d) /\ u + t \in Int
    BY <1>6, <2>1, <2>2
  <2> QED
    BY <2>3 DEF u
<1>11. (m % d) \in 0 .. d - 1
  BY <1>1
<1>12. (n % d) = (m % d)
  BY <1>1, <1>10, <1>11, ModUnique
<1> QED
  BY <1>12 DEF d

-----------------------------------------------------------------------------
(* The largest of a set of numbers. *)

LEMMA MaxIs ==
  ASSUME NEW S \in SUBSET Int, NEW h \in S, \A x \in S : x <= h
  PROVE  Max(S) = h
<1>1. \A x \in S : (\A y \in S : x >= y) => x = h
  OBVIOUS
<1>2. \A y \in S : h >= y
  OBVIOUS
<1> QED
  BY <1>1, <1>2, Zenon DEF Max

LEMMA LeastNatural ==
  ASSUME NEW S \in SUBSET Nat, S # {}
  PROVE  \E n \in S : \A m \in S : n <= m
<1>1. PICK n \in S : \A m \in S : ~ (<<m, n>> \in OpToRel(<, Nat))
  BY WFMin, NatLessThanWellFounded, Zenon
<1>2. \A m \in S : ~ (m < n)
  BY <1>1, Zenon DEF OpToRel
<1>3. \A m \in S : m \in Nat /\ n \in Nat
  OBVIOUS
<1> QED
  BY <1>2, <1>3

LEMMA MaxOfBounded ==
  ASSUME NEW b \in Int, NEW S \in SUBSET Int, S # {}, \A x \in S : x <= b
  PROVE  Max(S) \in S /\ \A x \in S : x <= Max(S)
<1> DEFINE D == {b - x : x \in S}
<1>1. D \in SUBSET Nat /\ D # {}
  <2>1. \A x \in S : b - x \in Nat
    OBVIOUS
  <2> QED
    BY <2>1
<1>2. PICK n \in D : \A m \in D : n <= m
  BY <1>1, LeastNatural
<1>3. PICK h \in S : n = b - h
  OBVIOUS
<1>4. ASSUME NEW x \in S PROVE x <= h
  <2>1. n <= b - x
    BY <1>2
  <2> QED
    BY <1>3, <2>1
<1> QED
  BY <1>4, MaxIs

-----------------------------------------------------------------------------
(* The highest sequence number, and what the history holds. *)

Reordered ==
  received # {} => Max(received) \in received /\ \A m \in received : m <= Max(received)

(* Of the packets of a slot the last one of the stream is in the history:   *)
(* one that is late does not come after a packet of the next round.         *)
HistLatest ==
  \A m \in hist : \A n \in received :
    n % kRxHistorySize = m % kRxHistorySize => n <= m

StreamInv ==
  /\ received \subseteq First .. MaxN
  /\ hist \subseteq received
  /\ Reordered
  /\ HighestIsHighest
  /\ HistLatest

(* The packet before n that is the highest one; the stream starts before it *)
(* has a packet.                                                            *)
HighestPacket == IF received = {} THEN First - 1 ELSE Max(received)

LEMMA ArrivalIs ==
  ASSUME StreamInv, NEW n \in Arrivals
  PROVE  /\ n \in First .. MaxN /\ HighestPacket \in Int
         /\ HighestPacket - MaxLate <= n /\ n <= HighestPacket + MaxJump
         /\ HighestBefore(n) = SeqNr(HighestPacket)
         /\ \A m \in received : m <= HighestPacket
         /\ received # {} => HighestPacket \in received
<1>1. CASE received = {}
  BY <1>1, NetworkAssumption DEF Arrivals, HighestPacket, HighestBefore
<1>2. CASE received # {}
  <2>1. Max(received) \in received /\ received \subseteq Int
    BY <1>2 DEF StreamInv, Reordered
  <2>2. n \in Max(received) - MaxLate .. Max(received) + MaxJump
        /\ First <= n /\ n <= MaxN
    BY <1>2 DEF Arrivals
  <2> QED
    <3>1. HighestPacket = Max(received)
          /\ HighestBefore(n) = SeqNr(Max(received))
      BY <1>2 DEF HighestPacket, HighestBefore, StreamInv, HighestIsHighest
    <3>2. \A m \in received : m <= Max(received)
      BY <1>2 DEF StreamInv, Reordered
    <3> HIDE DEF HighestPacket
    <3>3. Max(received) \in Int
      BY <2>1
    <3> QED
      BY <2>1, <2>2, <3>1, <3>2, <3>3, NetworkAssumption
<1> QED
  BY <1>1, <1>2

(* The sequence numbers tell whether a packet is the highest. *)
LEMMA AdvancesIs ==
  ASSUME NEW n \in Int, NEW h \in Int, h - MaxLate <= n, n <= h + MaxJump
  PROVE  /\ n > h => Advances(SeqNr(n), SeqNr(h))
         /\ n < h => ~Advances(SeqNr(n), SeqNr(h))
<1> DEFINE s == SeqNr(n)
           t == SeqNr(h)
<1>1. s \in 0 .. SeqNrs - 1 /\ t \in 0 .. SeqNrs - 1 /\ SeqNrs \in Nat
  BY RingAssumption, ModIs DEF SeqNr
<1>2. n > h => s - t \in {n - h, n - h - SeqNrs}
  <2> SUFFICES ASSUME n > h PROVE s - t \in {n - h, n - h - SeqNrs}
    OBVIOUS
  <2>1. h <= n /\ n - h < SeqNrs /\ SeqNrs \in Nat \ {0}
    BY RingAssumption, NetworkAssumption
  <2>2. (n % SeqNrs) - (h % SeqNrs) \in {n - h, n - h - SeqNrs}
    BY <2>1, NearResidue
  <2> QED
    BY <2>2 DEF SeqNr
<1>3. n < h => t - s \in {h - n, h - n - SeqNrs}
  <2> SUFFICES ASSUME n < h PROVE t - s \in {h - n, h - n - SeqNrs}
    OBVIOUS
  <2>1. n <= h /\ h - n < SeqNrs /\ SeqNrs \in Nat \ {0}
    BY RingAssumption, NetworkAssumption
  <2>2. (h % SeqNrs) - (n % SeqNrs) \in {h - n, h - n - SeqNrs}
    BY <2>1, NearResidue
  <2> QED
    BY <2>2 DEF SeqNr
<1> HIDE DEF s, t
<1>4. n > h => Advances(s, t)
  BY <1>1, <1>2, NetworkAssumption DEF Advances
<1>5. n < h => ~Advances(s, t)
  BY <1>1, <1>3, NetworkAssumption DEF Advances
<1> QED
  BY <1>4, <1>5 DEF s, t

LEMMA ReceiveKeepsHighest ==
  ASSUME StreamInv, NEW n \in Arrivals, NEW mark \in BOOLEAN, NEW elapsed \in BOOLEAN,
         Receive(n, mark, elapsed)
  PROVE  Reordered' /\ HighestIsHighest' /\ received' \subseteq First .. MaxN
<1> DEFINE h == HighestPacket
           top == IF n > h THEN n ELSE h
<1>1. /\ n \in First .. MaxN /\ h \in Int /\ h - MaxLate <= n /\ n <= h + MaxJump
      /\ HighestBefore(n) = SeqNr(h)
      /\ \A m \in received : m <= h
      /\ received # {} => h \in received
      /\ received = {} => n = h + 1
  BY ArrivalIs, NetworkAssumption DEF Arrivals, HighestPacket
<1>2. received' = received \cup {n} /\ received \subseteq First .. MaxN
  BY DEF Receive, StreamInv
<1>3. highestSeqNr' = HighestAfter(n)
  BY DEF Receive, Record
<1> HIDE DEF h
<1>4. top \in received' /\ \A m \in received' : m <= top
  BY <1>1, <1>2
<1>5. Max(received') = top
  <2> HIDE DEF top
  <2>1. received' \in SUBSET Int
    BY <1>1, <1>2, NetworkAssumption
  <2> QED
    BY <1>4, <2>1, MaxIs
<1>6. HighestAfter(n) = SeqNr(top)
  <2>1. CASE n > h
    BY <1>1, <2>1, AdvancesIs DEF HighestAfter
  <2>2. CASE n < h
    BY <1>1, <2>2, AdvancesIs DEF HighestAfter
  <2>3. CASE n = h
    BY <1>1, <2>3 DEF HighestAfter
  <2> QED
    BY <1>1, <2>1, <2>2, <2>3
<1> QED
  BY <1>1, <1>2, <1>3, <1>4, <1>5, <1>6 DEF Reordered, HighestIsHighest

LEMMA ReceiveKeepsHistory ==
  ASSUME StreamInv, NEW n \in Arrivals, NEW mark \in BOOLEAN, NEW elapsed \in BOOLEAN,
         Receive(n, mark, elapsed)
  PROVE  hist' \subseteq received' /\ HistLatest'
<1>1. /\ n \in First .. MaxN /\ HighestPacket \in Int
      /\ HighestPacket - MaxLate <= n
      /\ \A m \in received : m <= HighestPacket
      /\ received \subseteq First .. MaxN /\ hist \subseteq received
  BY ArrivalIs DEF StreamInv
<1>2. received' = received \cup {n} /\ hist' = Recorded(n)
  BY DEF Receive, Record
<1>3. hist' \subseteq received'
  BY <1>1, <1>2 DEF Recorded
<1>4. ASSUME NEW m \in hist', NEW k \in received',
             k % kRxHistorySize = m % kRxHistorySize
      PROVE  k <= m
  <2>1. CASE m = n
    <3>1. CASE k = n
      BY <1>1, <2>1, <3>1
    <3>2. CASE k \in received
      <4>1. k \in Int /\ n \in Int /\ k - n <= MaxLate
        BY <1>1, <3>2, NetworkAssumption
      <4>2. n < k => k - n >= kRxHistorySize
        BY <1>4, <2>1, <4>1, SameResidue, RingAssumption
      <4> QED
        BY <2>1, <4>1, <4>2, NetworkAssumption, RingAssumption
    <3> QED
      BY <1>2, <3>1, <3>2
  <2>2. CASE m # n
    <3>1. m \in hist /\ m % kRxHistorySize # n % kRxHistorySize
      BY <1>2, <2>2 DEF Recorded
    <3>2. k \in received
      BY <1>2, <1>4, <3>1
    <3> QED
      BY <1>4, <3>1, <3>2 DEF StreamInv, HistLatest
  <2> QED
    BY <2>1, <2>2
<1> QED
  BY <1>3, <1>4 DEF HistLatest

LEMMA StreamStep == StreamInv /\ [Next]_vars => StreamInv'
<1>1. ASSUME StreamInv, NEW n \in Arrivals, NEW mark \in BOOLEAN, NEW elapsed \in BOOLEAN,
             Receive(n, mark, elapsed)
      PROVE  StreamInv'
  BY <1>1, ReceiveKeepsHighest, ReceiveKeepsHistory DEF StreamInv
<1>2. StreamInv /\ UNCHANGED vars => StreamInv'
  BY DEF StreamInv, vars, Reordered, HighestIsHighest, HistLatest
<1> QED
  BY <1>1, <1>2 DEF Next

LEMMA StreamInit == Init => StreamInv
BY DEF Init, StreamInv, Reordered, HighestIsHighest, HistLatest

(* "Highest received sequence number": however packets are lost, reordered  *)
(* or duplicated, and as often as the numbers wrap, the receiver knows the  *)
(* last packet it has.                                                      *)
THEOREM HighestCorrect == Spec => []HighestIsHighest
<1>1. StreamInv => HighestIsHighest
  BY DEF StreamInv
<1> QED
  BY <1>1, StreamInit, StreamStep, PTL DEF Spec

-----------------------------------------------------------------------------
(* What a block reports was received. *)

LEMMA ReportIsReceived ==
  ASSUME StreamInv', NEW n \in Arrivals, NEW mark \in BOOLEAN, NEW elapsed \in BOOLEAN,
         Receive(n, mark, elapsed)
  PROVE  NoFalseAck'
<1> SUFFICES ASSUME NEW block \in feedback', NEW seq \in block.rx
             PROVE  Meant(seq)' \in received' \/ SlotIdle(Meant(seq))'
  BY DEF NoFalseAck
<1>1. PICK m \in hist' : seq = SeqNr(m)
  <2>1. \E i \in 1 .. MaxBlocks :
          block.rx = ReportedIn(Recorded(n), Ends(highestSeqNrTx, HighestAfter(n))[i])
    BY DEF Receive, Message
  <2> QED
    BY <2>1 DEF ReportedIn, Receive, Record
<1>2. /\ received' \subseteq First .. MaxN /\ m \in received'
      /\ Max(received') \in received' /\ m <= Max(received')
  BY <1>1 DEF StreamInv, Reordered
<1> DEFINE h == Max(received')
           numbered == {k \in First - SeqNrs .. h : SeqNr(k) = seq}
           last == Max(numbered)
<1>3. m \in Int /\ h \in Int /\ First <= m /\ First \in Int /\ SeqNrs \in Nat \ {0}
  <2>1. First .. MaxN \subseteq Int /\ \A k \in First .. MaxN : First <= k
    BY NetworkAssumption
  <2>2. m \in First .. MaxN /\ h \in First .. MaxN
    BY <1>2
  <2> HIDE DEF h
  <2>3. m \in Int /\ h \in Int /\ First <= m
    BY <2>1, <2>2
  <2> QED
    BY <2>3, RingAssumption, NetworkAssumption
<1>4. Meant(seq)' = last
  BY DEF Meant
<1> HIDE DEF h
<1>5. numbered \in SUBSET Int /\ m \in numbered /\ \A k \in numbered : k <= h
  BY <1>1, <1>2, <1>3 DEF h
<1>6. last \in numbered /\ m <= last
  BY <1>3, <1>5, MaxOfBounded
<1> HIDE DEF last
<1>7. last \in Int /\ SeqNr(last) = SeqNr(m)
  BY <1>1, <1>5, <1>6
<1>8. CASE last = m
  BY <1>2, <1>4, <1>8
<1>9. CASE last # m
  <2>1. last - m >= SeqNrs
    <3>1. m < last
      BY <1>3, <1>6, <1>7, <1>9
    <3>2. last % SeqNrs = m % SeqNrs
      BY <1>7 DEF SeqNr
    <3> QED
      BY <1>3, <1>7, <3>1, <3>2, SameResidue
  <2>2. last % kRxHistorySize = m % kRxHistorySize
    BY <1>3, <1>7, SlotOfNumber
  <2>3. ASSUME NEW k \in last - SeqNrs + 1 .. last,
               k % kRxHistorySize = last % kRxHistorySize
        PROVE  k \notin received'
    <3>1. k \in received' => k <= m
      BY <1>1, <2>2, <2>3 DEF StreamInv, HistLatest
    <3> QED
      BY <1>3, <1>7, <2>1, <3>1
  <2> QED
    BY <1>4, <2>3 DEF SlotIdle
<1> QED
  BY <1>8, <1>9

(* No false ack: a number is reported only for the packet that the sender   *)
(* means by it, unless nothing came to its slot for a whole round.          *)
THEOREM NoFalseAckCorrect == Spec => []NoFalseAck
<1>1. Init => NoFalseAck
  BY DEF Init, NoFalseAck
<1>2. ASSUME StreamInv, NoFalseAck, [Next]_vars PROVE NoFalseAck'
  <2>1. CASE UNCHANGED vars
    BY <1>2, <2>1 DEF vars, NoFalseAck, Meant, SlotIdle
  <2>2. CASE Next
    BY <1>2, <2>2, StreamStep, ReportIsReceived DEF Next
  <2> QED
    BY <1>2, <2>1, <2>2
<1> QED
  BY <1>1, <1>2, StreamInit, StreamStep, PTL DEF Spec

-----------------------------------------------------------------------------
(* Types. *)

Numbers == 0 .. SeqNrs - 1

LEMMA SeqNrIsNumber == \A n \in Int : SeqNr(n) \in Numbers
BY ModIs, RingAssumption DEF SeqNr, Numbers

LEMMA BlockEndIsNumber ==
  ASSUME NEW tx \in Numbers, NEW hi \in Numbers
  PROVE  BlockEnd(tx, hi) \in Numbers
<1>1. tx + Reported \in Int
  BY RingAssumption DEF Numbers
<1>2. (tx + Reported) % SeqNrs \in Numbers
  BY <1>1, SeqNrIsNumber DEF SeqNr
<1> QED
  BY <1>2 DEF BlockEnd

(* f is the ends of the first k blocks after tx. *)
EndsUpTo(f, k, tx, hi) ==
  /\ f \in [0 .. k -> Numbers]
  /\ \A i \in 0 .. k : f[i] = IF i = 0 THEN tx ELSE BlockEnd(f[i - 1], hi)

(* They exist for every k: there is no least one for which they do not. *)
LEMMA EndsExist ==
  ASSUME NEW tx \in Numbers, NEW hi \in Numbers, NEW k \in Nat
  PROVE  \E f : EndsUpTo(f, k, tx, hi)
<1> DEFINE bad == {j \in Nat : ~ \E f : EndsUpTo(f, j, tx, hi)}
<1>1. SUFFICES ASSUME bad # {} PROVE FALSE
  OBVIOUS
<1>2. PICK j \in bad : \A m \in bad : j <= m
  BY <1>1, LeastNatural
<1>3. CASE j = 0
  <2>1. EndsUpTo([i \in 0 .. 0 |-> tx], 0, tx, hi)
    BY DEF EndsUpTo
  <2> QED
    BY <1>3, <2>1
<1>4. CASE j # 0
  <2>1. j \in Nat /\ j - 1 \in Nat /\ ~ (j <= j - 1)
    BY <1>4
  <2>2. j - 1 \notin bad
    BY <1>2, <2>1
  <2>3. PICK f : EndsUpTo(f, j - 1, tx, hi)
    BY <2>1, <2>2
  <2> DEFINE g == [i \in 0 .. j |-> IF i = j THEN BlockEnd(f[j - 1], hi) ELSE f[i]]
  <2>4. BlockEnd(f[j - 1], hi) \in Numbers
    BY <2>1, <2>3, BlockEndIsNumber DEF EndsUpTo
  <2>5. g \in [0 .. j -> Numbers]
    <3> SUFFICES ASSUME NEW i \in 0 .. j, i # j PROVE f[i] \in Numbers
      BY <2>4
    <3>1. i \in 0 .. j - 1
      BY <2>1
    <3> QED
      BY <2>3, <3>1 DEF EndsUpTo
  <2>6. ASSUME NEW i \in 0 .. j
        PROVE  g[i] = IF i = 0 THEN tx ELSE BlockEnd(g[i - 1], hi)
    <3>1. CASE i = j
      BY <1>4, <2>1, <3>1
    <3>2. CASE i # j
      <4>1. i \in 0 .. j - 1 /\ (i # 0 => i - 1 \in 0 .. j /\ i - 1 # j)
        BY <2>1, <3>2
      <4>2. f[i] = IF i = 0 THEN tx ELSE BlockEnd(f[i - 1], hi)
        BY <2>3, <4>1 DEF EndsUpTo
      <4> QED
        BY <3>2, <4>1, <4>2
    <3> QED
      BY <3>1, <3>2
  <2>7. EndsUpTo(g, j, tx, hi)
    BY <2>5, <2>6 DEF EndsUpTo
  <2> QED
    BY <2>7
<1> QED
  BY <1>3, <1>4

(* The ends of blocks are sequence numbers, however many are made. *)
LEMMA EndsAreNumbers ==
  ASSUME NEW tx \in Numbers, NEW hi \in Numbers
  PROVE  Ends(tx, hi)[MaxBlocks] \in Numbers
<1> DEFINE Body(f) == [i \in 0 .. MaxBlocks |-> IF i = 0 THEN tx ELSE BlockEnd(f[i - 1], hi)]
           end == CHOOSE f : f = Body(f)
<1>1. PICK f : EndsUpTo(f, MaxBlocks, tx, hi)
  BY EndsExist, RingAssumption
<1>2. f = Body(f)
  BY <1>1 DEF EndsUpTo
<1>3. end = Body(end)
  BY <1>2
<1>4. Ends(tx, hi)[MaxBlocks] = end[MaxBlocks]
  BY RingAssumption DEF Ends
<1> HIDE DEF end
<1> DEFINE bad == {i \in 0 .. MaxBlocks : end[i] \notin Numbers}
<1>5. SUFFICES ASSUME bad # {} PROVE FALSE
  BY <1>4, RingAssumption
<1>6. PICK i \in bad : \A m \in bad : i <= m
  <2>1. bad \in SUBSET Nat
    OBVIOUS
  <2> HIDE DEF bad
  <2> QED
    BY <1>5, <2>1, LeastNatural
<1>7. end[i] = IF i = 0 THEN tx ELSE BlockEnd(end[i - 1], hi)
  BY <1>3
<1>8. CASE i = 0
  BY <1>6, <1>7, <1>8
<1>9. CASE i # 0
  <2>1. i - 1 \in 0 .. MaxBlocks /\ ~ (i <= i - 1)
    BY <1>9, RingAssumption
  <2>2. end[i - 1] \in Numbers
    BY <1>6, <2>1
  <2> QED
    BY <1>7, <1>9, <2>2, BlockEndIsNumber
<1> QED
  BY <1>8, <1>9

LEMMA ReceiveKeepsTypes ==
  ASSUME StreamInv, TypeOK, NEW n \in Arrivals, NEW mark \in BOOLEAN,
         NEW elapsed \in BOOLEAN, Receive(n, mark, elapsed)
  PROVE  TypeOK'
<1>1. n \in Int /\ n - 1 \in Int
  BY ArrivalIs, NetworkAssumption
<1>2. HighestAfter(n) \in Numbers
  BY <1>1, SeqNrIsNumber DEF HighestAfter, HighestBefore, TypeOK, Numbers
<1>3. Ends(highestSeqNrTx, HighestAfter(n))[MaxBlocks] \in Numbers
  BY <1>2, EndsAreNumbers DEF TypeOK, Numbers
<1>4. highestSeqNr' \in Numbers /\ highestSeqNrTx' \in Numbers
  BY <1>2, <1>3 DEF Receive, Record, TypeOK, Numbers
<1>5. \A m, k \in hist' : m % kRxHistorySize = k % kRxHistorySize => m = k
  BY DEF Receive, Record, Recorded, TypeOK
<1>6. doFlush' \in BOOLEAN
  BY DEF Receive, Record, TypeOK
<1>7. nRtpSinceLastRtcp' \in 0 .. AckDiff - 1
  BY RingAssumption DEF Receive, Record, DueAfter, Due, TypeOK
<1> QED
  BY <1>4, <1>5, <1>6, <1>7 DEF TypeOK, Numbers

(* The stream's fields keep their range: a slot holds one packet, what is   *)
(* fed back ends at a sequence number, and feedback is built by every       *)
(* AckDiff packets.                                                         *)
THEOREM TypeCorrect == Spec => []TypeOK
<1>1. Init => TypeOK
  <2>1. 0 \in 0 .. SeqNrs - 1 /\ 0 \in 0 .. AckDiff - 1
    BY RingAssumption
  <2> QED
    BY <2>1 DEF Init, TypeOK
<1>2. StreamInv /\ TypeOK /\ [Next]_vars => TypeOK'
  <2>1. StreamInv /\ TypeOK /\ Next => TypeOK'
    BY ReceiveKeepsTypes DEF Next
  <2>2. TypeOK /\ UNCHANGED vars => TypeOK'
    BY DEF vars, TypeOK
  <2> QED
    BY <2>1, <2>2
<1> QED
  BY <1>1, <1>2, StreamInit, StreamStep, PTL DEF Spec

-----------------------------------------------------------------------------
(* What becomes of a packet that came in order. *)

(* The history has every packet not further back than it is long. *)
HistComplete ==
  \A m \in received : Max(received) - m < kRxHistorySize => m \in hist

(* The highest packet after n was received, and those in order. *)
LEMMA NextTop ==
  ASSUME StreamInv, StreamInv', NEW n \in Arrivals, NEW mark \in BOOLEAN,
         NEW elapsed \in BOOLEAN, Receive(n, mark, elapsed)
  PROVE  LET top == Max(received')
         IN  /\ top \in First .. MaxN /\ top \in received'
             /\ \A m \in received' : m <= top
             /\ highestSeqNr' = SeqNr(top) /\ HighestAfter(n) = SeqNr(top)
             /\ received = {} => top = First
             /\ received # {} => /\ Max(received) \in First .. MaxN
                                 /\ Max(received) <= top
                                 /\ top <= Max(received) + MaxJump
             /\ n <= top
             /\ received # {} => Max(received) - MaxLate <= n
             /\ \A m \in inOrder' :
                  m \in inOrder \/ (m = top /\ \A k \in received : k < m)
<1> DEFINE top == Max(received')
           old == Max(received)
<1>1. received' = received \cup {n} /\ received' # {}
  BY DEF Receive
<1>2. /\ top \in received' /\ received' \subseteq First .. MaxN
      /\ highestSeqNr' = SeqNr(top) /\ \A m \in received' : m <= top
  BY <1>1 DEF StreamInv, Reordered, HighestIsHighest
<1>3. highestSeqNr' = HighestAfter(n)
  BY DEF Receive, Record
<1>4. received = {} => top = First
  <2> SUFFICES ASSUME received = {} PROVE top = First
    OBVIOUS
  <2>1. n = First
    BY DEF Arrivals
  <2> HIDE DEF top
  <2> QED
    BY <1>1, <1>2, <2>1
<1>5. received # {} => /\ old \in received
                       /\ old \in First .. MaxN /\ old - MaxLate <= n /\ n <= old + MaxJump
                       /\ \A m \in received : m <= old
  <2> SUFFICES ASSUME received # {}
               PROVE  /\ old \in received
                      /\ old \in First .. MaxN /\ old - MaxLate <= n /\ n <= old + MaxJump
                      /\ \A m \in received : m <= old
    OBVIOUS
  <2>1. old \in received /\ received \subseteq First .. MaxN
        /\ \A m \in received : m <= old
    BY DEF StreamInv, Reordered
  <2>2. n \in old - MaxLate .. old + MaxJump
    BY DEF Arrivals
  <2> HIDE DEF old
  <2>3. old \in First .. MaxN
    BY <2>1
  <2> QED
    BY <2>1, <2>2, <2>3, NetworkAssumption
<1>6. \A m \in inOrder' : m \in inOrder \/ (m = n /\ \A k \in received : k < n)
  BY DEF Receive
<1> HIDE DEF top, old
<1>7. received # {} => old <= top /\ top <= old + MaxJump
  BY <1>1, <1>2, <1>5, NetworkAssumption
<1>8. n <= top
  BY <1>1, <1>2
<1>9. (\A k \in received : k < n) => n = top
  BY <1>1, <1>2, <1>8, NetworkAssumption
<1>10. \A m \in inOrder' : m \in inOrder \/ (m = top /\ \A k \in received : k < m)
  BY <1>6, <1>9
<1>11. top \in First .. MaxN
  BY <1>2
<1> QED
  BY <1>2, <1>3, <1>4, <1>5, <1>7, <1>8, <1>10, <1>11 DEF top, old

LEMMA ReceiveKeepsRecent ==
  ASSUME StreamInv, StreamInv', HistComplete, NEW n \in Arrivals, NEW mark \in BOOLEAN,
         NEW elapsed \in BOOLEAN, Receive(n, mark, elapsed)
  PROVE  HistComplete'
<1> DEFINE top == Max(received')
           old == Max(received)
           H == kRxHistorySize
<1> SUFFICES ASSUME NEW m \in received', top - m < H PROVE m \in hist'
  BY DEF HistComplete
<1>1. /\ received' = received \cup {n} /\ hist' = Recorded(n)
      /\ H \in Nat \ {0} /\ MaxLate < H /\ MaxLate \in Nat
  BY RingAssumption, NetworkAssumption DEF Receive, Record
<1>2. /\ top \in Int /\ n <= top
      /\ received # {} => old \in Int /\ old <= top /\ old - MaxLate <= n
  <2>1. First .. MaxN \subseteq Int
    BY NetworkAssumption
  <2> QED
    BY <2>1, NextTop
<1>3. received' \subseteq Int
  BY NetworkAssumption DEF StreamInv
<1>4. CASE m = n
  BY <1>1, <1>4 DEF Recorded
<1>5. CASE m # n
  <2>1. m \in received /\ m <= old
    BY <1>1, <1>5 DEF StreamInv, Reordered
  <2> HIDE DEF top, old
  <2>2. m \in Int /\ n \in Int
    BY <1>1, <1>3
  <2>3. old - m < H
    BY <1>2, <2>1, <2>2, <1>1
  <2>4. m \in hist
    BY <2>1, <2>3 DEF HistComplete, old, H
  <2>5. n > m => n - m < H
    BY <1>1, <1>2, <2>1, <2>2
  <2>6. n < m => m - n < H
    BY <1>1, <1>2, <2>1, <2>2
  <2>7. m % H # n % H
    <3>1. SUFFICES ASSUME m % H = n % H PROVE FALSE
      OBVIOUS
    <3>2. n < m \/ m < n
      BY <1>5, <2>2
    <3>3. n < m => m - n >= H
      BY <1>1, <2>2, <3>1, SameResidue
    <3>4. m < n => n - m >= H
      BY <1>1, <2>2, <3>1, SameResidue
    <3> QED
      BY <1>1, <2>2, <2>5, <2>6, <3>2, <3>3, <3>4
  <2> QED
    BY <1>1, <2>4, <2>7 DEF Recorded, H
<1> QED
  BY <1>4, <1>5

(* Where the blocks of a message end: a report further each, up to hi.  A   *)
(* number that wrapped since tx is reached at once.                         *)
LEMMA EndIs ==
  ASSUME NEW tx \in Numbers, NEW hi \in Numbers, NEW i \in 1 .. MaxBlocks
  PROVE  Ends(tx, hi)[i] = IF hi - tx > i * Reported THEN tx + i * Reported ELSE hi
<1> DEFINE Body(f) == [j \in 0 .. MaxBlocks |-> IF j = 0 THEN tx ELSE BlockEnd(f[j - 1], hi)]
           end == CHOOSE f : f = Body(f)
           Right(j) == end[j] = IF hi - tx > j * Reported THEN tx + j * Reported ELSE hi
<1>1. PICK f : EndsUpTo(f, MaxBlocks, tx, hi)
  BY EndsExist, RingAssumption
<1>2. f = Body(f)
  BY <1>1 DEF EndsUpTo
<1>3. end = Body(end)
  BY <1>2
<1>4. \A j \in 1 .. MaxBlocks : Ends(tx, hi)[j] = end[j]
  BY RingAssumption DEF Ends
<1> HIDE DEF end
<1>5. \A j \in 0 .. MaxBlocks : end[j] = IF j = 0 THEN tx ELSE BlockEnd(end[j - 1], hi)
  BY <1>3
<1>6. /\ SeqNrs \in Nat \ {0} /\ Reported \in Nat \ {0} /\ MaxBlocks \in Nat \ {0}
      /\ tx \in Nat /\ hi \in Nat /\ hi < SeqNrs
  BY RingAssumption DEF Numbers
<1>7. ASSUME NEW e \in Nat
      PROVE  BlockEnd(e, hi) = IF hi - e > Reported THEN e + Reported ELSE hi
  <2>1. CASE hi - e > Reported
    <3>1. e + Reported \in 0 .. SeqNrs - 1
      BY <1>6, <2>1
    <3>2. (e + Reported) % SeqNrs = e + Reported
      BY <1>6, <3>1
    <3> QED
      BY <2>1, <3>2 DEF BlockEnd
  <2>2. CASE ~ (hi - e > Reported)
    BY <2>2 DEF BlockEnd
  <2> QED
    BY <2>1, <2>2
<1> DEFINE bad == {j \in 1 .. MaxBlocks : ~Right(j)}
<1>8. SUFFICES ASSUME bad # {} PROVE FALSE
  BY <1>4
<1>9. PICK j \in bad : \A m \in bad : j <= m
  <2>1. bad \in SUBSET Nat
    OBVIOUS
  <2> HIDE DEF bad
  <2> QED
    BY <1>8, <2>1, LeastNatural
<1>10. j \in Nat /\ j >= 1 /\ j <= MaxBlocks
  BY <1>6
<1>11. end[j] = BlockEnd(end[j - 1], hi)
  BY <1>5, <1>10, <1>6
<1>12. CASE j = 1
  <2>1. end[1] = BlockEnd(tx, hi)
    BY <1>5, <1>6
  <2>2. Right(1)
    BY <1>6, <1>7, <2>1
  <2> QED
    BY <1>12, <2>2
<1>13. CASE j # 1
  <2>1. j - 1 \in 1 .. MaxBlocks /\ ~ (j <= j - 1)
    BY <1>6, <1>10, <1>13
  <2>2. Right(j - 1)
    BY <1>9, <2>1
  <2> DEFINE a == (j - 1) * Reported
  <2>3. a \in Nat /\ j * Reported = a + Reported
    BY <1>6, <1>10
  <2> HIDE DEF a
  <2>4. end[j - 1] = IF hi - tx > a THEN tx + a ELSE hi
    BY <2>2 DEF a
  <2>5. CASE hi - tx > a
    <3>1. end[j - 1] = tx + a /\ tx + a \in Nat
      BY <1>6, <2>3, <2>4, <2>5
    <3>2. end[j] = IF hi - (tx + a) > Reported THEN tx + a + Reported ELSE hi
      BY <1>7, <1>11, <3>1
    <3>3. hi - (tx + a) > Reported <=> hi - tx > a + Reported
      BY <1>6, <2>3
    <3>4. tx + a + Reported = tx + (a + Reported)
      BY <1>6, <2>3
    <3>5. Right(j)
      BY <2>3, <3>2, <3>3, <3>4
    <3> QED
      BY <3>5
  <2>6. CASE ~ (hi - tx > a)
    <3>1. end[j] = hi
      BY <1>6, <1>7, <1>11, <2>4, <2>6
    <3>2. ~ (hi - tx > a + Reported)
      BY <1>6, <2>3, <2>6
    <3> QED
      BY <2>3, <3>1, <3>2
  <2> QED
    BY <2>5, <2>6
<1> QED
  BY <1>12, <1>13

(* A packet of the history in the range of a block is acked. *)
LEMMA BlockAcks ==
  ASSUME StreamInv', NEW n \in Arrivals, NEW mark \in BOOLEAN, NEW elapsed \in BOOLEAN,
         Receive(n, mark, elapsed), DueAfter(mark, elapsed),
         NEW i \in 1 .. MaxBlocks, NEW m \in hist',
         (Ends(highestSeqNrTx, HighestAfter(n))[i] - SeqNr(m)) % SeqNrs < Reported
  PROVE  m \in acked'
<1> DEFINE ends == Ends(highestSeqNrTx, HighestAfter(n))
           block == [end |-> ends[i], rx |-> ReportedIn(Recorded(n), ends[i])]
<1>1. hist' = Recorded(n) /\ feedback' = Message(n, mark, elapsed)
      /\ acked' = acked \cup
           {k \in received' : \E b \in feedback' : SeqNr(k) \in b.rx}
  BY DEF Receive, Record
<1>2. block \in feedback'
  BY <1>1 DEF Message
<1>3. SeqNr(m) \in block.rx
  BY <1>1 DEF ReportedIn
<1>4. m \in received'
  BY DEF StreamInv
<1> QED
  BY <1>1, <1>2, <1>3, <1>4

(* A block that ends at packet e covers the packets less than a report      *)
(* before it.                                                               *)
LEMMA BlockCovers ==
  ASSUME NEW e \in Int, NEW m \in Int, m <= e, e - m < Reported
  PROVE  (SeqNr(e) - SeqNr(m)) % SeqNrs < Reported
<1> DEFINE d == e - m
           S == SeqNrs
<1>1. /\ S \in Nat \ {0} /\ kRxHistorySize \in Nat \ {0} /\ S % kRxHistorySize = 0
      /\ Reported <= kRxHistorySize /\ Reported \in Nat
  BY RingAssumption
<1>2. kRxHistorySize <= S
  <2> SUFFICES ASSUME S < kRxHistorySize PROVE FALSE
    BY <1>1
  <2>1. S % kRxHistorySize = S
    BY <1>1, ModUnique
  <2> QED
    BY <1>1, <2>1
<1>3. d \in 0 .. S - 1
  BY <1>1, <1>2
<1>4. (e % S) - (m % S) \in {d, d - S}
  <2>1. m <= e /\ e - m < S /\ S \in Nat \ {0}
    BY <1>1, <1>3
  <2> HIDE DEF S
  <2> QED
    BY <2>1, NearResidue
<1> HIDE DEF d, S
<1>5. (d % S) = d
  BY <1>1, <1>3, ModUnique
<1>6. (d - S) % S = d
  <2>1. d - S = S * (0 - 1) + d /\ d - S \in Int /\ 0 - 1 \in Int
    BY <1>1, <1>3
  <2> QED
    BY <1>1, <1>3, <2>1, ModUnique
<1>7. ((e % S) - (m % S)) % S = d
  BY <1>4, <1>5, <1>6
<1> QED
  BY <1>7 DEF SeqNr, S, d

(* Feedback that is not due is due soon. *)
LEMMA NotDueIs ==
  ASSUME TypeOK, NEW n \in Arrivals, NEW mark \in BOOLEAN, NEW elapsed \in BOOLEAN,
         Receive(n, mark, elapsed), ~ DueAfter(mark, elapsed)
  PROVE  /\ nRtpSinceLastRtcp + 1 < AckDiff /\ ~doFlush /\ ~doFlush'
         /\ nRtpSinceLastRtcp' = nRtpSinceLastRtcp + 1
         /\ highestSeqNrTx' = highestSeqNrTx
         /\ acked \subseteq acked'
BY RingAssumption DEF Receive, Record, DueAfter, Due, TypeOK

-----------------------------------------------------------------------------
(* Streams that wrap as often as they like, when a message reports every    *)
(* packet since the one before, which the code's 32 and 16 allow as long as *)
(* no two packets in a row are lost.                                        *)

ReportsReachBack ==
  /\ (AckDiff - 1) * MaxJump < Reported
  /\ AckDiff * MaxJump <= MaxBlocks * Reported
  /\ First + (AckDiff - 1) * MaxJump <= MaxBlocks * Reported

(* The last message ended at the highest packet of its time. *)
CaughtUp ==
  IF received = {} THEN highestSeqNrTx = 0 /\ nRtpSinceLastRtcp = 0
  ELSE \/ /\ highestSeqNrTx = 0 /\ nRtpSinceLastRtcp >= 1
          /\ Max(received) <= First + (nRtpSinceLastRtcp - 1) * MaxJump
       \/ \E f \in Int : /\ highestSeqNrTx = SeqNr(f) /\ f <= Max(received)
                         /\ Max(received) <= f + nRtpSinceLastRtcp * MaxJump

(* What it did not report came after it. *)
UnreportedIsRecent ==
  \A m \in inOrder \ acked :
    /\ nRtpSinceLastRtcp >= 1
    /\ Max(received) - m <= (nRtpSinceLastRtcp - 1) * MaxJump

ReachInv ==
  /\ StreamInv /\ TypeOK /\ HistComplete
  /\ inOrder \subseteq received /\ ~doFlush
  /\ CaughtUp /\ UnreportedIsRecent

LEMMA InOrderReceived ==
  ASSUME inOrder \subseteq received, NEW n, NEW mark, NEW elapsed,
         Receive(n, mark, elapsed)
  PROVE  inOrder' \subseteq received'
BY DEF Receive

(* The packets since the last message. *)
LEMMA RecentIs ==
  ASSUME ReachInv, StreamInv', NEW n \in Arrivals, NEW mark \in BOOLEAN,
         NEW elapsed \in BOOLEAN, Receive(n, mark, elapsed)
  PROVE  \A m \in inOrder' : m \in acked \/
           Max(received') - m <= nRtpSinceLastRtcp * MaxJump
<1> SUFFICES ASSUME NEW m \in inOrder', m \notin acked
             PROVE  Max(received') - m <= nRtpSinceLastRtcp * MaxJump
  OBVIOUS
<1> DEFINE top == Max(received')
           k == nRtpSinceLastRtcp
<1>1. k \in Nat /\ MaxJump \in Nat /\ k * MaxJump \in Nat
      /\ (k - 1) * MaxJump = k * MaxJump - MaxJump
  BY RingAssumption, NetworkAssumption DEF ReachInv, TypeOK
<1>2. /\ top \in Int
      /\ m \in inOrder \/ m = top
      /\ received # {} => Max(received) \in Int /\ top <= Max(received) + MaxJump
  <2>1. First .. MaxN \subseteq Int
    BY NetworkAssumption
  <2> QED
    BY <2>1, NextTop DEF ReachInv
<1> HIDE DEF top
<1>3. CASE m = top
  BY <1>1, <1>2, <1>3 DEF top
<1>4. CASE m \in inOrder
  <2>1. m \in received /\ received \subseteq First .. MaxN
    BY <1>4 DEF ReachInv, StreamInv
  <2>2. m \in Int
    BY <2>1, NetworkAssumption
  <2>3. Max(received) - m <= (k - 1) * MaxJump
    BY <1>4 DEF ReachInv, UnreportedIsRecent
  <2>4. Max(received) \in Int /\ top <= Max(received) + MaxJump
    BY <1>2, <2>1
  <2> HIDE DEF k
  <2>5. top - m <= k * MaxJump
    BY <1>1, <1>2, <2>2, <2>3, <2>4
  <2> QED
    BY <2>5 DEF top, k
<1> QED
  BY <1>2, <1>3, <1>4

(* The message that is due ends at the highest packet. *)
LEMMA MessageReaches ==
  ASSUME ReportsReachBack, ReachInv, StreamInv', NEW n \in Arrivals,
         NEW mark \in BOOLEAN, NEW elapsed \in BOOLEAN, Receive(n, mark, elapsed)
  PROVE  Ends(highestSeqNrTx, HighestAfter(n))[MaxBlocks] = HighestAfter(n)
<1> DEFINE top == Max(received')
           tx == highestSeqNrTx
           hi == HighestAfter(n)
           k == nRtpSinceLastRtcp
           B == MaxBlocks * Reported
<1>1. /\ k \in Nat /\ k <= AckDiff - 1 /\ AckDiff \in Nat \ {0} /\ MaxJump \in Nat
      /\ First \in Nat /\ SeqNrs \in Nat \ {0} /\ B \in Nat /\ MaxBlocks \in Nat \ {0}
  BY RingAssumption, NetworkAssumption DEF ReachInv, TypeOK
<1>2. /\ k * MaxJump \in Nat /\ k * MaxJump <= (AckDiff - 1) * MaxJump
      /\ (k - 1) * MaxJump = k * MaxJump - MaxJump
      /\ (AckDiff - 1) * MaxJump = AckDiff * MaxJump - MaxJump
      /\ AckDiff * MaxJump \in Nat
  BY <1>1
<1>3. tx \in Numbers
  BY DEF ReachInv, TypeOK, Numbers
<1>4. /\ top \in Nat /\ hi = SeqNr(top)
      /\ received = {} => top = First
      /\ received # {} => Max(received) \in Nat /\ Max(received) <= top
                          /\ top <= Max(received) + MaxJump
  <2>1. First .. MaxN \subseteq Nat
    BY NetworkAssumption
  <2> QED
    BY <2>1, NextTop DEF ReachInv
<1>5. hi \in Numbers
  BY <1>4, SeqNrIsNumber
<1>6. hi <= top
  <2>1. (top % SeqNrs) <= top
    BY <1>1, <1>4
  <2> QED
    BY <1>4, <2>1 DEF SeqNr
<1>7. /\ First + (AckDiff - 1) * MaxJump <= B
      /\ AckDiff * MaxJump <= B
  BY DEF ReportsReachBack
<1>8. hi - tx <= B
  <2>1. tx \in Nat /\ hi \in Nat /\ hi < SeqNrs
    BY <1>1, <1>3, <1>5 DEF Numbers
  <2>2. CASE received = {}
    BY <1>1, <1>2, <1>4, <1>6, <1>7, <2>1, <2>2
  <2>3. CASE /\ received # {} /\ tx = 0 /\ k >= 1
             /\ Max(received) <= First + (k - 1) * MaxJump
    <3> HIDE DEF top, tx, hi, k, B
    <3>1. top <= First + k * MaxJump
      BY <1>1, <1>2, <1>4, <2>3
    <3>2. top <= First + (AckDiff - 1) * MaxJump
      BY <1>1, <1>2, <1>4, <3>1
    <3> QED
      BY <1>1, <1>2, <1>4, <1>6, <1>7, <2>1, <3>2
  <2>4. CASE received # {} /\ \E f \in Int : /\ tx = SeqNr(f) /\ f <= Max(received)
                                             /\ Max(received) <= f + k * MaxJump
    <3>1. PICK f \in Int : /\ tx = SeqNr(f) /\ f <= Max(received)
                           /\ Max(received) <= f + k * MaxJump
      BY <2>4
    <3> HIDE DEF top, tx, hi, k, B
    <3>2. f <= top /\ top - f <= B
      BY <1>1, <1>2, <1>4, <1>7, <2>4, <3>1
    <3>3. CASE top - f < SeqNrs
      <4>0. f <= top /\ top - f < SeqNrs /\ SeqNrs \in Nat \ {0} /\ top \in Int
        BY <1>1, <1>4, <3>2, <3>3
      <4>1. (top % SeqNrs) - (f % SeqNrs) \in {top - f, top - f - SeqNrs}
        BY <4>0, NearResidue
      <4>2. hi - tx \in {top - f, top - f - SeqNrs}
        BY <1>4, <3>1, <4>1 DEF SeqNr
      <4> QED
        BY <1>1, <1>4, <3>2, <4>2
    <3>4. CASE ~ (top - f < SeqNrs)
      BY <1>1, <1>4, <2>1, <3>2, <3>4
    <3> QED
      BY <3>3, <3>4
  <2> QED
    BY <2>2, <2>3, <2>4 DEF ReachInv, CaughtUp
<1>9. tx \in Nat /\ hi \in Nat
  BY <1>3, <1>5, RingAssumption DEF Numbers
<1> HIDE DEF tx, hi, B
<1>10. ~ (hi - tx > B)
  BY <1>1, <1>8, <1>9
<1>11. MaxBlocks \in 1 .. MaxBlocks
  BY <1>1
<1>12. Ends(tx, hi)[MaxBlocks] = IF hi - tx > B THEN tx + B ELSE hi
  BY <1>3, <1>5, <1>11, EndIs DEF B
<1> QED
  BY <1>10, <1>12 DEF tx, hi

LEMMA ReceiveReaches ==
  ASSUME ReportsReachBack, ReachInv, NEW n \in Arrivals, NEW mark \in BOOLEAN,
         NEW elapsed \in BOOLEAN, Receive(n, mark, elapsed)
  PROVE  ReachInv'
<1> DEFINE top == Max(received')
           k == nRtpSinceLastRtcp
<1>1. StreamInv' /\ TypeOK' /\ inOrder' \subseteq received'
  BY ReceiveKeepsHighest, ReceiveKeepsHistory, ReceiveKeepsTypes, InOrderReceived
     DEF ReachInv, StreamInv
<1>2. HistComplete'
  BY <1>1, ReceiveKeepsRecent DEF ReachInv
<1>3. received' # {} /\ received' \subseteq Int
  BY <1>1, NetworkAssumption DEF Receive, StreamInv
<1>4. /\ k \in Nat /\ MaxJump \in Nat /\ k <= AckDiff - 1 /\ AckDiff \in Nat \ {0}
      /\ (k - 1) * MaxJump = k * MaxJump - MaxJump
      /\ (k + 1) * MaxJump = k * MaxJump + MaxJump
      /\ ((k + 1) - 1) * MaxJump = k * MaxJump
      /\ k * MaxJump \in Nat /\ k * MaxJump <= (AckDiff - 1) * MaxJump
  BY RingAssumption, NetworkAssumption DEF ReachInv, TypeOK
<1>5. /\ top \in Int /\ highestSeqNr' = SeqNr(top) /\ HighestAfter(n) = SeqNr(top)
      /\ \A m \in received' : m <= top
      /\ received = {} => top = First
      /\ received # {} => /\ Max(received) \in Int
                          /\ Max(received) <= top /\ top <= Max(received) + MaxJump
  <2>1. First .. MaxN \subseteq Int
    BY NetworkAssumption
  <2> QED
    BY <1>1, <2>1, NextTop DEF ReachInv
<1>6. \A m \in inOrder' : m \in acked \/ top - m <= k * MaxJump
  BY <1>1, RecentIs
<1>7. CASE ~ DueAfter(mark, elapsed)
  <2>1. /\ ~doFlush' /\ nRtpSinceLastRtcp' = k + 1
        /\ highestSeqNrTx' = highestSeqNrTx /\ acked \subseteq acked'
    BY <1>7, NotDueIs DEF ReachInv
  <2>2. UnreportedIsRecent'
    BY <1>4, <1>6, <2>1 DEF UnreportedIsRecent
  <2>3. CaughtUp'
    <3>1. CASE received = {}
      <4>1. highestSeqNrTx = 0 /\ k = 0
        BY <3>1 DEF ReachInv, CaughtUp
      <4>2. top <= First + ((k + 1) - 1) * MaxJump
        BY <1>4, <1>5, <3>1, <4>1, NetworkAssumption
      <4> HIDE DEF top, k
      <4>3. k + 1 >= 1 /\ nRtpSinceLastRtcp' = k + 1 /\ highestSeqNrTx' = 0
        BY <1>4, <2>1, <4>1
      <4>4. nRtpSinceLastRtcp' >= 1 /\ top <= First + (nRtpSinceLastRtcp' - 1) * MaxJump
        BY <4>2, <4>3
      <4> QED
        BY <1>3, <4>3, <4>4 DEF CaughtUp, top
    <3>2. CASE /\ received # {} /\ highestSeqNrTx = 0 /\ k >= 1
               /\ Max(received) <= First + (k - 1) * MaxJump
      <4> HIDE DEF top, k
      <4>1. top <= First + ((k + 1) - 1) * MaxJump
        BY <1>4, <1>5, <3>2, NetworkAssumption
      <4>3. k + 1 >= 1 /\ nRtpSinceLastRtcp' = k + 1 /\ highestSeqNrTx' = 0
        BY <1>4, <2>1, <3>2
      <4>4. nRtpSinceLastRtcp' >= 1 /\ top <= First + (nRtpSinceLastRtcp' - 1) * MaxJump
        BY <4>1, <4>3
      <4> QED
        BY <1>3, <4>3, <4>4 DEF CaughtUp, top
    <3>3. CASE received # {} /\ \E f \in Int : /\ highestSeqNrTx = SeqNr(f)
                 /\ f <= Max(received) /\ Max(received) <= f + k * MaxJump
      <4>1. PICK f \in Int : /\ highestSeqNrTx = SeqNr(f)
                 /\ f <= Max(received) /\ Max(received) <= f + k * MaxJump
        BY <3>3
      <4> HIDE DEF top, k
      <4>2. f <= top /\ top <= f + (k + 1) * MaxJump
        BY <1>4, <1>5, <3>3, <4>1
      <4> QED
        BY <1>3, <2>1, <4>1, <4>2 DEF CaughtUp, top
    <3> QED
      BY <3>1, <3>2, <3>3 DEF ReachInv, CaughtUp
  <2> QED
    BY <1>1, <1>2, <2>1, <2>2, <2>3 DEF ReachInv
<1>8. CASE DueAfter(mark, elapsed)
  <2>1. Ends(highestSeqNrTx, HighestAfter(n))[MaxBlocks] = SeqNr(top)
    BY <1>1, <1>5, MessageReaches
  <2>2. highestSeqNrTx' = SeqNr(top) /\ ~doFlush' /\ nRtpSinceLastRtcp' = 0
    BY <1>5, <1>8, <2>1 DEF Receive, Record
  <2>3. CaughtUp'
    <3>1. top <= top + 0 * MaxJump
      BY <1>4, <1>5
    <3> HIDE DEF top
    <3>2. \E f \in Int : /\ highestSeqNrTx' = SeqNr(f) /\ f <= top
                         /\ top <= f + 0 * MaxJump
      BY <1>5, <2>2, <3>1
    <3> QED
      BY <1>3, <2>2, <3>2 DEF CaughtUp, top
  <2>4. ASSUME NEW m \in inOrder' PROVE m \in acked'
    <3>1. CASE m \in acked
      BY <3>1 DEF Receive
    <3>2. CASE m \notin acked
      <4>1. m \in received' /\ m \in Int /\ m <= top
        BY <1>1, <1>3, <1>5
      <4>2. top - m <= k * MaxJump
        BY <1>6, <3>2
      <4> HIDE DEF top, k
      <4>3. top - m < Reported /\ Reported <= kRxHistorySize /\ Reported \in Int
            /\ kRxHistorySize \in Int
        BY <1>4, <1>5, <4>1, <4>2, RingAssumption DEF ReportsReachBack
      <4>4. m \in hist'
        <5>1. top - m < kRxHistorySize
          BY <1>5, <4>1, <4>3
        <5> QED
          BY <1>2, <4>1, <5>1 DEF HistComplete, top
      <4>5. (SeqNr(top) - SeqNr(m)) % SeqNrs < Reported
        BY <1>5, <4>1, <4>3, BlockCovers
      <4>6. MaxBlocks \in 1 .. MaxBlocks
        BY RingAssumption
      <4>7. (Ends(highestSeqNrTx, HighestAfter(n))[MaxBlocks] - SeqNr(m)) % SeqNrs < Reported
        BY <2>1, <4>5
      <4> QED
        BY <1>1, <1>8, <4>4, <4>6, <4>7, BlockAcks
    <3> QED
      BY <3>1, <3>2
  <2>5. UnreportedIsRecent'
    BY <2>4 DEF UnreportedIsRecent
  <2> QED
    BY <1>1, <1>2, <2>2, <2>3, <2>5 DEF ReachInv
<1> QED
  BY <1>7, <1>8

(* However often the numbers wrap, every packet that came in order is       *)
(* reported, when reports reach back over the packets between two messages. *)
THEOREM InOrderCorrect == ReportsReachBack => (Spec => []InOrderIsAcked)
<1> SUFFICES ASSUME ReportsReachBack PROVE Spec => []InOrderIsAcked
  OBVIOUS
<1>1. Init => ReachInv
  <2> SUFFICES ASSUME Init PROVE ReachInv
    OBVIOUS
  <2>1. TypeOK
    <3>1. 0 \in 0 .. SeqNrs - 1 /\ 0 \in 0 .. AckDiff - 1
      BY RingAssumption
    <3> QED
      BY <3>1 DEF Init, TypeOK
  <2> QED
    BY <2>1, StreamInit DEF Init, ReachInv, HistComplete, CaughtUp, UnreportedIsRecent
<1>2. ReachInv /\ [Next]_vars => ReachInv'
  <2>1. ReachInv /\ Next => ReachInv'
    BY ReceiveReaches DEF Next
  <2>2. ReachInv /\ UNCHANGED vars => ReachInv'
    <3> SUFFICES ASSUME ReachInv, UNCHANGED vars PROVE ReachInv'
      OBVIOUS
    <3>1. StreamInv' /\ TypeOK'
      BY StreamStep DEF ReachInv, vars, TypeOK
    <3> QED
      BY <3>1 DEF ReachInv, vars, HistComplete, CaughtUp, UnreportedIsRecent
  <2> QED
    BY <2>1, <2>2
<1>3. ReachInv => InOrderIsAcked
  <2> SUFFICES ASSUME ReachInv, nRtpSinceLastRtcp = 0, NEW m \in inOrder
               PROVE  m \in acked
    BY DEF InOrderIsAcked
  <2> QED
    BY DEF ReachInv, UnreportedIsRecent
<1> QED
  BY <1>1, <1>2, <1>3, PTL DEF Spec

-----------------------------------------------------------------------------
(* Streams that do not wrap, with holes larger than a report: a message     *)
(* reports what its blocks reach, and the next packet brings another one.   *)
(* What waits for them is safe in the history.  J is a number of messages   *)
(* that reach the packet the stream begins with.                            *)

Reach == MaxBlocks * Reported

HistoryReachesBack(J) ==
  /\ MaxN < SeqNrs
  /\ First <= J * Reach
  /\ (AckDiff + J - 1) * MaxJump <= kRxHistorySize
  /\ MaxJump <= Reach
  /\ First # 0 \/ (AckDiff - 1) * MaxJump < Reported

(* No message yet, or the last one ended at the highest packet of its time, *)
(* or has not come to the beginning of the stream, or is on its way.        *)
Fresh(top) ==
  /\ ~doFlush /\ highestSeqNrTx = 0 /\ nRtpSinceLastRtcp >= 1
  /\ top <= First + (nRtpSinceLastRtcp - 1) * MaxJump

Reached(top) ==
  /\ ~doFlush /\ First <= highestSeqNrTx /\ highestSeqNrTx <= top
  /\ top <= highestSeqNrTx + nRtpSinceLastRtcp * MaxJump

Starting(top, J) ==
  /\ doFlush /\ nRtpSinceLastRtcp = 0 /\ highestSeqNrTx < First
  /\ \E j \in 1 .. J : /\ highestSeqNrTx = j * Reach
                       /\ top <= First + (AckDiff - 2 + j) * MaxJump

Following(top) ==
  /\ doFlush /\ nRtpSinceLastRtcp = 0 /\ First <= highestSeqNrTx
  /\ highestSeqNrTx < top /\ top + MaxJump <= highestSeqNrTx + kRxHistorySize

Progress(J) ==
  IF received = {} THEN highestSeqNrTx = 0 /\ nRtpSinceLastRtcp = 0 /\ ~doFlush
  ELSE \/ Fresh(Max(received)) \/ Reached(Max(received))
       \/ Starting(Max(received), J) \/ Following(Max(received))

(* Packet 0 counts as fed back before it is. *)
ZeroIsFresh(m) ==
  /\ m = 0 /\ highestSeqNrTx = 0 /\ First = 0 /\ nRtpSinceLastRtcp >= 1
  /\ Max(received) <= (nRtpSinceLastRtcp - 1) * MaxJump

AckedUpTo ==
  \A m \in inOrder : m <= highestSeqNrTx => m \in acked \/ ZeroIsFresh(m)

FollowInv(J) ==
  /\ StreamInv /\ TypeOK /\ HistComplete /\ inOrder \subseteq received
  /\ Progress(J) /\ AckedUpTo

LEMMA Products ==
  ASSUME NEW a \in Int, NEW b \in Int, NEW c \in Nat, a <= b
  PROVE  a * c <= b * c
OBVIOUS

LEMMA NoWrapIs ==
  ASSUME NEW J \in Nat \ {0}, HistoryReachesBack(J), NEW n \in First .. MaxN
  PROVE  n \in Nat /\ n \in Numbers /\ SeqNr(n) = n
<1>1. n \in 0 .. SeqNrs - 1 /\ SeqNrs \in Nat \ {0}
  BY NetworkAssumption, RingAssumption DEF HistoryReachesBack
<1>2. n % SeqNrs = n
  BY <1>1
<1> QED
  BY <1>1, <1>2 DEF SeqNr, Numbers

(* Where the next message starts from: it has all to report in the history, *)
(* either since the stream began, or since the message before.              *)
FromBefore(top, J) ==
  /\ highestSeqNrTx < First
  /\ \E j \in 0 .. J - 1 : /\ highestSeqNrTx = j * Reach
                           /\ top <= First + (AckDiff - 1 + j) * MaxJump

FromWithin(top) ==
  /\ First <= highestSeqNrTx
  /\ top <= highestSeqNrTx + kRxHistorySize

LEMMA Bounds ==
  ASSUME TypeOK
  PROVE  /\ nRtpSinceLastRtcp \in Nat /\ nRtpSinceLastRtcp <= AckDiff - 1
         /\ AckDiff \in Nat \ {0} /\ MaxJump \in Nat \ {0} /\ First \in Nat
         /\ Reach \in Nat \ {0} /\ Reported \in Nat \ {0} /\ MaxBlocks \in Nat \ {0}
         /\ Reported <= kRxHistorySize /\ kRxHistorySize \in Nat \ {0}
         /\ highestSeqNrTx \in Nat /\ highestSeqNrTx \in Numbers
         /\ highestSeqNrTx < SeqNrs /\ SeqNrs \in Nat \ {0}
BY RingAssumption, NetworkAssumption DEF TypeOK, Reach, Numbers

LEMMA MessageFrom ==
  ASSUME NEW J \in Nat \ {0}, HistoryReachesBack(J), FollowInv(J), StreamInv',
         NEW n \in Arrivals, NEW mark \in BOOLEAN, NEW elapsed \in BOOLEAN,
         Receive(n, mark, elapsed)
  PROVE  /\ FromBefore(Max(received'), J) \/ FromWithin(Max(received'))
         /\ highestSeqNrTx <= Max(received')
<1> DEFINE top == Max(received')
           old == Max(received)
           k == nRtpSinceLastRtcp
           tx == highestSeqNrTx
           H == kRxHistorySize
           M == MaxJump
           A == AckDiff
           B == Reach
<1>1. /\ k \in Nat /\ k <= A - 1 /\ A \in Nat \ {0} /\ M \in Nat \ {0} /\ First \in Nat
      /\ tx \in Nat /\ H \in Nat \ {0} /\ B \in Nat \ {0}
  BY Bounds DEF FollowInv
<1>2. /\ top \in Nat /\ First <= top
      /\ received = {} => top = First
      /\ received # {} => old \in Nat /\ First <= old /\ old <= top /\ top <= old + M
  <2>1. First .. MaxN \subseteq Nat /\ \A m \in First .. MaxN : First <= m
    BY NetworkAssumption
  <2> QED
    BY <2>1, NextTop DEF FollowInv
<1>3. (A + J - 1) * M <= H /\ First <= J * B
  BY DEF HistoryReachesBack
<1> HIDE DEF top, old, k, tx, H, M, A, B
<1>4. /\ k * M \in Nat /\ (k - 1) * M = k * M - M /\ (k + 1) * M = k * M + M
      /\ k * M <= (A - 1) * M /\ (k + 1) * M <= A * M
      /\ A * M <= (A + J - 1) * M /\ (A - 1) * M <= A * M
  <2>1. k <= A - 1 /\ k + 1 <= A /\ A <= A + J - 1 /\ A - 1 <= A
    BY <1>1
  <2>2. /\ k * M <= (A - 1) * M /\ (k + 1) * M <= A * M
        /\ A * M <= (A + J - 1) * M /\ (A - 1) * M <= A * M
    BY <1>1, <2>1, Products
  <2>3. k * M \in Nat /\ (k - 1) * M = k * M - M /\ (k + 1) * M = k * M + M
    BY <1>1
  <2> QED
    BY <2>2, <2>3
<1>5. {(A - 1) * M, A * M, (A + J - 1) * M} \subseteq Int
  BY <1>1
<1>6. ASSUME tx = 0, top <= First + (A - 1) * M
      PROVE  FromBefore(top, J) \/ FromWithin(top)
  <2>1. CASE First = 0
    <3>1. top <= 0 + H
      BY <1>1, <1>2, <1>3, <1>4, <1>5, <1>6, <2>1
    <3> QED
      BY <1>1, <1>6, <2>1, <3>1 DEF FromWithin, tx, H
  <2>2. CASE First # 0
    <3>1. 0 \in 0 .. J - 1 /\ tx = 0 * B /\ A - 1 + 0 = A - 1 /\ tx < First
      BY <1>1, <1>6, <2>2
    <3>2. top <= First + (A - 1 + 0) * M
      BY <1>6, <3>1
    <3> QED
      BY <3>1, <3>2 DEF FromBefore, tx, A, M, B
  <2> QED
    BY <2>1, <2>2
<1>7. CASE received = {}
  <2>1. tx = 0
    BY <1>7 DEF FollowInv, Progress, tx
  <2>2. top <= First + (A - 1) * M
    BY <1>1, <1>2, <1>4, <1>5, <1>7
  <2> QED
    BY <1>1, <1>2, <1>6, <2>1, <2>2 DEF top, tx
<1>8. CASE received # {} /\ Fresh(old)
  <2>1. tx = 0 /\ old <= First + (k - 1) * M
    BY <1>8 DEF Fresh, tx, k, M
  <2>2. top <= First + (A - 1) * M
    BY <1>1, <1>2, <1>4, <1>5, <1>8, <2>1
  <2> QED
    BY <1>1, <1>2, <1>6, <2>1, <2>2 DEF top, tx
<1>9. CASE received # {} /\ Reached(old)
  <2>1. First <= tx /\ tx <= old /\ old <= tx + k * M
    BY <1>9 DEF Reached, tx, k, M
  <2>2. top <= tx + H /\ tx <= top
    BY <1>1, <1>2, <1>3, <1>4, <1>5, <1>9, <2>1
  <2> QED
    BY <2>1, <2>2 DEF FromWithin, tx, H, top
<1>10. CASE received # {} /\ Starting(old, J)
  <2>1. PICK j \in 1 .. J : tx = j * B /\ old <= First + (A - 2 + j) * M
    BY <1>10 DEF Starting, tx, A, B, M
  <2>2. tx < First
    BY <1>10 DEF Starting, tx
  <2>3. j \in 0 .. J - 1
    <3>1. SUFFICES ASSUME j = J PROVE FALSE
      OBVIOUS
    <3>2. J * B \in Int
      BY <1>1
    <3> QED
      BY <1>1, <1>3, <2>1, <2>2, <3>1, <3>2
  <2>4. (A - 1 + j) * M = (A - 2 + j) * M + M /\ (A - 2 + j) * M \in Int
    BY <1>1
  <2>5. top <= First + (A - 1 + j) * M
    BY <1>1, <1>2, <1>10, <2>1, <2>4
  <2>6. tx <= top
    BY <1>1, <1>2, <2>2
  <2> QED
    BY <2>1, <2>2, <2>3, <2>5, <2>6 DEF FromBefore, tx, A, B, M, top
<1>11. CASE received # {} /\ Following(old)
  <2>1. First <= tx /\ tx < old /\ old + M <= tx + H
    BY <1>11 DEF Following, tx, M, H
  <2>2. top <= tx + H /\ tx <= top
    BY <1>1, <1>2, <1>11, <2>1
  <2> QED
    BY <2>1, <2>2 DEF FromWithin, tx, H, top
<1> QED
  BY <1>7, <1>8, <1>9, <1>10, <1>11 DEF FollowInv, Progress, old

(* Every packet that lies between tx and the end of the last block lies in  *)
(* a block.                                                                 *)
LEMMA BlocksMeet ==
  ASSUME NEW tx \in Numbers, NEW hi \in Numbers, NEW m \in Int,
         tx < m, m <= Ends(tx, hi)[MaxBlocks]
  PROVE  \E i \in 1 .. MaxBlocks : m <= Ends(tx, hi)[i] /\ Ends(tx, hi)[i] - m < Reported
<1> DEFINE end(i) == IF hi - tx > i * Reported THEN tx + i * Reported ELSE hi
           good == {i \in 1 .. MaxBlocks : m <= end(i)}
<1>1. /\ MaxBlocks \in Nat \ {0} /\ Reported \in Nat \ {0} /\ tx \in Nat /\ hi \in Nat
  BY RingAssumption DEF Numbers
<1>2. \A i \in 1 .. MaxBlocks : Ends(tx, hi)[i] = end(i)
  BY EndIs
<1>3. MaxBlocks \in good
  BY <1>1, <1>2
<1>4. PICK i \in good : \A j \in good : i <= j
  <2>1. good \in SUBSET Nat
    BY <1>1
  <2> HIDE DEF good
  <2> QED
    BY <1>3, <2>1, LeastNatural
<1>5. i \in 1 .. MaxBlocks /\ m <= end(i)
  BY <1>4
<1>6. end(i) - m < Reported
  <2> DEFINE a == (i - 1) * Reported
  <2>1. a \in Nat /\ i * Reported = a + Reported
    BY <1>1, <1>5
  <2> HIDE DEF a
  <2>2. end(i) = IF hi - tx > a + Reported THEN tx + a + Reported ELSE hi
    BY <1>1, <2>1
  <2>3. CASE i = 1
    <3>1. a = 0
      BY <1>1, <2>3 DEF a
    <3> QED
      BY <1>1, <2>2, <3>1
  <2>4. CASE i # 1
    <3>1. i - 1 \in 1 .. MaxBlocks /\ ~ (i <= i - 1)
      BY <1>1, <1>5, <2>4
    <3>2. ~ (m <= end(i - 1))
      BY <1>4, <3>1
    <3>3. end(i - 1) = IF hi - tx > a THEN tx + a ELSE hi
      BY DEF a
    <3> HIDE DEF end
    <3>4. CASE hi - tx > a
      BY <1>1, <2>1, <2>2, <3>2, <3>3, <3>4
    <3>5. CASE ~ (hi - tx > a)
      BY <1>1, <1>5, <2>1, <2>2, <3>2, <3>3, <3>5
    <3> QED
      BY <3>4, <3>5
  <2> QED
    BY <2>3, <2>4
<1> HIDE DEF end, good
<1> QED
  BY <1>2, <1>5, <1>6

LEMMA EndsAreNumber ==
  ASSUME NEW tx \in Numbers, NEW hi \in Numbers, NEW i \in 1 .. MaxBlocks, tx <= hi
  PROVE  /\ Ends(tx, hi)[i] \in Numbers /\ Ends(tx, hi)[i] <= hi
         /\ SeqNr(Ends(tx, hi)[i]) = Ends(tx, hi)[i]
<1> DEFINE e == Ends(tx, hi)[i]
<1>1. /\ i \in Nat /\ Reported \in Nat /\ tx \in Nat /\ hi \in Nat /\ hi < SeqNrs
      /\ SeqNrs \in Nat \ {0} /\ i * Reported \in Nat
  BY RingAssumption DEF Numbers
<1>2. e = IF hi - tx > i * Reported THEN tx + i * Reported ELSE hi
  BY EndIs
<1> HIDE DEF e
<1>3. e \in 0 .. SeqNrs - 1 /\ e <= hi
  BY <1>1, <1>2
<1>4. e % SeqNrs = e
  BY <1>1, <1>3
<1> QED
  BY <1>3, <1>4 DEF Numbers, SeqNr, e

(* What a message reaches is acked. *)
LEMMA MessageAcks ==
  ASSUME NEW J \in Nat \ {0}, HistoryReachesBack(J), FollowInv(J), StreamInv',
         HistComplete', inOrder' \subseteq received',
         NEW n \in Arrivals, NEW mark \in BOOLEAN, NEW elapsed \in BOOLEAN,
         Receive(n, mark, elapsed), DueAfter(mark, elapsed),
         NEW m \in inOrder', m <= Ends(highestSeqNrTx, HighestAfter(n))[MaxBlocks]
  PROVE  m \in acked'
<1> DEFINE top == Max(received')
           old == Max(received)
           k == nRtpSinceLastRtcp
           tx == highestSeqNrTx
           H == kRxHistorySize
           M == MaxJump
           A == AckDiff
           end(i) == Ends(tx, HighestAfter(n))[i]
<1> SUFFICES ASSUME m \notin acked PROVE m \in acked'
  BY DEF Receive
<1>1. /\ k \in Nat /\ k <= A - 1 /\ A \in Nat \ {0} /\ M \in Nat \ {0} /\ First \in Nat
      /\ tx \in Nat /\ tx \in Numbers /\ H \in Nat \ {0} /\ Reported \in Nat \ {0}
      /\ Reported <= H /\ MaxBlocks \in 1 .. MaxBlocks /\ Reach \in Nat
  BY Bounds DEF FollowInv
<1>2. /\ top \in First .. MaxN /\ m \in First .. MaxN /\ m <= top /\ m \in received'
      /\ highestSeqNr' = SeqNr(top) /\ HighestAfter(n) = SeqNr(top)
      /\ received = {} => top = First
      /\ received # {} => old \in First .. MaxN /\ top <= old + M
      /\ m \in inOrder \/ (m = top /\ \A i \in received : i < m)
      /\ old \in received \/ received = {}
  BY NextTop DEF StreamInv, FollowInv, Reordered
<1>3. /\ top \in Nat /\ top \in Numbers /\ SeqNr(top) = top
      /\ m \in Nat /\ SeqNr(m) = m
  BY <1>2, NoWrapIs
<1>4. tx <= top /\ (FromBefore(top, J) \/ FromWithin(top))
  BY MessageFrom
<1>5. HighestAfter(n) = top
  BY <1>2, <1>3
<1> HIDE DEF top, old, k, tx, H, M, A
<1>6. ASSUME NEW i \in 1 .. MaxBlocks, m <= end(i), end(i) - m < Reported, top - m < H
      PROVE  m \in acked'
  <2>1. end(i) \in Numbers /\ SeqNr(end(i)) = end(i)
    BY <1>1, <1>3, <1>4, <1>5, EndsAreNumber
  <2>2. m \in hist'
    BY <1>2, <1>6 DEF HistComplete, top, H
  <2>3. end(i) \in Int
    BY <2>1 DEF Numbers
  <2>4. (SeqNr(end(i)) - SeqNr(m)) % SeqNrs < Reported
    BY <1>3, <1>6, <2>3, BlockCovers
  <2>5. (end(i) - SeqNr(m)) % SeqNrs < Reported
    BY <2>1, <2>4
  <2> QED
    BY <2>2, <2>5, BlockAcks DEF tx
<1>7. CASE tx < m
  <2>1. top - m < H
    <3>1. CASE FromBefore(top, J)
      <4>1. PICK j \in 0 .. J - 1 : top <= First + (A - 1 + j) * M
        BY <3>1 DEF FromBefore, A, M
      <4>2. (A - 1 + j) * M <= (A + J - 2) * M
        <5>1. A - 1 + j <= A + J - 2 /\ A - 1 + j \in Int /\ A + J - 2 \in Int
          BY <1>1
        <5> QED
          BY <1>1, <5>1, Products
      <4>3. (A + J - 2) * M = (A + J - 1) * M - M /\ (A - 1 + j) * M \in Int
            /\ (A + J - 1) * M \in Int
        BY <1>1
      <4>4. (A + J - 1) * M <= H
        BY DEF HistoryReachesBack, A, M, H
      <4>5. First <= m
        BY <1>1, <1>2
      <4> QED
        BY <1>1, <1>3, <4>1, <4>2, <4>3, <4>4, <4>5
    <3>2. CASE FromWithin(top)
      BY <1>1, <1>3, <1>7, <3>2 DEF FromWithin, tx, H
    <3> QED
      BY <1>4, <3>1, <3>2
  <2>2. \E i \in 1 .. MaxBlocks : m <= end(i) /\ end(i) - m < Reported
    <3>1. m \in Int /\ m <= Ends(tx, top)[MaxBlocks]
      BY <1>3, <1>5 DEF tx
    <3> QED
      BY <1>1, <1>3, <1>5, <1>7, <3>1, BlocksMeet
  <2> QED
    BY <1>6, <2>1, <2>2
<1>8. CASE m <= tx
  <2>1. m = 0 /\ tx = 0 /\ First = 0 /\ top <= (A - 1) * M
    <3>1. k * M <= (A - 1) * M /\ k * M \in Nat /\ (k - 1) * M = k * M - M
          /\ (A - 1) * M \in Nat
      <4>1. k * M <= (A - 1) * M
        BY <1>1, Products
      <4>2. k * M \in Nat /\ (k - 1) * M = k * M - M /\ (A - 1) * M \in Nat
        BY <1>1
      <4> QED
        BY <4>1, <4>2
    <3>2. CASE m \in inOrder
      <4>1. ZeroIsFresh(m)
        BY <1>8, <3>2 DEF FollowInv, AckedUpTo, tx
      <4>2. m = 0 /\ tx = 0 /\ First = 0 /\ old <= (k - 1) * M
        BY <4>1 DEF ZeroIsFresh, tx, old, k, M
      <4>3. received # {}
        BY <3>2 DEF FollowInv
      <4>4. old \in Nat /\ top <= old + M
        BY <1>1, <1>2, <4>3
      <4> QED
        BY <1>1, <1>3, <3>1, <4>2, <4>4
    <3>3. CASE m = top /\ received = {}
      <4>1. tx = 0
        BY <3>3 DEF FollowInv, Progress, tx
      <4> QED
        BY <1>1, <1>2, <1>3, <1>8, <3>1, <3>3, <4>1
    <3>4. CASE m = top /\ received # {} /\ \A i \in received : i < m
      <4>1. old < top /\ old \in Nat /\ First <= old
        BY <1>1, <1>2, <3>4
      <4>2. old < tx
        BY <1>1, <1>3, <1>8, <3>4, <4>1
      <4>3. Fresh(old) \/ Reached(old) \/ Starting(old, J) \/ Following(old)
        BY <3>4 DEF FollowInv, Progress, old
      <4>4. tx = 0 \/ tx <= old \/ tx < First
        BY <4>3, <4>1, <1>1 DEF Fresh, Reached, Starting, Following, tx
      <4> QED
        BY <1>1, <4>1, <4>2, <4>4
    <3> QED
      BY <1>2, <3>2, <3>3, <3>4
  <2>2. (A - 1) * M < Reported
    BY <2>1 DEF HistoryReachesBack, A, M
  <2>3. top < Reported /\ (A - 1) * M \in Int
    BY <1>1, <1>3, <2>1, <2>2
  <2>4. 1 \in 1 .. MaxBlocks /\ 1 * Reported = Reported
    BY <1>1
  <2>5. end(1) = IF top - tx > 1 * Reported THEN tx + 1 * Reported ELSE top
    BY <1>1, <1>3, <1>5, <2>4, EndIs
  <2>6. end(1) = top
    BY <1>1, <1>3, <2>1, <2>3, <2>4, <2>5
  <2>7. m <= end(1) /\ end(1) - m < Reported /\ top - m < H
    BY <1>1, <1>3, <2>1, <2>3, <2>6
  <2> QED
    BY <1>6, <2>4, <2>7
<1> QED
  BY <1>1, <1>3, <1>7, <1>8

(* After a message: it reached the highest packet, or goes on. *)
LEMMA MessageProgress ==
  ASSUME NEW J \in Nat \ {0}, HistoryReachesBack(J), FollowInv(J), StreamInv',
         NEW n \in Arrivals, NEW mark \in BOOLEAN, NEW elapsed \in BOOLEAN,
         Receive(n, mark, elapsed), DueAfter(mark, elapsed)
  PROVE  Progress(J)'
<1> DEFINE top == Max(received')
           tx == highestSeqNrTx
           end == Ends(tx, HighestAfter(n))[MaxBlocks]
           H == kRxHistorySize
           M == MaxJump
           A == AckDiff
           B == Reach
<1>1. /\ A \in Nat \ {0} /\ M \in Nat \ {0} /\ First \in Nat
      /\ tx \in Nat /\ tx \in Numbers /\ H \in Nat \ {0} /\ B \in Nat \ {0}
      /\ MaxBlocks \in 1 .. MaxBlocks
  BY Bounds DEF FollowInv
<1>2. /\ top \in First .. MaxN /\ highestSeqNr' = SeqNr(top)
      /\ HighestAfter(n) = SeqNr(top)
  BY NextTop DEF FollowInv
<1>3. top \in Nat /\ top \in Numbers /\ SeqNr(top) = top
  BY <1>2, NoWrapIs
<1>4. tx <= top /\ (FromBefore(top, J) \/ FromWithin(top))
  BY MessageFrom
<1>5. received' # {} /\ First <= top
  BY <1>1, <1>2 DEF Receive
<1>6. highestSeqNrTx' = end /\ doFlush' = (end # top) /\ nRtpSinceLastRtcp' = 0
  BY <1>2, <1>3 DEF Receive, Record
<1>7. end = IF top - tx > B THEN tx + B ELSE top
  BY <1>1, <1>2, <1>3, EndIs DEF Reach
<1> HIDE DEF end
<1>8. /\ (A + J - 1) * M <= H /\ First <= J * B /\ M <= B
  BY DEF HistoryReachesBack
<1> HIDE DEF top, tx, H, M, A, B
<1>9. CASE ~ (top - tx > B)
  <2>1. end = top
    BY <1>7, <1>9
  <2>2. top <= top + 0 * M
    BY <1>1, <1>3
  <2>3. Reached(Max(received))'
    <3>1. ~doFlush' /\ highestSeqNrTx' = top /\ nRtpSinceLastRtcp' = 0
      BY <1>6, <2>1
    <3>2. First <= top /\ top <= top
      BY <1>3, <1>5
    <3> QED
      BY <2>2, <3>1, <3>2 DEF Reached, M, top
  <2> QED
    BY <1>5, <2>3 DEF Progress, top
<1>10. CASE top - tx > B
  <2>1. end = tx + B /\ end < top /\ end \in Nat /\ end # top
    BY <1>1, <1>3, <1>7, <1>10
  <2>2. doFlush' /\ highestSeqNrTx' = end /\ nRtpSinceLastRtcp' = 0
    BY <1>6, <2>1
  <2>3. CASE FromWithin(top)
    <3>1. First <= tx /\ top <= tx + H
      BY <2>3 DEF FromWithin, tx, H
    <3>2. First <= end /\ top + M <= end + H
      BY <1>1, <1>3, <1>8, <2>1, <3>1
    <3>3. Following(Max(received))'
      BY <2>1, <2>2, <3>2 DEF Following, top, M, H
    <3> QED
      BY <1>5, <3>3 DEF Progress, top
  <2>4. CASE FromBefore(top, J)
    <3>1. PICK j \in 0 .. J - 1 : tx = j * B /\ top <= First + (A - 1 + j) * M
      BY <2>4 DEF FromBefore, tx, A, B, M
    <3>2. end = (j + 1) * B /\ j + 1 \in 1 .. J /\ A - 2 + (j + 1) = A - 1 + j
      <4>1. (j + 1) * B = j * B + B
        BY <1>1
      <4> QED
        BY <1>1, <2>1, <3>1, <4>1
    <3>3. CASE end < First
      <4>1. top <= First + (A - 2 + (j + 1)) * M
        BY <3>1, <3>2
      <4>2. \E i \in 1 .. J : end = i * B /\ top <= First + (A - 2 + i) * M
        BY <3>2, <4>1
      <4>3. Starting(Max(received), J)'
        BY <2>2, <3>3, <4>2 DEF Starting, top, A, B, M
      <4> QED
        BY <1>5, <4>3 DEF Progress, top
    <3>4. CASE First <= end
      <4>1. (A + j) * M = (A - 1 + j) * M + M /\ (A - 1 + j) * M \in Int
        BY <1>1
      <4>2. (A + j) * M <= (A + J - 1) * M
        <5>1. A + j <= A + J - 1 /\ A + j \in Int /\ A + J - 1 \in Int
          BY <1>1
        <5> QED
          BY <1>1, <5>1, Products
      <4>3. (A + j) * M <= H
        <5>1. (A + j) * M \in Int /\ (A + J - 1) * M \in Int
          BY <1>1
        <5> QED
          BY <1>1, <1>8, <4>2, <5>1
      <4>4. top + M <= end + H
        BY <1>1, <1>3, <2>1, <3>1, <3>4, <4>1, <4>3
      <4>5. Following(Max(received))'
        BY <2>1, <2>2, <3>4, <4>4 DEF Following, top, M, H
      <4> QED
        BY <1>5, <4>5 DEF Progress, top
    <3> QED
      BY <1>1, <2>1, <3>3, <3>4
  <2> QED
    BY <1>4, <2>3, <2>4
<1> QED
  BY <1>9, <1>10

(* Between messages. *)
LEMMA NotDueProgress ==
  ASSUME NEW J \in Nat \ {0}, HistoryReachesBack(J), FollowInv(J), StreamInv',
         NEW n \in Arrivals, NEW mark \in BOOLEAN, NEW elapsed \in BOOLEAN,
         Receive(n, mark, elapsed), ~ DueAfter(mark, elapsed)
  PROVE  Progress(J)' /\ AckedUpTo'
<1> DEFINE top == Max(received')
           old == Max(received)
           k == nRtpSinceLastRtcp
           tx == highestSeqNrTx
           M == MaxJump
<1>1. k \in Nat /\ M \in Nat \ {0} /\ First \in Nat /\ tx \in Nat
  BY Bounds DEF FollowInv
<1>2. /\ ~doFlush /\ ~doFlush' /\ nRtpSinceLastRtcp' = k + 1
      /\ highestSeqNrTx' = tx /\ acked \subseteq acked'
  BY NotDueIs DEF FollowInv
<1>3. /\ top \in Nat /\ First <= top /\ received' # {}
      /\ received = {} => top = First
      /\ received # {} => old \in Nat /\ First <= old /\ old <= top /\ top <= old + M
  <2>1. First .. MaxN \subseteq Nat /\ \A m \in First .. MaxN : First <= m
    BY NetworkAssumption
  <2> QED
    BY <2>1, NextTop DEF FollowInv, Receive
<1>4. \A m \in inOrder' : m \in inOrder \/ (m = top /\ \A i \in received : i < m)
  BY NextTop DEF FollowInv
<1>5. /\ k * M \in Nat /\ (k - 1) * M = k * M - M /\ (k + 1) * M = k * M + M
      /\ (k + 1) - 1 = k /\ k + 1 >= 1
  BY <1>1
<1>6. received # {} => old \in received
  BY DEF FollowInv, StreamInv, Reordered
<1>7. \/ received = {} /\ tx = 0 /\ k = 0
      \/ received # {} /\ Fresh(old)
      \/ received # {} /\ Reached(old)
  BY <1>2 DEF FollowInv, Progress, Starting, Following
<1> HIDE DEF top, old, k, tx, M
<1>8. ASSUME tx = 0, top <= First + k * M PROVE Fresh(Max(received))'
  <2>1. highestSeqNrTx' = 0
    BY <1>2, <1>8
  <2>2. nRtpSinceLastRtcp' >= 1 /\ top <= First + (nRtpSinceLastRtcp' - 1) * M
    BY <1>2, <1>5, <1>8
  <2> QED
    BY <1>2, <2>1, <2>2 DEF Fresh, top, M
<1>9. CASE received = {} /\ tx = 0 /\ k = 0
  <2>1. top <= First + k * M /\ top = First
    BY <1>1, <1>3, <1>5, <1>9
  <2>2. Progress(J)'
    BY <1>3, <1>8, <1>9, <2>1 DEF Progress, top
  <2>3. ASSUME NEW m \in inOrder', m <= tx PROVE ZeroIsFresh(m)'
    <3>1. m = top
      BY <1>4, <1>9 DEF FollowInv
    <3>2. m = 0 /\ First = 0 /\ top <= k * M
      BY <1>1, <1>3, <1>5, <1>9, <2>1, <2>3, <3>1
    <3>3. nRtpSinceLastRtcp' >= 1 /\ top <= (nRtpSinceLastRtcp' - 1) * M
      BY <1>2, <1>5, <3>2
    <3> QED
      BY <1>2, <1>9, <3>2, <3>3 DEF ZeroIsFresh, top, M
  <2> QED
    BY <1>2, <2>2, <2>3 DEF AckedUpTo
<1>10. ASSUME received # {}, NEW m \in inOrder, m <= tx
       PROVE  m \in acked' \/ ZeroIsFresh(m)'
  <2>1. m \in acked \/ ZeroIsFresh(m)
    BY <1>10 DEF FollowInv, AckedUpTo, tx
  <2>2. CASE ZeroIsFresh(m)
    <3>1. m = 0 /\ tx = 0 /\ First = 0 /\ old <= (k - 1) * M
      BY <2>2 DEF ZeroIsFresh, tx, old, k, M
    <3>2. top <= k * M
      BY <1>1, <1>3, <1>5, <1>10, <3>1
    <3>3. nRtpSinceLastRtcp' >= 1 /\ top <= (nRtpSinceLastRtcp' - 1) * M
      BY <1>2, <1>5, <3>2
    <3> QED
      BY <1>2, <3>1, <3>3 DEF ZeroIsFresh, top, M
  <2> QED
    BY <1>2, <2>1, <2>2
<1>11. ASSUME received # {}, Fresh(old) \/ Reached(old),
              NEW m \in inOrder', m <= tx
       PROVE  m \in inOrder
  <2>1. SUFFICES ASSUME m = top, \A i \in received : i < m PROVE FALSE
    BY <1>4
  <2>2. old < top
    BY <1>6, <1>11, <2>1
  <2>3. tx = 0 \/ tx <= old
    BY <1>11 DEF Fresh, Reached, tx
  <2> QED
    BY <1>1, <1>3, <1>11, <2>1, <2>2, <2>3
<1>12. CASE received # {} /\ Fresh(old)
  <2>1. tx = 0 /\ old <= First + (k - 1) * M
    BY <1>12 DEF Fresh, tx, k, M
  <2>2. top <= First + k * M
    BY <1>1, <1>3, <1>5, <1>12, <2>1
  <2>3. Progress(J)'
    BY <1>3, <1>8, <2>1, <2>2 DEF Progress, top
  <2> QED
    BY <1>2, <1>10, <1>11, <1>12, <2>3 DEF AckedUpTo
<1>13. CASE received # {} /\ Reached(old)
  <2>1. First <= tx /\ tx <= old /\ old <= tx + k * M
    BY <1>13 DEF Reached, tx, k, M
  <2>2. tx <= top /\ top <= tx + (k + 1) * M
    BY <1>1, <1>3, <1>5, <1>13, <2>1
  <2>3. Reached(Max(received))'
    <3>1. top <= highestSeqNrTx' + nRtpSinceLastRtcp' * M
      BY <1>2, <2>2
    <3> QED
      BY <1>2, <2>1, <2>2, <3>1 DEF Reached, top, M
  <2>4. Progress(J)'
    BY <1>3, <2>3 DEF Progress, top
  <2> QED
    BY <1>2, <1>10, <1>11, <1>13, <2>4 DEF AckedUpTo
<1> QED
  BY <1>7, <1>9, <1>12, <1>13

LEMMA ReceiveFollows ==
  ASSUME NEW J \in Nat \ {0}, HistoryReachesBack(J), FollowInv(J),
         NEW n \in Arrivals, NEW mark \in BOOLEAN, NEW elapsed \in BOOLEAN,
         Receive(n, mark, elapsed)
  PROVE  FollowInv(J)'
<1>1. StreamInv' /\ TypeOK' /\ inOrder' \subseteq received'
  BY ReceiveKeepsHighest, ReceiveKeepsHistory, ReceiveKeepsTypes, InOrderReceived
     DEF FollowInv, StreamInv
<1>2. HistComplete'
  BY <1>1, ReceiveKeepsRecent DEF FollowInv
<1>3. CASE ~ DueAfter(mark, elapsed)
  BY <1>1, <1>2, <1>3, NotDueProgress DEF FollowInv
<1>4. CASE DueAfter(mark, elapsed)
  <2>1. highestSeqNrTx' = Ends(highestSeqNrTx, HighestAfter(n))[MaxBlocks]
    BY <1>4 DEF Receive, Record
  <2>2. \A m \in inOrder' : m <= highestSeqNrTx' => m \in acked'
    BY <1>1, <1>2, <1>4, <2>1, MessageAcks
  <2>3. Progress(J)'
    BY <1>1, <1>4, MessageProgress
  <2> QED
    BY <1>1, <1>2, <2>2, <2>3 DEF FollowInv, AckedUpTo
<1> QED
  BY <1>3, <1>4

(* In a stream that does not wrap every packet that came in order is        *)
(* reported (InOrderIsAcked), across holes of several reports, when the     *)
(* history holds what waits.  With the code's 512, 16 and 13 blocks of 32:  *)
(* for up to 31 packets lost in a row when the stream begins within 1..416, *)
(* and for any beginning when no two in a row are lost.                     *)
THEOREM InOrderWithoutWrap ==
  ASSUME NEW J \in Nat \ {0}, HistoryReachesBack(J)
  PROVE  Spec => []InOrderIsAcked
<1>1. Init => FollowInv(J)
  <2> SUFFICES ASSUME Init PROVE FollowInv(J)
    OBVIOUS
  <2>1. TypeOK
    <3>1. 0 \in 0 .. SeqNrs - 1 /\ 0 \in 0 .. AckDiff - 1
      BY RingAssumption
    <3> QED
      BY <3>1 DEF Init, TypeOK
  <2> QED
    BY <2>1, StreamInit DEF Init, FollowInv, HistComplete, Progress, AckedUpTo
<1>2. FollowInv(J) /\ [Next]_vars => FollowInv(J)'
  <2>1. FollowInv(J) /\ Next => FollowInv(J)'
    BY ReceiveFollows DEF Next
  <2>2. FollowInv(J) /\ UNCHANGED vars => FollowInv(J)'
    <3> SUFFICES ASSUME FollowInv(J), UNCHANGED vars PROVE FollowInv(J)'
      OBVIOUS
    <3>1. StreamInv' /\ TypeOK'
      BY StreamStep DEF FollowInv, vars, TypeOK
    <3>2. HistComplete' /\ inOrder' \subseteq received'
      BY DEF FollowInv, vars, HistComplete
    <3>3. Progress(J)'
      BY DEF FollowInv, vars, Progress, Fresh, Reached, Starting, Following
    <3>4. AckedUpTo'
      BY DEF FollowInv, vars, AckedUpTo, ZeroIsFresh
    <3> QED
      BY <3>1, <3>2, <3>3, <3>4 DEF FollowInv
  <2> QED
    BY <2>1, <2>2
<1>3. FollowInv(J) => InOrderIsAcked
  <2> SUFFICES ASSUME FollowInv(J), nRtpSinceLastRtcp = 0, ~doFlush, NEW m \in inOrder
               PROVE  m \in acked
    BY DEF InOrderIsAcked
  <2>1. received # {} /\ m \in received
    BY DEF FollowInv
  <2>2. Reached(Max(received))
    BY <2>1 DEF FollowInv, Progress, Fresh, Starting, Following
  <2>3. /\ m <= Max(received) /\ Max(received) \in received /\ received \subseteq First .. MaxN
    BY <2>1 DEF FollowInv, StreamInv, Reordered
  <2>4. 0 * MaxJump = 0 /\ highestSeqNrTx \in Nat
    BY Bounds DEF FollowInv
  <2>5. Max(received) <= highestSeqNrTx + 0
    BY <2>2, <2>4 DEF Reached
  <2> DEFINE top == Max(received)
  <2> HIDE DEF top
  <2>6. top \in Int /\ m \in Int
    <3>1. top \in received /\ m \in received /\ received \subseteq First .. MaxN
      BY <2>1, <2>3 DEF top
    <3>2. First .. MaxN \subseteq Int
      BY NetworkAssumption
    <3> QED
      BY <3>1, <3>2
  <2>7. m <= highestSeqNrTx
    BY <2>3, <2>4, <2>5, <2>6 DEF top
  <2> QED
    BY <2>7 DEF FollowInv, AckedUpTo, ZeroIsFresh
<1> QED
  BY <1>1, <1>2, <1>3, PTL DEF Spec
=============================================================================
