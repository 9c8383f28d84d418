----------------------------- MODULE LinkProofs -----------------------------
(***************************************************************************)
(* Proofs about the sender's account of its packets, first alone           *)
(* (TxFlight), then with a receiver at the other end of a network (Link),  *)
(* for tables, windows and sessions of any length.                         *)
(*                                                                         *)
(* TxFlight, with sequence numbers that wrap: its types, that every packet *)
(* is counted in bytesInFlight once and until a report reaches it, and     *)
(* that no packet is both acked and lost.  Link, over any network and any  *)
(* restarts: the types of both ends, that only what was received is acked  *)
(* or has the number of a packet of an earlier session that was, and that  *)
(* none is both acked and lost; over a network that keeps the order: that  *)
(* nothing is declared lost, and in the end all is acked.                  *)
(*                                                                         *)
(* The code knows sequence numbers, slots and the number hiSeqAck; the     *)
(* proofs speak of places in the stream.  Within the spans that            *)
(* SpanAssumption allows the two say the same.                             *)
(***************************************************************************)
EXTENDS Link, WellFoundedInduction, FiniteSetTheorems, TLAPS

(* Residues. *)

LEMMA ModIs ==
  ASSUME NEW n \in Int, NEW d \in Nat \ {0}
  PROVE  (n % d) \in 0 .. d - 1 /\ \E q \in Int : n = d * q + (n % d)
<1>1. (n % d) = n - d * (n \div d) /\ n \div d \in Int
  OBVIOUS
<1>2. d * (n \div d) \in Int
  BY <1>1
<1>3. (n % d) \in 0 .. d - 1
  OBVIOUS
<1> DEFINE k == d * (n \div d)
           r == (n % d)
<1>4. r = n - k /\ k \in Int /\ r \in Int
  BY <1>1, <1>2, <1>3
<1> HIDE DEF k, r
<1>5. n = k + r
  BY <1>4
<1> QED
  BY <1>1, <1>3, <1>5 DEF k, r

LEMMA DivIs ==
  ASSUME NEW m \in Int, NEW d \in Nat \ {0}
  PROVE  LET k == (m \div d) * d
         IN  /\ k \in Int /\ k = m - (m % d) /\ k <= m /\ m <= k + (d - 1)
             /\ ((m \div d) + 1) * d = k + d
<1>1. (m % d) = m - d * (m \div d) /\ m \div d \in Int /\ (m % d) \in 0 .. d - 1
  OBVIOUS
<1> DEFINE q == m \div d
           r == (m % d)
           x == d * q
<1>2. q * d = x /\ (q + 1) * d = x + d /\ x \in Int
  <2>1. q \in Int
    BY <1>1
  <2> HIDE DEF q
  <2> QED
    BY <2>1
<1>3. r = m - x /\ r \in 0 .. d - 1
  BY <1>1
<1> HIDE DEF q, r, x
<1>4. x = m - r /\ x <= m /\ m <= x + (d - 1)
  BY <1>2, <1>3
<1> QED
  BY <1>2, <1>4 DEF q, r

LEMMA ModUnique ==
  ASSUME NEW n \in Int, NEW d \in Nat \ {0}, NEW q \in Int, NEW r \in 0 .. d - 1,
         n = d * q + r
  PROVE  (n % d) = r
OBVIOUS

(* Different numbers with the same residue are far apart. *)
LEMMA SameResidue ==
  ASSUME NEW n \in Int, NEW m \in Int, NEW d \in Nat \ {0}, (n % d) = (m % d), m < n
  PROVE  n - m >= d
<1>1. PICK q \in Int : n = d * q + (n % d)
  BY ModIs
<1>2. PICK p \in Int : m = d * p + (m % d)
  BY ModIs
<1>3. (n % d) \in Int /\ d * q \in Int /\ d * p \in Int
  OBVIOUS
<1>4. n - m = d * q - d * p
  BY <1>1, <1>2, <1>3
<1>5. q > p
  <2> SUFFICES ASSUME q <= p PROVE d * q <= d * p
    BY <1>3, <1>4
  <2> QED
    OBVIOUS
<1>6. d * q - d * p = d * (q - p) /\ q - p >= 1
  BY <1>5
<1>7. d * (q - p) >= d
  BY <1>6
<1> QED
  BY <1>4, <1>5, <1>6

(* Residues of numbers less than a round apart: either none, or one wrapped. *)
LEMMA NearResidue ==
  ASSUME NEW n \in Int, NEW m \in Int, NEW d \in Nat \ {0}, m <= n, n - m < d
  PROVE  (n % d) - (m % d) \in {n - m, n - m - d}
<1>1. PICK q \in Int : n = d * q + (n % d)
  BY ModIs
<1>2. PICK p \in Int : m = d * p + (m % d)
  BY ModIs
<1>3. (n % d) \in 0 .. d - 1 /\ (m % d) \in 0 .. d - 1 /\ d * q \in Int /\ d * p \in Int
  OBVIOUS
<1>4. (n % d) - (m % d) = (n - m) - (d * q - d * p)
  BY <1>1, <1>2, <1>3
<1>5. d * q - d * p = d * (q - p) /\ q - p \in Int
  OBVIOUS
<1>6. 0 - d < d * (q - p) /\ d * (q - p) < 2 * d
  BY <1>3, <1>4, <1>5
<1>7. q - p \in {0, 1}
  BY <1>5, <1>6
<1>8. d * (q - p) \in {0, d}
  BY <1>7
<1> QED
  BY <1>3, <1>4, <1>5, <1>8

-----------------------------------------------------------------------------
(* The largest of a set of numbers. *)

LEMMA MaxIs ==
  ASSUME NEW S \in SUBSET Int, NEW h \in S, \A x \in S : x <= h
  PROVE  Max(S) = h
<1>1. \A x \in S : (\A y \in S : x >= y) => x = h
  OBVIOUS
<1>2. \A y \in S : h >= y
  OBVIOUS
<1> QED
  BY <1>1, <1>2, Zenon DEF Max

LEMMA LeastNatural ==
  ASSUME NEW S \in SUBSET Nat, S # {}
  PROVE  \E n \in S : \A m \in S : n <= m
<1>1. PICK n \in S : \A m \in S : ~ (<<m, n>> \in OpToRel(<, Nat))
  BY WFMin, NatLessThanWellFounded, Zenon
<1>2. \A m \in S : ~ (m < n)
  BY <1>1, Zenon DEF OpToRel
<1>3. \A m \in S : m \in Nat /\ n \in Nat
  OBVIOUS
<1> QED
  BY <1>2, <1>3

LEMMA MaxOfBounded ==
  ASSUME NEW b \in Int, NEW S \in SUBSET Int, S # {}, \A x \in S : x <= b
  PROVE  Max(S) \in S /\ \A x \in S : x <= Max(S)
<1> DEFINE D == {b - x : x \in S}
<1>1. D \in SUBSET Nat /\ D # {}
  <2>1. \A x \in S : b - x \in Nat
    OBVIOUS
  <2> QED
    BY <2>1
<1>2. PICK n \in D : \A m \in D : n <= m
  BY <1>1, LeastNatural
<1>3. PICK h \in S : n = b - h
  OBVIOUS
<1>4. ASSUME NEW x \in S PROVE x <= h
  <2>1. n <= b - x
    BY <1>2
  <2> QED
    BY <1>3, <2>1
<1> QED
  BY <1>4, MaxIs

-----------------------------------------------------------------------------
(* Places in the stream, sequence numbers and slots. *)

LEMMA Congruent ==
  ASSUME NEW n \in Int, NEW m \in Int, NEW d \in Nat \ {0},
         \E q \in Int : n - m = d * q
  PROVE  (n % d) = (m % d)
<1>0. PICK q \in Int : n - m = d * q
  OBVIOUS
<1>1. PICK t \in Int : m = d * t + (m % d)
  BY ModIs
<1>2. (m % d) \in 0 .. d - 1 /\ d * q \in Int /\ d * t \in Int /\ q + t \in Int
  BY ModIs
<1>3. d * (q + t) = d * q + d * t
  OBVIOUS
<1>4. n = d * (q + t) + (m % d)
  BY <1>0, <1>1, <1>2, <1>3
<1> QED
  BY <1>2, <1>4, ModUnique

LEMMA SmallResidue ==
  ASSUME NEW d \in Nat \ {0}, NEW x \in 0 .. d - 1
  PROVE  (x % d) = x /\ (x # 0 => ((0 - x) % d) = d - x)
<1>1. x = d * 0 + x /\ x \in Int
  OBVIOUS
<1>2. x # 0 => 0 - x = d * (0 - 1) + (d - x) /\ d - x \in 0 .. d - 1 /\ 0 - x \in Int
  OBVIOUS
<1> QED
  BY <1>1, <1>2, ModUnique

(* A sequence number differs from its packet's place by full tables. *)
LEMMA NumberIs ==
  ASSUME NEW n \in Int
  PROVE  /\ SeqNr(n) \in 0 .. SeqNrs - 1
         /\ \E c \in Int : n - SeqNr(n) = SeqNrs * c
         /\ \E c \in Int : n - SeqNr(n) = kMaxTxPackets * c
<1> DEFINE S == SeqNrs
           K == kMaxTxPackets
<1>1. S \in Nat \ {0} /\ K \in Nat \ {0} /\ S \in Int /\ (S % K) = 0
  BY SlotsAssumption
<1> HIDE DEF S, K
<1>2. PICK e \in Int : S = K * e + (S % K)
  BY <1>1, ModIs
<1>3. PICK q \in Int : n = S * q + (n % S)
  BY <1>1, ModIs
<1>4. (n % S) \in 0 .. S - 1
  BY <1>1, ModIs
<1>5. S = K * e /\ S * q \in Int /\ K * e \in Int
  BY <1>1, <1>2
<1>6. S * q = K * (e * q) /\ e * q \in Int
  <2>1. K * (e * q) = (K * e) * q /\ e * q \in Int
    BY <1>1
  <2> QED
    BY <1>5, <2>1
<1>7. n - (n % S) = S * q
  BY <1>3, <1>4, <1>5
<1>8. \E c \in Int : n - (n % S) = S * c
  BY <1>7
<1>9. \E c \in Int : n - (n % S) = K * c
  BY <1>6, <1>7
<1> QED
  BY <1>4, <1>8, <1>9 DEF SeqNr, S, K

(* So it can be taken for the place wherever slots are computed. *)
LEMMA NumberMod ==
  ASSUME NEW n \in Int, NEW a \in Int
  PROVE  /\ (a - SeqNr(n)) % kMaxTxPackets = (a - n) % kMaxTxPackets
         /\ (SeqNr(n) - a) % kMaxTxPackets = (n - a) % kMaxTxPackets
<1> DEFINE K == kMaxTxPackets
           s == SeqNr(n)
<1>1. K \in Nat \ {0} /\ \A k \in 0 .. SeqNrs - 1 : k \in Int
  BY SlotsAssumption
<1>2. s \in Int /\ \E c \in Int : n - s = K * c
  BY <1>1, NumberIs
<1> HIDE DEF K, s
<1>3. \E c \in Int : n - s = K * c
  BY <1>2
<1>4. (a - s) - (a - n) = n - s /\ (n - a) - (s - a) = n - s
  BY <1>2
<1>5. ASSUME NEW x \in Int, NEW y \in Int, x - y = n - s PROVE (x % K) = (y % K)
  <2>1. \E c \in Int : x - y = K * c
    BY <1>3, <1>5
  <2> QED
    BY <1>1, <2>1, Congruent
<1>6. a - s \in Int /\ a - n \in Int /\ s - a \in Int /\ n - a \in Int
  BY <1>2
<1>7. ((a - s) % K) = ((a - n) % K)
  BY <1>4, <1>5, <1>6
<1>8. ((n - a) % K) = ((s - a) % K)
  BY <1>4, <1>5, <1>6
<1> QED
  BY <1>7, <1>8 DEF K, s

(* Packets of the same slot, or with the same number, are far apart. *)
LEMMA SameSlot ==
  ASSUME NEW n \in Int, NEW m \in Int, m < n
  PROVE  /\ SlotOf(n) = SlotOf(m) => n - m >= kMaxTxPackets
         /\ SeqNr(n) = SeqNr(m) => n - m >= SeqNrs
<1>1. SlotOf(n) = (n % kMaxTxPackets) /\ SlotOf(m) = (m % kMaxTxPackets)
  <2>1. \A k \in Int : SeqNr(k) \in Int /\ SeqNr(k) - 0 = SeqNr(k) /\ k - 0 = k
    BY NumberIs, SlotsAssumption
  <2>2. (SeqNr(n) - 0) % kMaxTxPackets = (n - 0) % kMaxTxPackets
        /\ (SeqNr(m) - 0) % kMaxTxPackets = (m - 0) % kMaxTxPackets
    BY NumberMod
  <2> QED
    BY <2>1, <2>2 DEF SlotOf
<1>2. SlotOf(n) = SlotOf(m) => n - m >= kMaxTxPackets
  <2>1. kMaxTxPackets \in Nat \ {0}
    BY SlotsAssumption
  <2> QED
    BY <1>1, <2>1, SameResidue
<1>3. SeqNr(n) = SeqNr(m) => n - m >= SeqNrs
  <2>1. SeqNrs \in Nat \ {0}
    BY SlotsAssumption
  <2> QED
    BY <2>1, SameResidue DEF SeqNr
<1> QED
  BY <1>2, <1>3

(* How far from each other a packet of the table and one of a report are. *)
Span == MaxAhead + MaxBack + Reported

(* NotAfter tells the order of the stream. *)
LEMMA NotAfterIs ==
  ASSUME NEW n \in Int, NEW r \in Int, n - r <= Span, r - n <= Span
  PROVE  NotAfter(SeqNr(n), SeqNr(r)) <=> n <= r
<1> DEFINE s == SeqNr(n)
           t == SeqNr(r)
<1>1. /\ Span \in Nat /\ WrapGap \in Nat /\ SeqNrs \in Nat \ {0}
      /\ Span <= WrapGap /\ Span + WrapGap < SeqNrs
  BY SlotsAssumption, SpanAssumption, NetworkAssumption, WindowAssumption DEF Span
<1>2. s \in 0 .. SeqNrs - 1 /\ t \in 0 .. SeqNrs - 1
  BY NumberIs
<1> HIDE DEF Span
<1>3. n <= r => t - s \in {r - n, r - n - SeqNrs}
  <2> SUFFICES ASSUME n <= r
               PROVE  (r % SeqNrs) - (n % SeqNrs) \in {r - n, r - n - SeqNrs}
    BY DEF SeqNr
  <2>1. r - n < SeqNrs
    BY <1>1
  <2> QED
    BY <1>1, <2>1, NearResidue
<1>4. r <= n => s - t \in {n - r, n - r - SeqNrs}
  <2> SUFFICES ASSUME r <= n
               PROVE  (n % SeqNrs) - (r % SeqNrs) \in {n - r, n - r - SeqNrs}
    BY DEF SeqNr
  <2>1. n - r < SeqNrs
    BY <1>1
  <2> QED
    BY <1>1, <2>1, NearResidue
<1> HIDE DEF s, t
<1>5. n <= r => NotAfter(s, t)
  BY <1>1, <1>2, <1>3 DEF NotAfter
<1>6. r < n => ~NotAfter(s, t)
  BY <1>1, <1>2, <1>4 DEF NotAfter
<1> QED
  BY <1>5, <1>6 DEF s, t
-----------------------------------------------------------------------------
(* The bytes of a set of packets.  The fold of the community modules is a   *)
(* function defined by recursion on subsets; that it exists, and what it    *)
(* returns, is proved by taking a least set for which it would not be so.   *)

Chosen(s) == CHOOSE x \in s : TRUE

(* g is the function that the sum over S is computed by. *)
Sums(S, g) ==
  g = [s \in SUBSET S |->
         IF s = {} THEN 0 ELSE Chosen(s).size + g[s \ {Chosen(s)}]]

(* Bytes is computed by such a function, if there is one. *)
LEMMA SumIsSome ==
  ASSUME NEW S, NEW g, Sums(S, g)
  PROVE  \E h : Sums(S, h) /\ Bytes(S) = h[S]
<1>1. \E h : Sums(S, h)
  OBVIOUS
<1>2. Sums(S, CHOOSE h : Sums(S, h))
  BY <1>1, Zenon
<1>3. Bytes(S) = (CHOOSE h : Sums(S, h))[S]
  BY Zenon DEF Bytes, MapThenSumSet, MapThenFoldSet, Sums, Chosen
<1> QED
  BY <1>2, <1>3, Zenon

(* A set of finite sets that is not empty has a least one. *)
LEMMA LeastSubset ==
  ASSUME NEW S, IsFiniteSet(S), NEW T, T \subseteq SUBSET S, T # {}
  PROVE  \E t \in T : \A u \in T : u \subseteq t => u = t
<1>1. FiniteSubsetsOf(S) = SUBSET S
  BY FS_FiniteSubsetsOfFinite
<1>2. IsWellFoundedOn(StrictSubsetOrdering(S), SUBSET S)
  BY <1>1, FS_StrictSubsetOrderingWellFounded, Zenon
<1>3. \E t \in T : \A u \in T : ~ (<<u, t>> \in StrictSubsetOrdering(S))
  BY <1>2, WFMin, Zenon
<1>4. PICK t \in T : \A u \in T : ~ (<<u, t>> \in StrictSubsetOrdering(S))
  BY <1>3, Zenon
<1>5. ASSUME NEW u \in T, u \subseteq t, u # t
      PROVE  FALSE
  <2>1. <<u, t>> \in (SUBSET S) \X (SUBSET S)
    BY Zenon
  <2>2. <<u, t>> \in StrictSubsetOrdering(S)
    BY <1>5, <2>1 DEF StrictSubsetOrdering
  <2> QED
    BY <1>4, <2>2, Zenon
<1> QED
  BY <1>4, <1>5, Zenon

(* There is one such function. *)
LEMMA SumsUnique ==
  ASSUME NEW S, IsFiniteSet(S), NEW g, NEW h,
         Sums(S, g), Sums(S, h)
  PROVE  \A s \in SUBSET S : g[s] = h[s]
<1> DEFINE T == {s \in SUBSET S : g[s] # h[s]}
<1> SUFFICES ASSUME T # {} PROVE FALSE
  OBVIOUS
<1>0. T \subseteq SUBSET S
  BY Zenon
<1>1. PICK t \in T : \A u \in T : u \subseteq t => u = t
  <2> HIDE DEF T
  <2> QED BY <1>0, LeastSubset
<1>2. /\ g[t] = IF t = {} THEN 0 ELSE Chosen(t).size + g[t \ {Chosen(t)}]
      /\ h[t] = IF t = {} THEN 0 ELSE Chosen(t).size + h[t \ {Chosen(t)}]
  BY Zenon DEF Sums
<1>3. t # {} => Chosen(t) \in t
  BY DEF Chosen
<1>4. t # {} => t \ {Chosen(t)} \in SUBSET S /\ t \ {Chosen(t)} \notin T
  BY <1>1, <1>3
<1> QED
  BY <1>2, <1>4

(* It gives the sum over any subset too. *)
LEMMA SumsRestricted ==
  ASSUME NEW S, NEW g, Sums(S, g), NEW U \in SUBSET S
  PROVE  Sums(U, [s \in SUBSET U |-> g[s]])
<1> DEFINE r == [s \in SUBSET U |-> g[s]]
<1>1. ASSUME NEW s \in SUBSET U
      PROVE  r[s] = IF s = {} THEN 0 ELSE Chosen(s).size + r[s \ {Chosen(s)}]
  <2>1. s \in SUBSET S /\ s \ {Chosen(s)} \in SUBSET U
    OBVIOUS
  <2>2. g[s] = IF s = {} THEN 0 ELSE Chosen(s).size + g[s \ {Chosen(s)}]
    BY <2>1, Zenon DEF Sums
  <2> QED
    BY <2>1, <2>2
<1> QED
  BY <1>1, Zenon DEF Sums

(* It exists: it is put together from those of the proper subsets. *)
LEMMA SumsExist ==
  ASSUME NEW S, IsFiniteSet(S)
  PROVE  \E g : Sums(S, g)
<1> DEFINE T == {s \in SUBSET S : ~ \E g : Sums(s, g)}
<1> SUFFICES ASSUME T # {} PROVE FALSE
  OBVIOUS
<1>0. T \subseteq SUBSET S
  BY Zenon
<1>1. PICK t \in T : \A u \in T : u \subseteq t => u = t
  <2> HIDE DEF T
  <2> QED BY <1>0, LeastSubset
<1> DEFINE of(u) == CHOOSE g : Sums(u, g)
           next(u, v) == IF u = {} THEN 0 ELSE Chosen(u).size + v
           G == [u \in SUBSET t |->
                   IF u = t THEN next(t, of(t \ {Chosen(t)})[t \ {Chosen(t)}])
                            ELSE of(u)[u]]
<1>2. ASSUME NEW u \in SUBSET t, u # t
      PROVE  Sums(u, of(u)) /\ IsFiniteSet(u)
  <2>1. \E g : Sums(u, g)
    BY <1>1, <1>2
  <2> QED
    BY <2>1, FS_Subset, Zenon
<1>3. ASSUME NEW u \in SUBSET t, u # {}
      PROVE  Chosen(u) \in u /\ u \ {Chosen(u)} \in SUBSET t /\ u \ {Chosen(u)} # t
  BY <1>3 DEF Chosen
<1>4. ASSUME NEW u \in SUBSET t
      PROVE  G[u] = next(u, G[u \ {Chosen(u)}])
  <2>1. CASE u = {}
    <3>1. CASE u = t
      BY <2>1, <3>1
    <3>2. CASE u # t
      <4>1. Sums(u, of(u))
        BY <1>2, <3>2
      <4>2. of(u)[u] = 0
        BY <2>1, <4>1, Zenon DEF Sums
      <4> QED
        BY <2>1, <3>2, <4>2
    <3> QED
      BY <3>1, <3>2
  <2>2. CASE u # {}
    <3> DEFINE v == u \ {Chosen(u)}
    <3>1. v \in SUBSET t /\ v # t
      BY <1>3, <2>2
    <3>2. G[v] = of(v)[v]
      BY <3>1
    <3>3. CASE u = t
      BY <3>2, <3>3
    <3>4. CASE u # t
      <4>1. Sums(u, of(u)) /\ Sums(v, of(v)) /\ IsFiniteSet(v)
        BY <1>2, <3>1, <3>4
      <4>2. of(u)[u] = next(u, of(u)[v])
        BY <4>1, Zenon DEF Sums
      <4>3. Sums(v, [s \in SUBSET v |-> of(u)[s]])
        <5>1. v \in SUBSET u
          OBVIOUS
        <5> HIDE DEF v, of, next, G
        <5> QED
          BY <4>1, <5>1, SumsRestricted
      <4>4. [s \in SUBSET v |-> of(u)[s]][v] = of(v)[v]
        BY <4>1, <4>3, SumsUnique
      <4>5. of(u)[v] = of(v)[v]
        BY <4>4
      <4> QED
        BY <3>2, <3>4, <4>2, <4>5
    <3> QED
      BY <3>3, <3>4
  <2> QED
    BY <2>1, <2>2
<1>5. Sums(t, G)
  <2>1. G = [u \in SUBSET t |-> G[u]]
    OBVIOUS
  <2> HIDE DEF G
  <2>2. G = [u \in SUBSET t |-> next(u, G[u \ {Chosen(u)}])]
    BY <1>4, <2>1, Zenon
  <2> QED
    BY <2>2, Zenon DEF Sums
<1> QED
  BY <1>5

(* The sum over a finite set, one element at a time. *)
LEMMA SumChosen ==
  ASSUME NEW S, IsFiniteSet(S)
  PROVE  /\ Bytes({}) = 0
         /\ S # {} => Bytes(S) =
                        Chosen(S).size + Bytes(S \ {Chosen(S)})
<1> DEFINE R == S \ {Chosen(S)}
<1>1. PICK g : Sums(S, g) /\ Bytes(S) = g[S]
  BY SumsExist, SumIsSome
<1>2. IsFiniteSet(R) /\ IsFiniteSet({})
  BY FS_RemoveElement, FS_EmptySet
<1>3. PICK h : Sums(R, h) /\ Bytes(R) = h[R]
  BY <1>2, SumsExist, SumIsSome
<1>4. PICK e : Sums({}, e) /\ Bytes({}) = e[{}]
  BY <1>2, SumsExist, SumIsSome
<1>5. Sums(R, [s \in SUBSET R |-> g[s]])
  BY <1>1, SumsRestricted
<1>6. g[R] = h[R]
  BY <1>2, <1>3, <1>5, SumsUnique
<1>7. S # {} => g[S] = Chosen(S).size + g[R]
  BY <1>1, Zenon DEF Sums
<1>8. e[{}] = 0
  BY <1>4, Zenon DEF Sums
<1> QED
  BY <1>1, <1>3, <1>4, <1>6, <1>7, <1>8

Sized(S) == \A s \in S : s.size \in Int

(* The sum does not depend on the order: any element can be taken out. *)
LEMMA SumTakeOut ==
  ASSUME NEW S, IsFiniteSet(S), Sized(S)
  PROVE  /\ Bytes(S) \in Int
         /\ \A x \in S : Bytes(S) = x.size + Bytes(S \ {x})
<1> DEFINE P(s) == /\ Bytes(s) \in Int
                   /\ \A x \in s : Bytes(s) =
                                     x.size + Bytes(s \ {x})
           T == {s \in SUBSET S : ~P(s)}
<1> SUFFICES ASSUME T # {} PROVE FALSE
  OBVIOUS
<1>0. T \subseteq SUBSET S
  BY Zenon
<1>1. PICK t \in T : \A u \in T : u \subseteq t => u = t
  <2> HIDE DEF T
  <2> QED BY <1>0, LeastSubset
<1>2. \A u \in SUBSET t : u # t => P(u)
  BY <1>1
<1>3. IsFiniteSet(t)
  BY FS_Subset
<1>4. t # {}
  <2>1. Bytes({}) = 0
    BY <1>3, SumChosen
  <2>2. t = {} => P(t)
    BY <2>1
  <2>3. ~P(t)
    BY Zenon
  <2> QED
    BY <2>2, <2>3
<1> DEFINE f == Chosen(t)
           r == t \ {f}
<1>5. f \in t
  BY <1>4 DEF Chosen
<1>6. Bytes(t) = f.size + Bytes(r)
  BY <1>3, <1>4, SumChosen
<1>7. P(r)
  BY <1>2, <1>5
<1> HIDE DEF f
<1>8. f.size \in Int
  BY <1>5 DEF Sized
<1>9. ASSUME NEW x \in t, x # f
      PROVE  Bytes(t) = x.size + Bytes(t \ {x})
  <2>1. P(t \ {x})
    BY <1>2
  <2>2. Bytes(t \ {x}) = f.size + Bytes((t \ {x}) \ {f})
    BY <1>5, <1>9, <2>1
  <2>3. Bytes(r) = x.size + Bytes(r \ {x})
    BY <1>7, <1>9
  <2>4. r \ {x} = (t \ {x}) \ {f}
    OBVIOUS
  <2>5. x.size \in Int /\ Bytes(r \ {x}) \in Int
    <3>1. P(r \ {x})
      BY <1>2, <1>5
    <3> QED
      BY <3>1 DEF Sized
  <2> DEFINE v == Bytes(r \ {x})
  <2>6. /\ Bytes(t \ {x}) = f.size + v
        /\ Bytes(r) = x.size + v /\ v \in Int
    BY <2>2, <2>3, <2>4, <2>5, Zenon
  <2> HIDE DEF v
  <2> QED
    BY <1>6, <1>8, <2>5, <2>6
<1>10. P(t)
  <2>1. Bytes(t) \in Int
    BY <1>6, <1>7, <1>8
  <2> QED
    BY <1>6, <1>9, <2>1
<1> QED
  BY <1>10

(* A part of a set has its bytes, and the rest of the set the others. *)
LEMMA BytesOfPart ==
  ASSUME NEW S, IsFiniteSet(S), \A p \in S : p.size \in Nat, NEW P \in SUBSET S
  PROVE  /\ Bytes(S) = Bytes(P) + Bytes(S \ P)
         /\ Bytes(P) \in Nat /\ Bytes(S \ P) \in Nat
<1>1. ASSUME NEW Q \in SUBSET S
      PROVE  /\ IsFiniteSet(Q) /\ Sized(Q) /\ Bytes(Q) \in Int
             /\ \A x \in Q : Bytes(Q) = x.size + Bytes(Q \ {x})
  <2>1. IsFiniteSet(Q) /\ Sized(Q)
    BY FS_Subset DEF Sized
  <2> QED
    BY <2>1, SumTakeOut
<1>2. Bytes({}) = 0
  BY FS_EmptySet, SumChosen
<1>3. ASSUME NEW Q \in SUBSET S PROVE Bytes(Q) \in Nat
  <2> DEFINE T == {s \in SUBSET S : Bytes(s) \notin Nat}
  <2>1. SUFFICES ASSUME T # {} PROVE FALSE
    BY <1>1
  <2>2. PICK t \in T : \A u \in T : u \subseteq t => u = t
    <3>1. T \subseteq SUBSET S
      BY Zenon
    <3> HIDE DEF T
    <3> QED
      BY <2>1, <3>1, LeastSubset
  <2>3. PICK x \in t : TRUE
    <3>1. {} \notin T /\ t \in T
      BY <1>2, <2>2
    <3> QED
      BY <3>1
  <2>4. Bytes(t \ {x}) \in Nat
    BY <2>2, <2>3
  <2> QED
    BY <1>1, <2>2, <2>3, <2>4
<1>4. Bytes(S) = Bytes(P) + Bytes(S \ P)
  <2> DEFINE T == {s \in SUBSET S : Bytes(S) # Bytes(s) + Bytes(S \ s)}
  <2>1. SUFFICES ASSUME T # {} PROVE FALSE
    OBVIOUS
  <2>2. PICK t \in T : \A u \in T : u \subseteq t => u = t
    <3>1. T \subseteq SUBSET S
      BY Zenon
    <3> HIDE DEF T
    <3> QED
      BY <2>1, <3>1, LeastSubset
  <2>3. t # {}
    <3>1. S \ {} = S /\ Bytes(S) \in Int
      BY <1>1
    <3>2. {} \notin T
      BY <1>2, <3>1
    <3> QED
      BY <2>2, <3>2
  <2>4. PICK x \in t : TRUE
    BY <2>3
  <2> DEFINE u == t \ {x}
             v == S \ t
  <2>5. Bytes(S) = Bytes(u) + Bytes(S \ u)
    BY <2>2, <2>4
  <2>6. Bytes(t) = x.size + Bytes(u)
    BY <1>1, <2>4
  <2>7. Bytes(S \ u) = x.size + Bytes(v)
    <3>1. x \in S \ u /\ (S \ u) \ {x} = v /\ S \ u \in SUBSET S
      BY <2>4
    <3> HIDE DEF u, v
    <3> QED
      BY <1>1, <3>1
  <2>8. Bytes(u) \in Int /\ Bytes(v) \in Int /\ x.size \in Int /\ u \in SUBSET S
    <3>1. u \in SUBSET S /\ v \in SUBSET S
      OBVIOUS
    <3> QED
      BY <1>1, <2>4, <3>1
  <2>9. Bytes(S) # Bytes(t) + Bytes(v)
    BY <2>2
  <2> HIDE DEF u, v
  <2> QED
    BY <2>5, <2>6, <2>7, <2>8, <2>9
<1>5. Bytes(P) \in Nat /\ Bytes(S \ P) \in Nat
  <2>1. S \ P \in SUBSET S
    OBVIOUS
  <2> QED
    BY <1>3, <2>1
<1> QED
  BY <1>4, <1>5

LEMMA MaxOfTwo ==
  ASSUME NEW a \in Int, NEW b \in Int
  PROVE  /\ Max({a, b}) = IF a >= b THEN a ELSE b
         /\ Min({a, b}) = IF a <= b THEN a ELSE b
<1>1. Max({a, b}) = IF a >= b THEN a ELSE b
  BY MaxIs
<1>2. \A x \in {a, b} : (\A y \in {a, b} : x <= y) <=> x = IF a <= b THEN a ELSE b
  OBVIOUS
<1>3. Min({a, b}) = IF a <= b THEN a ELSE b
  BY <1>2, Zenon DEF Min
<1> QED
  BY <1>1, <1>3

-----------------------------------------------------------------------------
(* The table. *)

Packets == [n : Int, size : 1 .. 2, ts : Nat, mark : BOOLEAN, timeTx : Nat,
            acked : BOOLEAN, afterEdge : BOOLEAN]

Logs == [acked : SUBSET Int, lost : SUBSET Int, edge : Int, live : SUBSET Int]

(* The states that feedback is processed in. *)
States == [tx : SUBSET Packets, bif : Nat, hi : 0 .. SeqNrs - 1,
           timeTxAck : Nat, tsHigh : Nat, log : Logs]

(* The packets the table holds and the log speaks of were registered, in    *)
(* the order of the stream; top is the last of them, t the time.            *)
Table(st, top, t) ==
  /\ IsFiniteSet(st.tx)
  /\ \A p, q \in st.tx : SlotOf(p.n) = SlotOf(q.n) => p = q
  /\ \A p, q \in st.tx : p.n < q.n => p.timeTx <= q.timeTx
  /\ \A p \in st.tx : p.n <= top /\ p.timeTx <= t /\ p.ts <= t
  /\ \A n \in st.log.acked \cup st.log.lost \cup st.log.live : n <= top
  /\ st.timeTxAck <= t /\ st.tsHigh <= t

(* The log says of the packets in the table which are acked, and a packet   *)
(* that it has as lost is not in the table.                                 *)
Logged(st) ==
  /\ \A p \in st.tx : p.n \notin st.log.lost /\ (p.acked <=> p.n \in st.log.acked)
  /\ st.log.acked \cap st.log.lost = {}

(* What detectLoss makes of the table, packet by packet. *)
Stripped(st, hi) ==
  {p \in st.tx : ((st.hi - AckWindow) - SeqNr(p.n)) % kMaxTxPackets
                   \in 1 .. Min({Reported, (hi - st.hi) % SeqNrs})}
Seen(st, hi) ==
  {p \in st.tx \ Stripped(st, hi) :
     (SeqNr(p.n) - (st.hi - AckWindow)) % kMaxTxPackets
       <= (hi - (st.hi - AckWindow)) % kMaxTxPackets}
Passed(st, hi) == {p \in Seen(st, hi) : ~p.afterEdge /\ NotAfter(SeqNr(p.n), hi)}
Late(st, hi) == {p \in Seen(st, hi) : IsLate(st, p)}
Left(st, hi) ==
  {p \in st.tx \ (Stripped(st, hi) \cup Late(st, hi)) : ~(p \in Seen(st, hi) /\ p.acked)}
Lost(st, hi) == Late(st, hi) \cup {p \in Stripped(st, hi) : ~p.acked}

Passing(p, passed) == IF p \in passed THEN [p EXCEPT !.afterEdge = TRUE] ELSE p

LEMMA DetectLossIs ==
  ASSUME NEW st \in States, NEW hi \in 0 .. SeqNrs - 1
  PROVE  LET d == DetectLoss(st, hi)
         IN  /\ d.tx = {Passing(p, Passed(st, hi)) : p \in Left(st, hi)}
             /\ d.bif = Max({0, st.bif - Bytes(Passed(st, hi))})
             /\ d.hi = hi /\ d.timeTxAck = st.timeTxAck /\ d.tsHigh = st.tsHigh
             /\ d.log.lost = st.log.lost \cup {p.n : p \in Lost(st, hi)}
             /\ d.log.acked = st.log.acked
             /\ d.log.edge = st.log.edge /\ d.log.live = st.log.live
             /\ d.tx \in SUBSET Packets /\ d.bif \in Nat => d \in States
<1> DEFINE tx == (Left(st, hi) \ Passed(st, hi))
                   \cup {[p EXCEPT !.afterEdge = TRUE] :
                           p \in Left(st, hi) \cap Passed(st, hi)}
           bif == Max({0, st.bif - Bytes(Passed(st, hi))})
           lost == st.log.lost \cup {p.n : p \in Lost(st, hi)}
           d == [st EXCEPT !.tx = tx, !.bif = bif, !.hi = hi, !.log.lost = lost]
<1>1. DetectLoss(st, hi) = d
  BY DEF DetectLoss, Stripped, Seen, Passed, Late, Left, Lost
<1>2. tx = {Passing(p, Passed(st, hi)) : p \in Left(st, hi)}
  BY DEF Passing
<1>3. lost \in SUBSET Int
  BY DEF Lost, Stripped, Late, Seen, States, Packets, Logs
<1> HIDE DEF tx, bif, lost
<1>4. /\ d.tx = tx /\ d.bif = bif /\ d.hi = hi
      /\ d.timeTxAck = st.timeTxAck /\ d.tsHigh = st.tsHigh
      /\ d.log.lost = lost /\ d.log.acked = st.log.acked
      /\ d.log.edge = st.log.edge /\ d.log.live = st.log.live
  BY DEF States, Logs
<1>5. ASSUME tx \in SUBSET Packets, bif \in Nat PROVE d \in States
  BY <1>3, <1>5 DEF States, Logs
<1> QED
  BY <1>1, <1>2, <1>4, <1>5, Zenon DEF bif, lost

LEMMA PassingIs ==
  ASSUME NEW p \in Packets, NEW S
  PROVE  LET q == Passing(p, S)
         IN  /\ q \in Packets /\ q.n = p.n /\ q.timeTx = p.timeTx /\ q.ts = p.ts
             /\ q.acked = p.acked /\ (p \in S => q.afterEdge) /\ (p \notin S => q = p)
BY DEF Passing, Packets

LEMMA DetectLossKeepsTable ==
  ASSUME NEW st \in States, NEW hi \in 0 .. SeqNrs - 1, NEW top \in Int, NEW t \in Nat,
         Table(st, top, t)
  PROVE  LET d == DetectLoss(st, hi)
         IN  d \in States /\ Table(d, top, t) /\ (Logged(st) => Logged(d))
<1> DEFINE d == DetectLoss(st, hi)
           P == Passed(st, hi)
           L == Left(st, hi)
<1>1. /\ d.tx = {Passing(p, P) : p \in L}
      /\ d.bif = Max({0, st.bif - Bytes(P)})
      /\ d.timeTxAck = st.timeTxAck /\ d.tsHigh = st.tsHigh
      /\ d.log.lost = st.log.lost \cup {p.n : p \in Lost(st, hi)}
      /\ d.log.acked = st.log.acked /\ d.log.live = st.log.live
      /\ d.tx \in SUBSET Packets /\ d.bif \in Nat => d \in States
  BY DetectLossIs
<1> HIDE DEF d
<1>2. L \subseteq st.tx /\ P \subseteq st.tx /\ Lost(st, hi) \subseteq st.tx
  BY DEF Left, Passed, Seen, Lost, Late, Stripped
<1>3. st.tx \subseteq Packets /\ st.bif \in Nat /\ IsFiniteSet(st.tx)
  BY DEF States, Table
<1>4. d.bif \in Nat
  <2>1. \A p \in st.tx : p.size \in Nat
    BY <1>3 DEF Packets
  <2>2. Bytes(P) \in Nat
    BY <1>2, <1>3, <2>1, BytesOfPart
  <2>3. st.bif - Bytes(P) \in Int
    BY <1>3, <2>2
  <2> QED
    BY <1>1, <2>3, MaxOfTwo
<1> HIDE DEF P, L
<1>5. ASSUME NEW q \in d.tx
      PROVE  \E p \in L : /\ q = Passing(p, P) /\ q \in Packets
                          /\ q.n = p.n /\ q.timeTx = p.timeTx /\ q.ts = p.ts
                          /\ q.acked = p.acked
  <2>1. PICK p \in L : q = Passing(p, P)
    BY <1>1
  <2>2. p \in Packets
    BY <1>2, <1>3
  <2> QED
    BY <2>1, <2>2, PassingIs
<1>6. d \in States
  BY <1>1, <1>4, <1>5
<1>7. IsFiniteSet(d.tx)
  <2> DEFINE f == [p \in L |-> Passing(p, P)]
  <2>1. f \in Surjection(L, d.tx)
    BY <1>1 DEF Surjection
  <2>2. IsFiniteSet(L)
    BY <1>2, <1>3, FS_Subset
  <2> QED
    BY <2>1, <2>2, FS_Surjection
<1>8. Table(d, top, t)
  <2>1. \A p, q \in st.tx : SlotOf(p.n) = SlotOf(q.n) => p = q
    BY DEF Table
  <2>2. \A p, q \in d.tx : SlotOf(p.n) = SlotOf(q.n) => p = q
    BY <1>2, <1>5, <2>1
  <2>3. \A p, q \in d.tx : p.n < q.n => p.timeTx <= q.timeTx
    BY <1>2, <1>5 DEF Table
  <2>4. \A p \in d.tx : p.n <= top /\ p.timeTx <= t /\ p.ts <= t
    BY <1>2, <1>5 DEF Table
  <2>5. \A n \in d.log.acked \cup d.log.lost \cup d.log.live : n <= top
    BY <1>1, <1>2 DEF Table
  <2>6. d.timeTxAck <= t /\ d.tsHigh <= t
    BY <1>1 DEF Table
  <2> QED
    BY <1>7, <2>2, <2>3, <2>4, <2>5, <2>6 DEF Table
<1>9. ASSUME Logged(st) PROVE Logged(d)
  <2>1. ASSUME NEW p \in L PROVE p.n \notin {q.n : q \in Lost(st, hi)}
    <3>1. p \notin Lost(st, hi)
      BY DEF L, Left, Lost, Late
    <3>2. \A q \in Lost(st, hi) : q.n = p.n => q = p
      BY <1>2 DEF Table
    <3> QED
      BY <3>1, <3>2
  <2>2. \A p \in Lost(st, hi) : ~p.acked
    BY DEF Lost, Late, IsLate
  <2>3. \A p \in d.tx : p.n \notin d.log.lost /\ (p.acked <=> p.n \in d.log.acked)
    BY <1>1, <1>2, <1>5, <1>9, <2>1 DEF Logged
  <2>4. d.log.acked \cap d.log.lost = {}
    BY <1>1, <1>2, <1>9, <2>2 DEF Logged
  <2> QED
    BY <2>3, <2>4 DEF Logged
<1> QED
  BY <1>6, <1>8, <1>9 DEF d

-----------------------------------------------------------------------------
(* What is counted in bytesInFlight. *)

Counted(tx) == {p \in tx : ~p.afterEdge}

LEMMA WindowMod ==
  ASSUME NEW n \in Int, NEW h \in Int
  PROVE  /\ (SeqNr(n) - (SeqNr(h) - AckWindow)) % kMaxTxPackets
              = ((n - h) + AckWindow) % kMaxTxPackets
         /\ ((SeqNr(h) - AckWindow) - SeqNr(n)) % kMaxTxPackets
              = (0 - ((n - h) + AckWindow)) % kMaxTxPackets
<1> DEFINE a == SeqNr(h)
           s == SeqNr(n)
           W == AckWindow
<1>1. W \in Int /\ a \in Int /\ s \in Int
  <2>1. \A k \in 0 .. SeqNrs - 1 : k \in Int
    BY SlotsAssumption
  <2> QED
    BY <2>1, WindowAssumption, NumberIs
<1> HIDE DEF a, s, W
<1>2. ASSUME NEW x \in Int
      PROVE  /\ (s - x) % kMaxTxPackets = (n - x) % kMaxTxPackets
             /\ (x - s) % kMaxTxPackets = (x - n) % kMaxTxPackets
             /\ (x - a) % kMaxTxPackets = (x - h) % kMaxTxPackets
             /\ (a - x) % kMaxTxPackets = (h - x) % kMaxTxPackets
  BY NumberMod, Zenon DEF a, s
<1>3. a - W \in Int /\ n + W \in Int
  BY <1>1
<1>4. /\ n - (a - W) = (n + W) - a /\ (a - W) - n = a - (n + W)
      /\ (n + W) - h = (n - h) + W /\ h - (n + W) = 0 - ((n - h) + W)
  BY <1>1
<1> QED
  BY <1>2, <1>3, <1>4 DEF a, s, W

(* While an element that reports r is processed: hiSeqAck is the number of  *)
(* a packet h that no counted one is before, and what is counted and acked, *)
(* or sent before the last packet acked, is not after r.                    *)
InFlight(st, h, r) ==
  /\ st.hi = SeqNr(h)
  /\ st.bif = Bytes(Counted(st.tx))
  /\ \A p \in Counted(st.tx) :
       /\ h <= p.n
       /\ p.acked => p.n <= r
       /\ p.n > r => st.timeTxAck <= p.timeTx

(* detectLoss takes the counted packets that r has reached out of            *)
(* bytesInFlight, and no other; no other leaves the table.                  *)
LEMMA DetectLossCounts ==
  ASSUME NEW st \in States, NEW top \in Int, NEW t \in Nat, Table(st, top, t),
         NEW h \in Int, NEW r \in Int, InFlight(st, h, r),
         top - h < Span, top - r <= Span, r - h <= Span
  PROVE  LET d == DetectLoss(st, SeqNr(r))
         IN  /\ Counted(d.tx) = {p \in Counted(st.tx) : p.n > r}
             /\ d.bif = Bytes(Counted(d.tx))
             /\ Passed(st, SeqNr(r)) = {p \in Counted(st.tx) : p.n <= r}
             /\ \A p \in Counted(st.tx) : /\ p \notin Stripped(st, SeqNr(r))
                                          /\ p.n > r => ~IsLate(st, p)
<1> DEFINE hi == SeqNr(r)
           d == DetectLoss(st, hi)
           P == Passed(st, hi)
           L == Left(st, hi)
           K == kMaxTxPackets
<1>1. /\ hi \in 0 .. SeqNrs - 1 /\ K \in Nat \ {0}
      /\ Span + Reported + AckWindow <= K /\ Span \in Nat
      /\ Reported \in Nat \ {0} /\ AckWindow \in Nat
  BY NumberIs, SlotsAssumption, WindowAssumption, NetworkAssumption, SpanAssumption
     DEF Span
<1>2. /\ d.tx = {Passing(p, P) : p \in L}
      /\ d.bif = Max({0, st.bif - Bytes(P)})
  BY <1>1, DetectLossIs
<1>3. st.tx \subseteq Packets /\ IsFiniteSet(st.tx) /\ st.hi = SeqNr(h)
      /\ st.timeTxAck \in Nat /\ st.tsHigh \in Nat
  BY DEF States, Table, InFlight
<1> HIDE DEF d, K
<1>4. ASSUME NEW p \in Counted(st.tx)
      PROVE  /\ p \in Packets /\ p \in st.tx /\ p.n \in Int
             /\ h <= p.n /\ p.n - h < Span
             /\ (p.acked => p.n <= r) /\ (p.n > r => st.timeTxAck <= p.timeTx)
  <2>1. p \in st.tx /\ p \in Packets
    BY <1>3 DEF Counted
  <2>2. p.n \in Int /\ p.n <= top
    BY <2>1 DEF Packets, Table
  <2> QED
    BY <1>1, <2>1, <2>2 DEF InFlight
<1>5. ASSUME NEW p \in Counted(st.tx) PROVE p \notin Stripped(st, hi)
  <2> DEFINE x == (p.n - h) + AckWindow
  <2>1. x \in 0 .. K - 1 /\ K - x > Reported
    BY <1>1, <1>4
  <2>2. ((st.hi - AckWindow) - SeqNr(p.n)) % K = (0 - x) % K
    BY <1>3, <1>4, WindowMod DEF K
  <2>3. ((0 - x) % K) \notin 1 .. Reported
    <3>1. x = 0 => ((0 - x) % K) = 0
      BY <1>1, <2>1, SmallResidue
    <3>2. x # 0 => ((0 - x) % K) = K - x
      BY <1>1, <2>1, SmallResidue
    <3> QED
      BY <1>1, <2>1, <3>1, <3>2
  <2>4. Min({Reported, (hi - st.hi) % SeqNrs}) <= Reported
        /\ Min({Reported, (hi - st.hi) % SeqNrs}) \in Int
    <3> DEFINE m == (hi - st.hi) % SeqNrs
    <3>1. m \in Int /\ Reported \in Int
      BY <1>1, SlotsAssumption DEF States
    <3> HIDE DEF m
    <3>2. Min({Reported, m}) = IF Reported <= m THEN Reported ELSE m
      BY <3>1, MaxOfTwo, Zenon
    <3>3. Min({Reported, m}) <= Reported /\ Min({Reported, m}) \in Int
      BY <1>1, <3>1, <3>2
    <3> QED
      BY <3>3 DEF m
  <2> QED
    BY <1>1, <2>2, <2>3, <2>4 DEF Stripped, K
<1>6. ASSUME NEW p \in Counted(st.tx), p.n <= r PROVE p \in P
  <2> DEFINE x == (p.n - h) + AckWindow
             y == (r - h) + AckWindow
  <2>1. x \in 0 .. K - 1 /\ y \in 0 .. K - 1 /\ x <= y
    BY <1>1, <1>4, <1>6
  <2>2. (SeqNr(p.n) - (st.hi - AckWindow)) % K = (x % K)
    BY <1>3, <1>4, WindowMod DEF K
  <2>3. (hi - (st.hi - AckWindow)) % K = (y % K)
    BY <1>3, WindowMod DEF K
  <2>4. (x % K) = x /\ (y % K) = y
    BY <1>1, <2>1, SmallResidue
  <2>5. p \in Seen(st, hi)
    BY <1>4, <1>5, <2>1, <2>2, <2>3, <2>4 DEF Seen, K
  <2>6. NotAfter(SeqNr(p.n), hi)
    <3>1. p.n - r <= Span /\ r - p.n <= Span
      BY <1>1, <1>4, <1>6
    <3> QED
      BY <1>4, <1>6, <3>1, NotAfterIs
  <2> QED
    BY <2>5, <2>6 DEF Passed, Counted
<1>7. ASSUME NEW p \in Counted(st.tx), p.n > r
      PROVE  p \notin P /\ p \in L /\ ~IsLate(st, p)
  <2>1. ~NotAfter(SeqNr(p.n), hi)
    <3>1. p.n - r <= Span /\ r - p.n <= Span
      <4>1. p.n <= top
        BY <1>4 DEF Table
      <4> QED
        BY <1>1, <1>4, <1>7, <4>1
    <3> QED
      BY <1>4, <1>7, <3>1, NotAfterIs
  <2>2. ~IsLate(st, p)
    <3>1. st.timeTxAck <= p.timeTx /\ p.timeTx \in Nat /\ p.ts \in Nat
      BY <1>4, <1>7 DEF Packets
    <3> QED
      BY <1>3, <3>1, WindowAssumption DEF IsLate
  <2>3. ~p.acked
    BY <1>4, <1>7
  <2> QED
    BY <1>4, <1>5, <2>1, <2>2, <2>3 DEF Passed, Left, Late
<1>8. P = {p \in Counted(st.tx) : p.n <= r}
  <2>1. P \subseteq Counted(st.tx)
    BY DEF Passed, Seen, Counted
  <2>2. \A p \in Counted(st.tx) : p.n <= r \/ p.n > r
    BY <1>4
  <2> QED
    BY <1>6, <1>7, <2>1, <2>2
<1>9. Counted(d.tx) = {p \in Counted(st.tx) : p.n > r}
  <2>1. L \subseteq st.tx
    BY DEF Left
  <2>2. ASSUME NEW q \in Counted(d.tx) PROVE q \in Counted(st.tx) /\ q.n > r
    <3>1. PICK p \in L : q = Passing(p, P)
      BY <1>2 DEF Counted
    <3>2. p \in Packets /\ p \in st.tx
      BY <1>3, <2>1
    <3>3. p \notin P /\ q = p
      BY <3>1, <3>2, PassingIs DEF Counted
    <3>4. q \in Counted(st.tx)
      BY <2>2, <3>2, <3>3 DEF Counted
    <3> QED
      BY <1>4, <1>6, <3>3, <3>4
  <2>3. ASSUME NEW p \in Counted(st.tx), p.n > r PROVE p \in Counted(d.tx)
    <3>1. p \in L /\ p \notin P /\ p \in Packets
      BY <1>4, <1>7, <2>3
    <3>2. Passing(p, P) = p
      BY <3>1 DEF Passing
    <3> QED
      BY <1>2, <3>1, <3>2 DEF Counted
  <2> QED
    BY <2>2, <2>3
<1>10. d.bif = Bytes(Counted(d.tx))
  <2> DEFINE C == Counted(st.tx)
  <2>1. IsFiniteSet(C) /\ \A p \in C : p.size \in Nat
    <3>1. C \subseteq st.tx
      BY DEF Counted
    <3> QED
      BY <1>3, <1>4, <3>1, FS_Subset DEF Packets
  <2>2. P \in SUBSET C /\ C \ P = Counted(d.tx)
    BY <1>4, <1>8, <1>9
  <2>3. Bytes(C) = Bytes(P) + Bytes(C \ P) /\ Bytes(P) \in Nat /\ Bytes(C \ P) \in Nat
    BY <2>1, <2>2, BytesOfPart
  <2>4. st.bif = Bytes(C)
    BY DEF InFlight
  <2> HIDE DEF P, C
  <2>5. st.bif - Bytes(P) = Bytes(C \ P) /\ st.bif - Bytes(P) \in Int /\ 0 \in Int
    BY <2>3, <2>4
  <2>6. Max({0, st.bif - Bytes(P)}) = Bytes(C \ P)
    BY <2>3, <2>5, MaxOfTwo
  <2> QED
    BY <1>2, <2>2, <2>6
<1> QED
  BY <1>5, <1>7, <1>8, <1>9, <1>10 DEF d

(* An ack of a packet changes what the table has of it, and no other. *)
LEMMA AckOfIs ==
  ASSUME NEW st \in States, NEW p \in st.tx
  PROVE  LET a == AckOf(st, p)
             q == [p EXCEPT !.acked = TRUE]
         IN  /\ a \in States
             /\ a.tx = (st.tx \ {p}) \cup {q}
             /\ a.bif = st.bif /\ a.hi = st.hi
             /\ a.timeTxAck = p.timeTx /\ a.tsHigh \in {st.tsHigh, p.ts}
             /\ a.log.acked = st.log.acked \cup {p.n} /\ a.log.lost = st.log.lost
             /\ a.log.edge = st.log.edge /\ a.log.live = st.log.live
             /\ q \in Packets /\ q.n = p.n /\ q.size = p.size /\ q.acked
             /\ q.timeTx = p.timeTx /\ q.ts = p.ts /\ q.afterEdge = p.afterEdge
<1> DEFINE q == [p EXCEPT !.acked = TRUE]
           advances == p.ts >= st.tsHigh /\ p.ts - st.tsHigh < TsJump
           tx == (st.tx \ {p}) \cup {q}
           ts == IF advances THEN p.ts ELSE st.tsHigh
           acked == st.log.acked \cup {p.n}
           a == [st EXCEPT !.tx = tx, !.tsHigh = ts, !.timeTxAck = p.timeTx,
                           !.log.acked = acked]
<1>1. AckOf(st, p) = a
  BY DEF AckOf
<1>2. /\ p \in Packets /\ p.n \in Int /\ p.timeTx \in Nat
      /\ st.tx \subseteq Packets
      /\ q \in Packets /\ q.n = p.n /\ q.size = p.size /\ q.acked
      /\ q.timeTx = p.timeTx /\ q.ts = p.ts /\ q.afterEdge = p.afterEdge
  BY DEF States, Packets
<1>3. ts \in {st.tsHigh, p.ts} /\ ts \in Nat
  BY DEF States, Packets
<1>4. tx \in SUBSET Packets /\ acked \in SUBSET Int
  BY <1>2 DEF States, Logs
<1> HIDE DEF ts, acked
<1>5. /\ a.tx = tx /\ a.bif = st.bif /\ a.hi = st.hi
      /\ a.timeTxAck = p.timeTx /\ a.tsHigh = ts
      /\ a.log.acked = acked /\ a.log.lost = st.log.lost
      /\ a.log.edge = st.log.edge /\ a.log.live = st.log.live
  <2> HIDE DEF tx
  <2> QED
    BY DEF States, Logs
<1>6. a \in States
  <2> HIDE DEF tx
  <2> QED
    BY <1>2, <1>3, <1>4 DEF States, Logs
<1> QED
  BY <1>1, <1>2, <1>3, <1>5, <1>6 DEF acked

LEMMA AckKeeps ==
  ASSUME NEW st \in States, NEW top \in Int, NEW t \in Nat, Table(st, top, t),
         NEW r \in Int, top - r < SeqNrs
  PROVE  LET a == MarkAcked(st, SeqNr(r))
         IN  /\ a \in States /\ Table(a, top, t)
             /\ Logged(st) => Logged(a)
             /\ \A h \in Int : InFlight(st, h, r) => InFlight(a, h, r)
             /\ \A n \in Int : (\E p \in Counted(st.tx) : p.n = n)
                                 => \E p \in Counted(a.tx) : p.n = n
             /\ a.log.edge = st.log.edge /\ a.log.live = st.log.live
<1> DEFINE new == NewlyAcked(st, SeqNr(r))
<1>1. CASE new = {}
  BY <1>1 DEF MarkAcked
<1>2. CASE new # {}
  <2> DEFINE p == CHOOSE x \in new : TRUE
             q == [p EXCEPT !.acked = TRUE]
             a == AckOf(st, p)
  <2>1. MarkAcked(st, SeqNr(r)) = a
    BY <1>2 DEF MarkAcked
  <2>2. p \in st.tx /\ SeqNr(p.n) = SeqNr(r) /\ ~p.acked
    <3>1. p \in new
      BY <1>2
    <3> HIDE DEF p
    <3> QED
      BY <3>1 DEF NewlyAcked
  <2> HIDE DEF p
  <2>3. /\ a \in States
        /\ a.tx = (st.tx \ {p}) \cup {q}
        /\ a.bif = st.bif /\ a.hi = st.hi
        /\ a.timeTxAck = p.timeTx /\ a.tsHigh \in {st.tsHigh, p.ts}
        /\ a.log.acked = st.log.acked \cup {p.n} /\ a.log.lost = st.log.lost
        /\ a.log.edge = st.log.edge /\ a.log.live = st.log.live
        /\ q \in Packets /\ q.n = p.n /\ q.size = p.size /\ q.acked
        /\ q.timeTx = p.timeTx /\ q.ts = p.ts /\ q.afterEdge = p.afterEdge
    BY <2>2, AckOfIs
  <2> HIDE DEF q, a
  <2>4. /\ st.tx \subseteq Packets /\ IsFiniteSet(st.tx) /\ p \in Packets
        /\ p.n \in Int /\ p.n <= top /\ p.timeTx <= t /\ p.ts <= t
    BY <2>2 DEF States, Table, Packets
  <2>5. p.n <= r
    <3> SUFFICES ASSUME r < p.n PROVE FALSE
      BY <2>4
    <3>1. p.n - r >= SeqNrs
      BY <2>2, <2>4, SameSlot
    <3>2. SeqNrs \in Nat
      BY SlotsAssumption
    <3> QED
      BY <2>4, <3>1, <3>2
  <2>6. \A x \in st.tx : x.n = p.n => x = p
    BY <2>2 DEF Table
  <2>7. Table(a, top, t)
    <3>1. IsFiniteSet(a.tx)
      <4>1. IsFiniteSet(st.tx \ {p})
        BY <2>4, FS_RemoveElement
      <4>2. IsFiniteSet((st.tx \ {p}) \cup {q})
        BY <4>1, FS_AddElement
      <4> QED
        BY <2>3, <4>2
    <3>2. \A x, y \in a.tx : SlotOf(x.n) = SlotOf(y.n) => x = y
      BY <2>2, <2>3 DEF Table
    <3>3. \A x, y \in a.tx : x.n < y.n => x.timeTx <= y.timeTx
      BY <2>2, <2>3, <2>4 DEF Table
    <3>4. \A x \in a.tx : x.n <= top /\ x.timeTx <= t /\ x.ts <= t
      BY <2>3, <2>4 DEF Table
    <3>5. \A n \in a.log.acked \cup a.log.lost \cup a.log.live : n <= top
      BY <2>3, <2>4 DEF Table
    <3>6. a.timeTxAck <= t /\ a.tsHigh <= t
      BY <2>3, <2>4 DEF Table
    <3> QED
      BY <3>1, <3>2, <3>3, <3>4, <3>5, <3>6 DEF Table
  <2>8. ASSUME Logged(st) PROVE Logged(a)
    BY <2>2, <2>3, <2>6, <2>8 DEF Logged
  <2>9. Counted(a.tx) = IF p \in Counted(st.tx) THEN (Counted(st.tx) \ {p}) \cup {q}
                                                ELSE Counted(st.tx)
    BY <2>2, <2>3 DEF Counted
  <2>10. Bytes(Counted(a.tx)) = Bytes(Counted(st.tx))
    <3> SUFFICES ASSUME p \in Counted(st.tx)
                 PROVE  Bytes(Counted(a.tx)) = Bytes(Counted(st.tx))
      BY <2>9
    <3> DEFINE C == Counted(st.tx)
               D == (C \ {p}) \cup {q}
    <3>1. IsFiniteSet(C) /\ Sized(C) /\ IsFiniteSet(D) /\ Sized(D)
      <4>1. C \subseteq st.tx
        BY DEF Counted
      <4>2. IsFiniteSet(C)
        BY <2>4, <4>1, FS_Subset
      <4>3. IsFiniteSet(D)
        BY <4>2, FS_RemoveElement, FS_AddElement
      <4> QED
        BY <2>3, <2>4, <4>1, <4>2, <4>3 DEF Sized, Packets
    <3>2. q \notin C
      BY <2>2, <2>3, <2>6 DEF Counted
    <3>3. p \in C /\ q \in D /\ D \ {q} = C \ {p}
      BY <3>2
    <3>4. Bytes(D) = Bytes(C)
      <4> HIDE DEF C, D
      <4>1. Bytes(D) = q.size + Bytes(D \ {q}) /\ Bytes(C) = p.size + Bytes(C \ {p})
        BY <3>1, <3>3, SumTakeOut
      <4> QED
        BY <2>3, <3>3, <4>1
    <3> QED
      BY <2>9, <3>4
  <2>11. ASSUME NEW h \in Int, InFlight(st, h, r) PROVE InFlight(a, h, r)
    <3>1. a.hi = SeqNr(h) /\ a.bif = Bytes(Counted(a.tx))
      BY <2>3, <2>10, <2>11 DEF InFlight
    <3>2. ASSUME NEW x \in Counted(a.tx)
          PROVE  h <= x.n /\ (x.acked => x.n <= r) /\ (x.n > r => a.timeTxAck <= x.timeTx)
      <4>1. CASE x = q /\ p \in Counted(st.tx)
        BY <2>3, <2>4, <2>5, <2>11, <4>1 DEF InFlight
      <4>2. CASE x \in Counted(st.tx)
        <5>1. h <= x.n /\ (x.acked => x.n <= r)
          BY <2>11, <4>2 DEF InFlight
        <5>2. x.n > r => p.timeTx <= x.timeTx
          <6>1. x \in st.tx /\ x.n \in Int
            BY <2>4, <4>2 DEF Counted, Packets
          <6>2. x.n > r => p.n < x.n
            BY <2>4, <2>5, <6>1
          <6> QED
            BY <2>2, <6>1, <6>2 DEF Table
        <5> QED
          BY <2>3, <5>1, <5>2
      <4> QED
        BY <2>9, <4>1, <4>2
    <3> QED
      BY <3>1, <3>2 DEF InFlight
  <2>12. ASSUME NEW n \in Int, NEW x \in Counted(st.tx), x.n = n
         PROVE  \E y \in Counted(a.tx) : y.n = n
    BY <2>3, <2>9, <2>12
  <2> QED
    BY <2>1, <2>3, <2>7, <2>8, <2>11, <2>12
<1> QED
  BY <1>1, <1>2

-----------------------------------------------------------------------------
(* A report, element by element. *)

(* The last packet that was registered, or will have been when the one that *)
(* is being sent is.                                                        *)
Registered == IF sending = <<>> THEN last.n ELSE last.n - 1

(* The state after the elements up to r of a report that ends at end. *)
Processed(st, end, r) ==
  /\ st \in States /\ Table(st, Registered, now) /\ Logged(st)
  /\ st.log.edge = history.edge /\ st.log.live = history.live
  /\ \E h \in Int : h > history.edge - MaxBack - Reported /\ InFlight(st, h, r)
  /\ \A n \in history.live : n > history.edge /\ n > end
       => \E p \in Counted(st.tx) : p.n = n

(* Between reports nothing is counted that a report has reached. *)
Settled(st, h) ==
  /\ st.hi = SeqNr(h)
  /\ st.bif = Bytes(Counted(st.tx))
  /\ \A p \in Counted(st.tx) : h <= p.n /\ ~p.acked /\ st.timeTxAck <= p.timeTx

(* How far from each other reports and packets are. *)
InReach(end) ==
  /\ Registered \in Int /\ now \in Nat /\ history.edge \in Int /\ end \in Int
  /\ history.live \subseteq Int
  /\ Registered <= history.edge + MaxAhead
  /\ end <= history.edge + MaxAhead /\ history.edge - end <= MaxBack

LEMMA SpanIs ==
  /\ Span \in Nat /\ Span < SeqNrs /\ Span = MaxAhead + MaxBack + Reported
  /\ MaxAhead \in Nat /\ MaxBack \in Nat /\ Reported \in Nat \ {0}
  /\ SeqNrs \in Nat \ {0}
BY SlotsAssumption, WindowAssumption, NetworkAssumption, SpanAssumption DEF Span

LEMMA LaterElement ==
  ASSUME NEW st \in States, NEW h \in Int, NEW r \in Int, NEW q \in Int, q <= r,
         InFlight(st, h, q)
  PROVE  InFlight(st, h, r)
<1>1. \A p \in Counted(st.tx) : p.n \in Int
  BY DEF Counted, States, Packets
<1> QED
  BY <1>1 DEF InFlight

LEMMA ElementKeeps ==
  ASSUME NEW end, InReach(end), NEW r \in Int, end - Reported < r, r <= end,
         NEW st, Processed(st, end, r - 1), NEW isLast \in BOOLEAN
  PROVE  LET e == Element(st, SeqNr(r), isLast)
         IN  Processed(e, end, r) /\ (isLast => Settled(e, r))
<1> DEFINE sn == SeqNr(r)
           a == MarkAcked(st, sn)
           d == DetectLoss(a, sn)
           top == Registered
<1>1. /\ st \in States /\ Table(st, top, now) /\ Logged(st)
      /\ top \in Int /\ now \in Nat /\ end \in Int /\ sn \in 0 .. SeqNrs - 1
      /\ history.edge \in Int /\ history.live \subseteq Int
  BY NumberIs DEF Processed, InReach
<1>2. PICK h \in Int : h > history.edge - MaxBack - Reported /\ InFlight(st, h, r - 1)
  BY DEF Processed
<1>3. InFlight(st, h, r)
  BY <1>1, <1>2, LaterElement
<1>4. /\ top - h < Span /\ top - r <= Span /\ r - h <= Span /\ top - r < SeqNrs
      /\ r > history.edge - MaxBack - Reported
  BY <1>1, <1>2, SpanIs DEF InReach
<1> HIDE DEF top
<1>5. /\ a \in States /\ Table(a, top, now) /\ Logged(a) /\ InFlight(a, h, r)
      /\ \A n \in Int : (\E p \in Counted(st.tx) : p.n = n)
                          => \E p \in Counted(a.tx) : p.n = n
      /\ a.log.edge = history.edge /\ a.log.live = history.live
  BY <1>1, <1>3, <1>4, AckKeeps DEF Processed
<1> HIDE DEF a, sn
<1>6. \A n \in history.live : n > history.edge /\ n > end
        => \E p \in Counted(a.tx) : p.n = n
  BY <1>1, <1>5 DEF Processed
<1>7. Processed(a, end, r)
  BY <1>2, <1>5, <1>6 DEF Processed, top
<1>8. Processed(d, end, r) /\ Settled(d, r)
  <2>1. /\ d \in States /\ Table(d, top, now) /\ Logged(d)
        /\ d.hi = sn /\ d.timeTxAck = a.timeTxAck
        /\ d.log.edge = history.edge /\ d.log.live = history.live
    BY <1>1, <1>5, DetectLossKeepsTable, DetectLossIs
  <2>2. /\ Counted(d.tx) = {p \in Counted(a.tx) : p.n > r}
        /\ d.bif = Bytes(Counted(d.tx))
    BY <1>1, <1>4, <1>5, DetectLossCounts DEF sn
  <2> HIDE DEF d
  <2>3. ASSUME NEW p \in Counted(d.tx)
        PROVE  p.n \in Int /\ p.n > r /\ ~p.acked /\ d.timeTxAck <= p.timeTx
    <3>1. p \in Counted(a.tx) /\ p.n > r /\ p.n \in Int
      BY <1>5, <2>2 DEF Counted, States, Packets
    <3> QED
      BY <1>5, <2>1, <3>1 DEF InFlight
  <2>4. Settled(d, r)
    BY <2>1, <2>2, <2>3 DEF Settled, sn
  <2>5. InFlight(d, r, r)
    BY <2>1, <2>2, <2>3 DEF InFlight, sn
  <2>6. \A n \in history.live : n > history.edge /\ n > end
          => \E p \in Counted(d.tx) : p.n = n
    <3> SUFFICES ASSUME NEW n \in history.live, n > history.edge, n > end
                 PROVE  \E p \in Counted(d.tx) : p.n = n
      OBVIOUS
    <3>1. PICK p \in Counted(a.tx) : p.n = n
      BY <1>6
    <3>2. p.n > r
      BY <1>1, <3>1
    <3> QED
      BY <2>2, <3>1, <3>2
  <2> QED
    BY <1>4, <2>1, <2>4, <2>5, <2>6 DEF Processed, top
<1>9. Element(st, sn, isLast) \in {a, d} /\ (isLast => Element(st, sn, isLast) = d)
  BY DEF Element, a
<1> QED
  BY <1>7, <1>8, <1>9 DEF sn

(* The i-th element is about the i-th packet of the report. *)
LEMMA ElementNumber ==
  ASSUME NEW end \in Int, NEW i \in Int
  PROVE  (SeqNr(end) - Reported + i) % SeqNrs = SeqNr((end - Reported) + i)
<1> DEFINE s == SeqNr(end)
           x == (end - Reported) + i
           y == (s - Reported) + i
<1>1. SeqNrs \in Nat \ {0} /\ Reported \in Int /\ \A k \in 0 .. SeqNrs - 1 : k \in Int
  BY SlotsAssumption, WindowAssumption
<1>2. s \in Int /\ \E c \in Int : end - s = SeqNrs * c
  BY <1>1, NumberIs
<1> HIDE DEF s
<1>3. x \in Int /\ y \in Int /\ x - y = end - s
  BY <1>1, <1>2
<1>4. \E c \in Int : x - y = SeqNrs * c
  BY <1>2, <1>3
<1> HIDE DEF x, y
<1>5. (x % SeqNrs) = (y % SeqNrs)
  BY <1>1, <1>3, <1>4, Congruent
<1> QED
  BY <1>5 DEF s, x, y, SeqNr

(* What AfterReport makes of an element, and of the first k. *)
Step(st, end, acks, i) ==
  LET sn == (end - Reported + i) % SeqNrs
  IN  IF sn \in acks THEN Element(st, sn, i = Reported) ELSE st

Steps(f, k, end, acks) ==
  f = [i \in 0 .. k |-> IF i = 0 THEN TxState ELSE Step(f[i - 1], end, acks, i)]

(* For no k is it undefined: there is no least one. *)
LEMMA StepsExist ==
  ASSUME NEW end, NEW acks, NEW k \in Nat
  PROVE  \E f : Steps(f, k, end, acks)
<1> DEFINE bad == {j \in Nat : ~ \E f : Steps(f, j, end, acks)}
<1>1. SUFFICES ASSUME bad # {} PROVE FALSE
  OBVIOUS
<1>2. PICK j \in bad : \A m \in bad : j <= m
  BY <1>1, LeastNatural
<1>3. CASE j = 0
  <2>1. Steps([i \in 0 .. 0 |-> TxState], 0, end, acks)
    BY DEF Steps
  <2> QED
    BY <1>3, <2>1
<1>4. CASE j # 0
  <2>1. j \in Nat /\ j - 1 \in Nat /\ ~ (j <= j - 1)
    BY <1>4
  <2>2. j - 1 \notin bad
    BY <1>2, <2>1
  <2>3. PICK f : Steps(f, j - 1, end, acks)
    BY <2>1, <2>2
  <2> DEFINE g == [i \in 0 .. j |-> IF i = j THEN Step(f[j - 1], end, acks, j) ELSE f[i]]
  <2>4. ASSUME NEW i \in 0 .. j
        PROVE  g[i] = IF i = 0 THEN TxState ELSE Step(g[i - 1], end, acks, i)
    <3>1. CASE i = j
      BY <1>4, <2>1, <3>1
    <3>2. CASE i # j
      <4>1. i \in 0 .. j - 1 /\ (i # 0 => i - 1 \in 0 .. j /\ i - 1 # j)
        BY <2>1, <3>2
      <4>2. f[i] = IF i = 0 THEN TxState ELSE Step(f[i - 1], end, acks, i)
        BY <2>3, <4>1, Zenon DEF Steps
      <4> QED
        BY <3>2, <4>1, <4>2
    <3> QED
      BY <3>1, <3>2
  <2>5. g = [i \in 0 .. j |-> g[i]]
    OBVIOUS
  <2> HIDE DEF g
  <2>6. Steps(g, j, end, acks)
    BY <2>4, <2>5, Zenon DEF Steps
  <2> QED
    BY <2>6
<1> QED
  BY <1>3, <1>4

(* What holds of 0, and of a number if of the one before it. *)
LEMMA UpTo ==
  ASSUME NEW k \in Nat, NEW S, 0 \in S, \A i \in 1 .. k : i - 1 \in S => i \in S
  PROVE  \A i \in 0 .. k : i \in S
<1> DEFINE bad == {i \in 0 .. k : i \notin S}
<1> SUFFICES ASSUME bad # {} PROVE FALSE
  OBVIOUS
<1>1. PICK i \in bad : \A m \in bad : i <= m
  <2>1. bad \in SUBSET Nat
    OBVIOUS
  <2> HIDE DEF bad
  <2> QED
    BY <2>1, LeastNatural
<1>2. i \in 1 .. k /\ i - 1 \in 0 .. k /\ ~ (i <= i - 1)
  BY <1>1
<1> QED
  BY <1>1, <1>2

(* f is what the elements of a report make of the state, one by one. *)
Run(f, e, acks) ==
  f[0] = TxState /\ \A i \in 1 .. Reported : f[i] = Step(f[i - 1], e, acks, i)

LEMMA AfterReportIs ==
  ASSUME NEW e, NEW acks
  PROVE  \E f : /\ Run(f, e, acks)
                /\ AfterReport(e, acks) = IF Ignored(e) THEN TxState ELSE f[Reported]
<1> DEFINE Body(f) == [i \in 0 .. Reported |->
                         IF i = 0 THEN TxState ELSE Step(f[i - 1], e, acks, i)]
           after == CHOOSE f : f = Body(f)
<1>1. Reported \in Nat \ {0} /\ Reported \in 0 .. Reported
  BY WindowAssumption
<1>2. after = Body(after)
  <2>1. PICK f : Steps(f, Reported, e, acks)
    BY <1>1, StepsExist
  <2>2. f = Body(f)
    BY <2>1 DEF Steps
  <2> QED
    BY <2>2
<1>3. AfterReport(e, acks) = IF Ignored(e) THEN TxState ELSE after[Reported]
  BY <1>1 DEF AfterReport, Step
<1> HIDE DEF after
<1>4. ASSUME NEW i \in 1 .. Reported
      PROVE  after[i] = Step(after[i - 1], e, acks, i)
  BY <1>1, <1>2
<1>5. after[0] = TxState
  BY <1>1, <1>2
<1>6. \A i \in 1 .. Reported : after[i] = Step(after[i - 1], e, acks, i)
  BY <1>4
<1> QED
  BY <1>3, <1>5, <1>6 DEF Run

LEMMA RunKeeps ==
  ASSUME NEW end, InReach(end), NEW acks, SeqNr(end) \in acks,
         Processed(TxState, end, end - Reported),
         NEW after, Run(after, SeqNr(end), acks)
  PROVE  /\ \A i \in 0 .. Reported : Processed(after[i], end, (end - Reported) + i)
         /\ Settled(after[Reported], end)
<1> DEFINE e == SeqNr(end)
<1>1. end \in Int /\ Reported \in Nat \ {0} /\ Reported \in 0 .. Reported
  BY WindowAssumption DEF InReach
<1>2. /\ after[0] = TxState
      /\ \A i \in 1 .. Reported : after[i] = Step(after[i - 1], e, acks, i)
  BY DEF Run
<1>3. ASSUME NEW i \in 1 .. Reported, Processed(after[i - 1], end, (end - Reported) + (i - 1))
      PROVE  /\ Processed(after[i], end, (end - Reported) + i)
             /\ i = Reported => Settled(after[i], end)
  <2> DEFINE r == (end - Reported) + i
             sn == (e - Reported + i) % SeqNrs
  <2>1. after[i] = Step(after[i - 1], e, acks, i)
    BY <1>2
  <2>2. r \in Int /\ end - Reported < r /\ r <= end /\ r - 1 = (end - Reported) + (i - 1)
        /\ (i = Reported => r = end)
    BY <1>1
  <2>3. sn = SeqNr(r)
    <3>1. i \in Int
      OBVIOUS
    <3> QED
      BY <1>1, <3>1, ElementNumber
  <2> HIDE DEF r, sn, e
  <2>4. CASE sn \in acks
    <3>1. after[i] = Element(after[i - 1], SeqNr(r), i = Reported)
      BY <2>1, <2>3, <2>4 DEF Step, sn
    <3>2. (i = Reported) \in BOOLEAN /\ Processed(after[i - 1], end, r - 1)
      BY <1>3, <2>2
    <3>3. ASSUME NEW st, Processed(st, end, r - 1), NEW isLast \in BOOLEAN
          PROVE  /\ Processed(Element(st, SeqNr(r), isLast), end, r)
                 /\ isLast => Settled(Element(st, SeqNr(r), isLast), r)
      BY <2>2, <3>3, ElementKeeps
    <3>4. /\ Processed(after[i], end, r)
          /\ (i = Reported) => Settled(after[i], r)
      BY <3>1, <3>2, <3>3, Zenon
    <3> QED
      BY <2>2, <3>4 DEF r
  <2>5. CASE sn \notin acks
    <3>1. after[i] = after[i - 1]
      BY <2>1, <2>5 DEF Step, sn
    <3>2. i # Reported
      <4> SUFFICES ASSUME i = Reported PROVE FALSE
        OBVIOUS
      <4>1. sn = SeqNr(end)
        BY <2>2, <2>3
      <4> QED
        BY <2>5, <4>1
    <3>3. Processed(after[i - 1], end, r)
      <4>1. Processed(after[i - 1], end, r - 1)
        BY <1>3, <2>2
      <4>2. ASSUME NEW h \in Int, InFlight(after[i - 1], h, r - 1)
            PROVE  InFlight(after[i - 1], h, r)
        <5>1. after[i - 1] \in States
          BY <4>1 DEF Processed
        <5>2. r - 1 \in Int /\ r - 1 <= r
          BY <2>2
        <5> QED
          BY <2>2, <4>2, <5>1, <5>2, LaterElement
      <4> QED
        BY <4>1, <4>2 DEF Processed
    <3> QED
      BY <3>1, <3>2, <3>3 DEF r
  <2> QED
    BY <2>4, <2>5
<1>4. \A i \in 0 .. Reported : Processed(after[i], end, (end - Reported) + i)
  <2> DEFINE S == {i \in 0 .. Reported : Processed(after[i], end, (end - Reported) + i)}
  <2>1. 0 \in S
    <3>1. after[0] = TxState /\ (end - Reported) + 0 = end - Reported
      BY <1>1, <1>2
    <3> QED
      BY <1>1, <3>1
  <2>2. \A i \in 1 .. Reported : i - 1 \in S => i \in S
    BY <1>1, <1>3
  <2> HIDE DEF S
  <2>3. \A i \in 0 .. Reported : i \in S
    BY <1>1, <2>1, <2>2, UpTo
  <2> QED
    BY <2>3 DEF S
<1>5. Settled(after[Reported], end)
  <2>1. Reported \in 1 .. Reported /\ Reported - 1 \in 0 .. Reported
    BY <1>1
  <2>2. Processed(after[Reported - 1], end, (end - Reported) + (Reported - 1))
    BY <1>4, <2>1
  <2> QED
    BY <1>3, <2>1, <2>2
<1> QED
  BY <1>4, <1>5

LEMMA ReportKeeps ==
  ASSUME NEW end, InReach(end), NEW acks, SeqNr(end) \in acks, ~Ignored(SeqNr(end)),
         Processed(TxState, end, end - Reported)
  PROVE  LET st == AfterReport(SeqNr(end), acks)
         IN  Processed(st, end, end) /\ Settled(st, end)
<1>1. PICK after : /\ Run(after, SeqNr(end), acks)
                   /\ AfterReport(SeqNr(end), acks) = after[Reported]
  BY AfterReportIs, Zenon
<1>2. /\ \A i \in 0 .. Reported : Processed(after[i], end, (end - Reported) + i)
      /\ Settled(after[Reported], end)
  BY <1>1, RunKeeps
<1>3. Reported \in 0 .. Reported /\ (end - Reported) + Reported = end
  BY WindowAssumption DEF InReach
<1>4. Processed(after[Reported], end, (end - Reported) + Reported)
  BY <1>2, <1>3
<1> QED
  BY <1>1, <1>2, <1>3, <1>4

-----------------------------------------------------------------------------
(* The inductive invariant. *)

(* What pump() sends and the network carries. *)
Outgoing ==
  /\ now \in Nat /\ lastTransmitT \in 0 .. now
  /\ last \in [n : Int, ts : 0 .. now, mark : BOOLEAN]
  /\ \/ sending = <<>>
     \/ \E p \in [n : Int, ts : Nat, mark : BOOLEAN, size : 1 .. 2] :
          sending = <<p>> /\ p.n = last.n /\ p.ts <= now
  /\ sent \subseteq Int /\ \A n \in sent : n <= last.n
  /\ arrivals \in Seq(sent)

(* The table, and what the log says of it. *)
TableInv ==
  TxState \in States /\ Table(TxState, Registered, now) /\ Logged(TxState)

(* detectLoss was last called for a packet that is near the last one        *)
(* reported, and what is counted is not before it.                          *)
EdgeInv ==
  /\ history.edge <= last.n /\ last.n <= history.edge + MaxAhead
  /\ \E h \in Int : /\ history.edge - MaxBack <= h /\ h <= history.edge + 1
                    /\ sending # <<>> => h <= last.n
                    /\ Settled(TxState, h)

LiveInv ==
  \A n \in history.live :
    n > history.edge => \E p \in Counted(txPackets) : p.n = n

FlightInv == Outgoing /\ TableInv /\ EdgeInv /\ LiveInv

LEMMA HigherTop ==
  ASSUME NEW st \in States, NEW top \in Int, NEW up \in Int, top <= up,
         NEW t \in Nat, NEW later \in Nat, t <= later, Table(st, top, t)
  PROVE  Table(st, up, later)
<1>1. \A p \in st.tx : p.n \in Int /\ p.timeTx \in Nat /\ p.ts \in Nat
  BY DEF States, Packets
<1>2. \A n \in st.log.acked \cup st.log.lost \cup st.log.live : n \in Int
  BY DEF States, Logs
<1>3. st.timeTxAck \in Nat /\ st.tsHigh \in Nat
  BY DEF States
<1> QED
  BY <1>1, <1>2, <1>3 DEF Table

LEMMA InitHolds ==
  ASSUME Init
  PROVE  FlightInv
<1>1. PICK start \in Starts :
        /\ txPackets = {} /\ bytesInFlight = 0
        /\ hiSeqAck = IF start = 0 THEN 0 ELSE SeqNr(start - 1)
        /\ timeTxAck = IF start = 0 THEN 0 ELSE 1
        /\ timeStampAckHigh = 0 /\ lastTransmitT = 1 /\ now = 1 /\ sending = <<>>
        /\ last = [n |-> start - 1, ts |-> 0, mark |-> TRUE]
        /\ sent = {} /\ arrivals = <<>>
        /\ history = [acked |-> {}, lost |-> {}, edge |-> start - 1, live |-> {}]
  BY DEF Init
<1>2. start \in Nat /\ MaxAhead \in Nat /\ MaxBack \in Nat /\ SeqNrs \in Nat \ {0}
  BY SlotsAssumption, NetworkAssumption
<1>3. Outgoing
  BY <1>1, <1>2 DEF Outgoing
<1> DEFINE h == IF start = 0 THEN 0 ELSE start - 1
<1>4. h \in Int /\ hiSeqAck = SeqNr(h) /\ hiSeqAck \in 0 .. SeqNrs - 1
  <2>1. SeqNr(0) = 0
    BY <1>2 DEF SeqNr
  <2>2. h \in Int /\ hiSeqAck = SeqNr(h)
    BY <1>1, <1>2, <2>1
  <2> QED
    BY <2>2, NumberIs
<1>5. TxState \in States
  BY <1>1, <1>2, <1>4 DEF TxState, States, Logs
<1>6. Table(TxState, Registered, now) /\ Logged(TxState)
  <2>1. IsFiniteSet(TxState.tx)
    BY <1>1, FS_EmptySet DEF TxState
  <2> QED
    BY <1>1, <1>2, <2>1 DEF Table, Logged, TxState, Registered
<1>7. Settled(TxState, h)
  <2>1. Bytes({}) = 0
    BY FS_EmptySet, SumChosen
  <2>2. Counted({}) = {}
    BY DEF Counted
  <2> QED
    BY <1>1, <1>4, <2>1, <2>2 DEF Settled, TxState
<1>8. EdgeInv
  BY <1>1, <1>2, <1>4, <1>7 DEF EdgeInv
<1> QED
  BY <1>1, <1>3, <1>5, <1>6, <1>8 DEF FlightInv, TableInv, LiveInv

(* What pump() takes from the queue. *)
LEMMA QueuedIs ==
  ASSUME Outgoing, TableInv, NEW p \in NextPackets, Queued(p)
  PROVE  /\ p \in [n : Int, ts : Nat, mark : BOOLEAN, size : 1 .. 2]
         /\ p.n >= last.n + 1 /\ p.ts <= now /\ last.n \in Int
         /\ p.n <= history.edge + MaxAhead /\ history.edge \in Int
         /\ MaxAhead \in Nat /\ MaxBack \in Nat
<1>1. last.n \in Int /\ last.ts \in 0 .. now /\ now \in Nat
  BY DEF Outgoing
<1>2. history.edge \in Int
  BY DEF TableInv, TxState, States, Logs
<1>3. SizeOf(TRUE) \in 1 .. 2 /\ SizeOf(FALSE) \in 1 .. 2
  BY DEF SizeOf
<1>4. /\ p.n \in last.n + 1 .. last.n + 1 + MaxGap /\ p.ts \in {now, last.ts}
      /\ p.mark \in BOOLEAN /\ p.size \in 1 .. 2
      /\ p = [n |-> p.n, ts |-> p.ts, mark |-> p.mark, size |-> p.size]
  BY <1>3 DEF NextPackets
<1>5. p.n \in Int /\ p.n >= last.n + 1 /\ p.ts \in Nat /\ p.ts <= now
  BY <1>1, <1>4, NetworkAssumption
<1>6. p.n <= history.edge + MaxAhead
  BY <1>2, <1>5, NetworkAssumption DEF Queued
<1> QED
  BY <1>1, <1>2, <1>4, <1>5, <1>6, NetworkAssumption

LEMMA TransmitKeepsTable ==
  ASSUME Outgoing, TableInv, NEW p \in NextPackets, NEW timeout \in BOOLEAN,
         Queued(p), Send(p, timeout)
  PROVE  Outgoing' /\ TableInv'
<1>1. /\ p \in [n : Int, ts : Nat, mark : BOOLEAN, size : 1 .. 2]
      /\ p.n >= last.n + 1 /\ p.ts <= now /\ last.n \in Int
      /\ p.n <= history.edge + MaxAhead /\ history.edge \in Int
      /\ MaxAhead \in Nat /\ MaxBack \in Nat
  BY QueuedIs
<1>2. /\ sending = <<>> /\ sending' = <<p>>
      /\ last' = [n |-> p.n, ts |-> p.ts, mark |-> p.mark] /\ sent' = sent \cup {p.n}
      /\ UNCHANGED <<hiSeqAck, timeTxAck, timeStampAckHigh, lastTransmitT, now, arrivals>>
  BY DEF Send, Queued
<1>3. Outgoing'
  <2>1. sent \subseteq Int /\ (\A n \in sent : n <= last.n) /\ arrivals \in Seq(sent)
        /\ now \in Nat /\ lastTransmitT \in 0 .. now
    BY DEF Outgoing
  <2>2. sent' \subseteq Int /\ \A n \in sent' : n <= last'.n
    <3>1. p.n \in Int /\ last'.n = p.n /\ sent' = sent \cup {p.n}
      BY <1>1, <1>2
    <3>2. sent \subseteq Int /\ \A n \in sent : n <= p.n
      <4>1. \A n \in sent : n \in Int /\ n <= last.n
        BY <2>1
      <4> QED
        BY <1>1, <2>1, <4>1
    <3>3. sent' \subseteq Int /\ \A n \in sent' : n <= p.n
      <4>1. p.n <= p.n
        BY <3>1
      <4> QED
        BY <3>1, <3>2, <4>1, Zenon
    <3> QED
      BY <3>1, <3>3, Zenon
  <2>3. arrivals' \in Seq(sent')
    BY <1>2, <2>1
  <2>4. last' \in [n : Int, ts : 0 .. now, mark : BOOLEAN] /\ p.n = last'.n
    BY <1>1, <1>2, <2>1
  <2> QED
    BY <1>1, <1>2, <2>1, <2>2, <2>3, <2>4 DEF Outgoing
<1>4. Registered = last.n /\ Registered' = p.n - 1
  BY <1>2 DEF Registered
<1>5. CASE timeout = FALSE
  <2>1. TxState' = TxState
    BY <1>2, <1>5 DEF Send, TxState
  <2>2. TxState \in States /\ Table(TxState, Registered, now) /\ Logged(TxState)
    BY DEF TableInv
  <2>3. Table(TxState, p.n - 1, now)
    <3>1. /\ TxState \in States /\ p.n - 1 \in Int /\ Registered \in Int
          /\ Registered <= p.n - 1 /\ now \in Nat /\ now <= now
      BY <1>1, <1>4, <2>2 DEF Outgoing
    <3> QED
      BY <2>2, <3>1, HigherTop
  <2> QED
    BY <1>2, <1>3, <1>4, <2>1, <2>2, <2>3 DEF TableInv
<1>6. CASE timeout = TRUE
  <2>1. txPackets' = {} /\ bytesInFlight' = 0 /\ history' = [history EXCEPT !.live = {}]
    BY <1>6 DEF Send
  <2>2. /\ TxState \in States /\ Table(TxState, Registered, now) /\ Logged(TxState)
        /\ history \in Logs
    BY DEF TableInv, TxState, States
  <2>3. /\ TxState'.tx = {} /\ TxState'.bif = 0 /\ TxState'.hi = TxState.hi
        /\ TxState'.timeTxAck = TxState.timeTxAck /\ TxState'.tsHigh = TxState.tsHigh
        /\ TxState'.log.acked = TxState.log.acked /\ TxState'.log.lost = TxState.log.lost
        /\ TxState'.log.live = {} /\ TxState'.log.edge = history.edge
        /\ history'.edge = history.edge /\ history'.live = {}
    BY <1>2, <2>1, <2>2 DEF TxState, Logs
  <2>4. TxState' \in States
    <3>1. history' \in Logs
      BY <2>1, <2>2 DEF Logs
    <3>2. hiSeqAck \in 0 .. SeqNrs - 1 /\ timeTxAck \in Nat /\ timeStampAckHigh \in Nat
      BY <2>2 DEF TxState, States
    <3> QED
      BY <1>2, <2>1, <3>1, <3>2 DEF TxState, States
  <2>5. TableInv'
    <3>1. IsFiniteSet(TxState'.tx)
      BY <2>3, FS_EmptySet
    <3>2. \A n \in TxState'.log.acked \cup TxState'.log.lost : n <= p.n - 1
      <4>1. \A n \in TxState.log.acked \cup TxState.log.lost : n \in Int /\ n <= last.n
        BY <1>4, <2>2 DEF Table, States, Logs
      <4> QED
        BY <1>1, <2>3, <4>1
    <3>3. TxState'.timeTxAck <= now' /\ TxState'.tsHigh <= now'
      BY <1>2, <2>2, <2>3 DEF Table
    <3>4. TxState'.log.acked \cap TxState'.log.lost = {}
      BY <2>2, <2>3 DEF Logged
    <3>5. Table(TxState', Registered', now')
      BY <1>4, <2>3, <3>1, <3>2, <3>3 DEF Table
    <3>6. Logged(TxState')
      BY <2>3, <3>4 DEF Logged
    <3> QED
      BY <2>4, <3>5, <3>6 DEF TableInv
  <2> QED
    BY <1>3, <2>5
<1> QED
  BY <1>5, <1>6

LEMMA TransmitKeeps ==
  ASSUME FlightInv, NEW p \in NextPackets, Transmit(p) \/ TransmitAfterTimeout(p)
  PROVE  FlightInv'
<1>1. PICK timeout \in BOOLEAN : Queued(p) /\ Send(p, timeout)
  BY DEF Transmit, TransmitAfterTimeout
<1>2. /\ p.n \in Int /\ p.n >= last.n + 1 /\ last.n \in Int
      /\ p.n <= history.edge + MaxAhead /\ history.edge \in Int
      /\ MaxAhead \in Nat /\ MaxBack \in Nat
  BY <1>1, QueuedIs DEF FlightInv
<1>3. /\ sending = <<>> /\ sending' = <<p>>
      /\ last' = [n |-> p.n, ts |-> p.ts, mark |-> p.mark] /\ sent' = sent \cup {p.n}
      /\ UNCHANGED <<hiSeqAck, timeTxAck, timeStampAckHigh, lastTransmitT, now, arrivals>>
  BY <1>1 DEF Send, Queued
<1>4. Outgoing' /\ TableInv'
  BY <1>1, TransmitKeepsTable DEF FlightInv
<1>5. PICK h \in Int : /\ history.edge - MaxBack <= h /\ h <= history.edge + 1
                       /\ Settled(TxState, h)
  BY DEF FlightInv, EdgeInv
<1>6. last.n \in Int /\ history.edge <= last.n /\ h <= p.n
  BY <1>2, <1>5 DEF FlightInv, EdgeInv
<1>7. CASE timeout = FALSE
  <2>1. TxState' = TxState /\ UNCHANGED <<txPackets, history>>
    BY <1>1, <1>3, <1>7 DEF Send, TxState
  <2>2. EdgeInv'
    BY <1>2, <1>3, <1>5, <1>6, <2>1 DEF EdgeInv
  <2>3. LiveInv'
    BY <2>1 DEF FlightInv, LiveInv
  <2> QED
    BY <1>4, <2>2, <2>3 DEF FlightInv
<1>8. CASE timeout = TRUE
  <2>1. txPackets' = {} /\ bytesInFlight' = 0 /\ history' = [history EXCEPT !.live = {}]
    BY <1>1, <1>8 DEF Send
  <2>2. history \in Logs
    BY DEF FlightInv, TableInv, TxState, States
  <2>3. /\ TxState'.tx = {} /\ TxState'.bif = 0 /\ TxState'.hi = TxState.hi
        /\ history'.edge = history.edge /\ history'.live = {}
    BY <1>3, <2>1, <2>2 DEF TxState, Logs
  <2>4. Settled(TxState', h)
    <3>1. Counted({}) = {} /\ Bytes({}) = 0
      BY FS_EmptySet, SumChosen DEF Counted
    <3> QED
      BY <1>5, <2>3, <3>1 DEF Settled
  <2>5. EdgeInv'
    BY <1>2, <1>3, <1>5, <1>6, <2>3, <2>4 DEF EdgeInv
  <2>6. LiveInv'
    BY <2>3 DEF LiveInv
  <2> QED
    BY <1>4, <2>5, <2>6 DEF FlightInv
<1> QED
  BY <1>7, <1>8

(* What addTransmitted makes of the table. *)
Added(p, q, kept) ==
  /\ kept = {x \in txPackets : SlotOf(x.n) # SlotOf(p.n)}
  /\ p.n \in Int /\ p.n = last.n /\ Registered = p.n - 1 /\ Registered' = p.n
  /\ p.ts <= now /\ sending = <<p>> /\ sending' = <<>>
  /\ q \in Packets /\ q.n = p.n /\ q.size = p.size /\ q.ts = p.ts /\ q.timeTx = now
  /\ ~q.acked /\ ~q.afterEdge
  /\ txPackets' = kept \cup {q} /\ bytesInFlight' = bytesInFlight + p.size
  /\ p.size \in 1 .. 2 /\ lastTransmitT' = now
  /\ history' = [history EXCEPT !.live = @ \cup {p.n}]
  /\ UNCHANGED <<hiSeqAck, timeTxAck, timeStampAckHigh, now, last, sent, arrivals>>

(* The table, the counters and the log, spelled out. *)
Tables ==
  /\ txPackets \in SUBSET Packets /\ bytesInFlight \in Nat
  /\ hiSeqAck \in 0 .. SeqNrs - 1 /\ timeTxAck \in Nat /\ timeStampAckHigh \in Nat
  /\ history \in Logs
  /\ IsFiniteSet(txPackets)
  /\ \A x, y \in txPackets : SlotOf(x.n) = SlotOf(y.n) => x = y
  /\ \A x, y \in txPackets : x.n < y.n => x.timeTx <= y.timeTx
  /\ \A x \in txPackets : x.n <= Registered /\ x.timeTx <= now /\ x.ts <= now
  /\ \A n \in history.acked \cup history.lost \cup history.live : n <= Registered
  /\ timeTxAck <= now /\ timeStampAckHigh <= now
  /\ \A x \in txPackets : /\ x.n \notin history.lost
                          /\ x.acked <=> x.n \in history.acked
  /\ history.acked \cap history.lost = {}

LEMMA TablesIs ==
  TableInv <=> Tables
<1> QED
  BY DEF TableInv, Tables, Table, Logged, TxState, States

LEMMA AddedIs ==
  ASSUME Outgoing, AddTransmitted
  PROVE  \E p, q, kept : Added(p, q, kept)
<1>1. PICK p \in [n : Int, ts : Nat, mark : BOOLEAN, size : 1 .. 2] :
        sending = <<p>> /\ p.n = last.n /\ p.ts <= now
  BY DEF Outgoing, AddTransmitted
<1> DEFINE q == [n |-> p.n, size |-> p.size, ts |-> p.ts, mark |-> p.mark,
                 timeTx |-> now, acked |-> FALSE, afterEdge |-> FALSE]
           kept == {x \in txPackets : SlotOf(x.n) # SlotOf(p.n)}
<1>2. /\ txPackets' = kept \cup {q}
      /\ bytesInFlight' = bytesInFlight + p.size
      /\ history' = [history EXCEPT !.live = @ \cup {p.n}]
      /\ lastTransmitT' = now /\ sending' = <<>>
      /\ UNCHANGED <<hiSeqAck, timeTxAck, timeStampAckHigh, now, last, sent, arrivals>>
  BY <1>1 DEF AddTransmitted
<1>3. /\ now \in Nat /\ p.n \in Int /\ Registered = p.n - 1 /\ Registered' = p.n
  BY <1>1, <1>2 DEF Outgoing, Registered
<1>4. /\ q \in Packets /\ q.n = p.n /\ q.size = p.size /\ q.ts = p.ts /\ q.timeTx = now
      /\ ~q.acked /\ ~q.afterEdge
  BY <1>1, <1>3 DEF Packets
<1>5. kept = {x \in txPackets : SlotOf(x.n) # SlotOf(p.n)} /\ p.size \in 1 .. 2
  BY <1>1
<1> HIDE DEF q, kept
<1>6. Added(p, q, kept)
  BY <1>1, <1>2, <1>3, <1>4, <1>5 DEF Added
<1> QED
  BY <1>6

LEMMA AddTransmittedKeepsTable ==
  ASSUME Outgoing, TableInv, AddTransmitted
  PROVE  Outgoing' /\ TableInv'
<1>1. PICK p, q, kept : Added(p, q, kept)
  BY AddedIs
<1>2. /\ txPackets' = kept \cup {q}
      /\ bytesInFlight' = bytesInFlight + p.size
      /\ history' = [history EXCEPT !.live = @ \cup {p.n}]
      /\ lastTransmitT' = now /\ sending' = <<>>
      /\ UNCHANGED <<hiSeqAck, timeTxAck, timeStampAckHigh, now, last, sent, arrivals>>
  BY <1>1 DEF Added
<1>3. /\ p.n \in Int /\ p.n = last.n /\ Registered = p.n - 1 /\ Registered' = p.n
      /\ sending = <<p>> /\ p.ts <= now /\ p.size \in 1 .. 2
      /\ kept = {x \in txPackets : SlotOf(x.n) # SlotOf(p.n)}
  BY <1>1 DEF Added
<1>4. /\ q \in Packets /\ q.n = p.n /\ q.size = p.size /\ q.ts = p.ts /\ q.timeTx = now
      /\ ~q.acked /\ ~q.afterEdge
  BY <1>1 DEF Added
<1>5. Tables /\ now \in Nat
  BY TablesIs DEF Outgoing
<1>6. /\ txPackets \in SUBSET Packets /\ bytesInFlight \in Nat
      /\ hiSeqAck \in 0 .. SeqNrs - 1 /\ timeTxAck \in Nat /\ timeStampAckHigh \in Nat
      /\ history \in Logs /\ IsFiniteSet(txPackets)
      /\ \A x, y \in txPackets : SlotOf(x.n) = SlotOf(y.n) => x = y
      /\ \A x, y \in txPackets : x.n < y.n => x.timeTx <= y.timeTx
      /\ \A x \in txPackets : x.n <= p.n - 1 /\ x.timeTx <= now /\ x.ts <= now
      /\ \A n \in history.acked \cup history.lost \cup history.live : n <= p.n - 1
      /\ timeTxAck <= now /\ timeStampAckHigh <= now
      /\ \A x \in txPackets : /\ x.n \notin history.lost
                              /\ x.acked <=> x.n \in history.acked
      /\ history.acked \cap history.lost = {}
  BY <1>3, <1>5 DEF Tables
<1>7. /\ TxState'.tx = kept \cup {q} /\ TxState'.bif = bytesInFlight + p.size
      /\ TxState'.hi = hiSeqAck /\ TxState'.timeTxAck = timeTxAck
      /\ TxState'.tsHigh = timeStampAckHigh
      /\ TxState'.log.acked = history.acked /\ TxState'.log.lost = history.lost
      /\ TxState'.log.live = history.live \cup {p.n} /\ history'.edge = history.edge
      /\ history'.live = history.live \cup {p.n}
  BY <1>2, <1>6 DEF TxState, Logs
<1>8. TxState' \in States
  <2>1. history' \in Logs
    BY <1>2, <1>3, <1>5, <1>6 DEF Logs
  <2>2. txPackets' \in SUBSET Packets /\ bytesInFlight' \in Nat
    BY <1>2, <1>3, <1>4, <1>6
  <2> QED
    BY <1>2, <1>6, <2>1, <2>2 DEF TxState, States
<1>9. kept \subseteq txPackets /\ \A x \in kept : SlotOf(x.n) # SlotOf(p.n) /\ x \in Packets
  BY <1>3, <1>5, <1>6
<1>10. Table(TxState', Registered', now')
  <2>1. IsFiniteSet(kept \cup {q})
    BY <1>6, <1>9, FS_Subset, FS_AddElement
  <2>2. \A x, y \in kept \cup {q} : SlotOf(x.n) = SlotOf(y.n) => x = y
    BY <1>4, <1>6, <1>9
  <2>3. \A x \in kept : x.n \in Int /\ x.timeTx \in Nat /\ x.n < p.n /\ x.timeTx <= now
                        /\ x.ts <= now
    BY <1>3, <1>5, <1>6, <1>9 DEF Packets
  <2>4. \A x, y \in kept \cup {q} : x.n < y.n => x.timeTx <= y.timeTx
    BY <1>3, <1>4, <1>5, <1>6, <1>9, <2>3
  <2>5. \A x \in kept \cup {q} : x.n <= p.n /\ x.timeTx <= now /\ x.ts <= now
    BY <1>1, <1>3, <1>4, <1>5, <2>3
  <2>6. \A n \in history.acked \cup history.lost \cup (history.live \cup {p.n}) : n <= p.n
    <3>1. \A n \in history.acked \cup history.lost \cup history.live : n \in Int
      BY <1>6 DEF Logs
    <3> QED
      BY <1>3, <1>5, <1>6, <3>1
  <2> QED
    BY <1>2, <1>3, <1>5, <1>6, <1>7, <2>1, <2>2, <2>4, <2>5, <2>6 DEF Table
<1>11. Logged(TxState')
  <2>1. p.n \notin history.acked /\ p.n \notin history.lost
    BY <1>3, <1>5, <1>6
  <2> QED
    BY <1>4, <1>6, <1>7, <1>9, <2>1 DEF Logged
<1>12. Outgoing'
  BY <1>2, <1>3, <1>5 DEF Outgoing
<1> QED
  BY <1>8, <1>10, <1>11, <1>12 DEF TableInv

LEMMA AddTransmittedKeeps ==
  ASSUME FlightInv, AddTransmitted
  PROVE  FlightInv'
<1>1. PICK p, q, kept : Added(p, q, kept)
  BY AddedIs DEF FlightInv
<1>2. /\ txPackets' = kept \cup {q}
      /\ bytesInFlight' = bytesInFlight + p.size
      /\ history' = [history EXCEPT !.live = @ \cup {p.n}]
      /\ lastTransmitT' = now /\ sending' = <<>>
      /\ UNCHANGED <<hiSeqAck, timeTxAck, timeStampAckHigh, now, last, sent, arrivals>>
  BY <1>1 DEF Added
<1>3. /\ p.n \in Int /\ p.n = last.n /\ Registered = p.n - 1 /\ Registered' = p.n
      /\ sending = <<p>> /\ p.ts <= now /\ p.size \in 1 .. 2
      /\ kept = {x \in txPackets : SlotOf(x.n) # SlotOf(p.n)}
  BY <1>1 DEF Added
<1>4. /\ q \in Packets /\ q.n = p.n /\ q.size = p.size /\ q.ts = p.ts /\ q.timeTx = now
      /\ ~q.acked /\ ~q.afterEdge
  BY <1>1 DEF Added
<1>5. Tables /\ now \in Nat
  BY TablesIs DEF FlightInv, Outgoing
<1>6. /\ txPackets \in SUBSET Packets /\ bytesInFlight \in Nat
      /\ hiSeqAck \in 0 .. SeqNrs - 1 /\ timeTxAck \in Nat /\ timeStampAckHigh \in Nat
      /\ history \in Logs /\ IsFiniteSet(txPackets)
      /\ \A x, y \in txPackets : SlotOf(x.n) = SlotOf(y.n) => x = y
      /\ \A x, y \in txPackets : x.n < y.n => x.timeTx <= y.timeTx
      /\ \A x \in txPackets : x.n <= p.n - 1 /\ x.timeTx <= now /\ x.ts <= now
      /\ \A n \in history.acked \cup history.lost \cup history.live : n <= p.n - 1
      /\ timeTxAck <= now /\ timeStampAckHigh <= now
      /\ \A x \in txPackets : /\ x.n \notin history.lost
                              /\ x.acked <=> x.n \in history.acked
      /\ history.acked \cap history.lost = {}
  BY <1>3, <1>5 DEF Tables
<1>7. /\ TxState'.tx = kept \cup {q} /\ TxState'.bif = bytesInFlight + p.size
      /\ TxState'.hi = hiSeqAck /\ TxState'.timeTxAck = timeTxAck
      /\ history'.edge = history.edge /\ history'.live = history.live \cup {p.n}
  BY <1>2, <1>6 DEF TxState, Logs
<1>8. Outgoing' /\ TableInv'
  BY AddTransmittedKeepsTable DEF FlightInv
<1>9. kept \subseteq txPackets /\ \A x \in kept : SlotOf(x.n) # SlotOf(p.n) /\ x \in Packets
  BY <1>3, <1>5, <1>6
<1>10. PICK h \in Int : /\ history.edge - MaxBack <= h /\ h <= history.edge + 1
                        /\ h <= p.n /\ Settled(TxState, h)
  BY <1>1, <1>3, <1>5 DEF FlightInv, EdgeInv
<1>11. history.edge \in Int /\ history.edge <= p.n /\ p.n <= history.edge + MaxAhead
       /\ MaxAhead \in Nat /\ MaxBack \in Nat
  BY <1>3, <1>5, <1>6, NetworkAssumption DEF FlightInv, EdgeInv, Logs
<1>12. Counted(txPackets) \subseteq kept
  <2> SUFFICES ASSUME NEW x \in Counted(txPackets), SlotOf(x.n) = SlotOf(p.n)
               PROVE  FALSE
    BY <1>3 DEF Counted
  <2>1. x \in txPackets /\ x.n \in Int /\ h <= x.n /\ x.n < p.n
    BY <1>3, <1>5, <1>6, <1>10 DEF Counted, Settled, TxState, Packets
  <2>2. p.n - x.n >= kMaxTxPackets
    BY <1>3, <1>5, <2>1, SameSlot
  <2>3. p.n - x.n <= MaxAhead + MaxBack
    BY <1>3, <1>5, <1>10, <1>11, <2>1
  <2> QED
    BY <1>3, <1>5, <1>11, <2>1, <2>2, <2>3, SlotsAssumption, WindowAssumption, SpanAssumption
<1>13. Counted(txPackets') = Counted(txPackets) \cup {q} /\ q \notin Counted(txPackets)
  <2>1. q \notin txPackets
    BY <1>3, <1>4, <1>5, <1>6
  <2> QED
    BY <1>2, <1>3, <1>4, <1>9, <1>12, <2>1, Zenon DEF Counted
<1>14. bytesInFlight' = Bytes(Counted(txPackets'))
  <2> DEFINE C == Counted(txPackets)
             D == C \cup {q}
  <2>1. IsFiniteSet(D) /\ Sized(D)
    <3>1. C \subseteq txPackets
      BY DEF Counted
    <3> QED
      BY <1>4, <1>6, <3>1, FS_Subset, FS_AddElement DEF Sized, Packets
  <2>2. D \ {q} = C /\ q \in D
    BY <1>13
  <2>3. bytesInFlight = Bytes(C)
    BY <1>10 DEF Settled, TxState
  <2> HIDE DEF C, D
  <2>4. Bytes(D) = q.size + Bytes(D \ {q})
    BY <2>1, <2>2, SumTakeOut
  <2>5. bytesInFlight' = bytesInFlight + q.size
    BY <1>2, <1>4
  <2>6. Counted(txPackets') = D
    BY <1>13 DEF C, D
  <2>7. q.size \in Int /\ bytesInFlight \in Int
    BY <1>4, <1>6 DEF Packets
  <2>8. Bytes(D) = q.size + bytesInFlight
    BY <2>2, <2>3, <2>4, Zenon
  <2>9. bytesInFlight' = q.size + bytesInFlight
    BY <2>5, <2>7
  <2> QED
    BY <2>6, <2>8, <2>9, Zenon
<1>15. EdgeInv'
  <2>1. \A x \in Counted(txPackets') : h <= x.n /\ ~x.acked /\ timeTxAck <= x.timeTx
    BY <1>3, <1>4, <1>5, <1>6, <1>10, <1>13 DEF Settled, TxState
  <2>2. Settled(TxState', h)
    BY <1>2, <1>7, <1>10, <1>14, <2>1 DEF Settled, TxState
  <2> QED
    BY <1>2, <1>3, <1>5, <1>7, <1>10, <1>11, <2>2 DEF EdgeInv
<1>16. LiveInv'
  <2>1. \A n \in history.live : n > history.edge => \E x \in Counted(txPackets) : x.n = n
    BY DEF FlightInv, LiveInv
  <2> QED
    BY <1>4, <1>7, <1>13, <2>1 DEF LiveInv
<1> QED
  BY <1>8, <1>15, <1>16 DEF FlightInv

(* A report that is not too late is about packets within reach. *)
LEMMA ReportStarts ==
  ASSUME FlightInv, NEW end \in Int, end <= last.n, history.edge - end <= MaxBack
  PROVE  InReach(end) /\ Processed(TxState, end, end - Reported)
<1>1. /\ TxState \in States /\ Table(TxState, Registered, now) /\ Logged(TxState)
      /\ TxState.log = history /\ TxState.tx = txPackets
      /\ history.edge \in Int /\ history.live \subseteq Int
  BY DEF FlightInv, TableInv, TxState, States, Logs
<1>2. /\ history.edge <= last.n /\ last.n <= history.edge + MaxAhead
      /\ Registered \in Int /\ Registered <= last.n /\ now \in Nat /\ last.n \in Int
      /\ Reported \in Nat \ {0} /\ MaxAhead \in Nat /\ MaxBack \in Nat
  BY WindowAssumption, NetworkAssumption DEF FlightInv, Outgoing, EdgeInv, Registered
<1>3. InReach(end)
  BY <1>1, <1>2 DEF InReach
<1>4. PICK h \in Int : history.edge - MaxBack <= h /\ Settled(TxState, h)
  BY DEF FlightInv, EdgeInv
<1>5. h > history.edge - MaxBack - Reported
  BY <1>1, <1>2, <1>4
<1>6. InFlight(TxState, h, end - Reported)
  BY <1>4 DEF Settled, InFlight
<1>7. \A n \in history.live : n > history.edge => \E p \in Counted(TxState.tx) : p.n = n
  BY <1>1 DEF FlightInv, LiveInv
<1> QED
  BY <1>1, <1>3, <1>5, <1>6, <1>7 DEF Processed

LEMMA FeedbackKeeps ==
  ASSUME FlightInv, NEW new \in Deliveries, NEW k \in 1 .. Len(arrivals) + Len(new),
         Feedback(new, k)
  PROVE  FlightInv'
<1> DEFINE ar == arrivals \o new
           got == {ar[i] : i \in 1 .. k}
           end == Max(got)
           acks == {SeqNr(n) : n \in {m \in got : m > end - Reported}}
           st == AfterReport(SeqNr(end), acks)
<1>1. /\ history.edge - end <= MaxBack /\ ~Ignored(SeqNr(end))
      /\ Report(SeqNr(end), acks) /\ arrivals' = ar
      /\ history' = [st.log EXCEPT !.edge = Max({@, end})]
      /\ UNCHANGED <<lastTransmitT, now, sending, last, sent>>
  BY DEF Feedback
<1>2. /\ sent \subseteq Int /\ (\A n \in sent : n <= last.n) /\ arrivals \in Seq(sent)
      /\ last.n \in Int /\ now \in Nat
  BY DEF FlightInv, Outgoing
<1>3. ar \in Seq(sent) /\ got \subseteq sent /\ got # {}
  <2>1. new \in Seq(sent)
    <3> DEFINE wire == sent \ Range(arrivals)
    <3>1. \/ new = <<>>
          \/ \E n \in wire : new = <<n>>
          \/ new \in wire \X wire
      BY DEF Deliveries
    <3>2. wire \subseteq sent
      OBVIOUS
    <3> HIDE DEF wire
    <3>3. CASE new = <<>>
      BY <3>3
    <3>4. ASSUME NEW n \in wire, new = <<n>> PROVE new \in Seq(sent)
      <4>1. n \in sent
        BY <3>2
      <4> QED
        BY <3>4, <4>1
    <3>5. CASE new \in wire \X wire
      <4>1. PICK m \in wire, n \in wire : new = <<m, n>>
        BY <3>5
      <4>2. m \in sent /\ n \in sent
        BY <3>2
      <4> QED
        BY <4>1, <4>2
    <3> QED
      BY <3>1, <3>3, <3>4, <3>5
  <2>2. ar \in Seq(sent) /\ Len(ar) = Len(arrivals) + Len(new)
    BY <1>2, <2>1
  <2>3. Len(ar) \in Nat /\ \A i \in 1 .. Len(ar) : ar[i] \in sent
    BY <2>2
  <2>4. \A i \in 1 .. k : i \in 1 .. Len(ar)
    BY <2>2, <2>3
  <2>5. 1 \in 1 .. k
    OBVIOUS
  <2> HIDE DEF ar
  <2> QED
    BY <2>2, <2>3, <2>4, <2>5
<1> HIDE DEF ar, got
<1>4. end \in got
  <2>1. got \in SUBSET Int /\ \A n \in got : n <= last.n
    BY <1>2, <1>3
  <2> QED
    BY <1>2, <1>3, <2>1, MaxOfBounded
<1> HIDE DEF end
<1>5. end \in Int /\ end <= last.n /\ Reported \in Nat \ {0}
      /\ MaxAhead \in Nat /\ MaxBack \in Nat
  BY <1>2, <1>3, <1>4, WindowAssumption, NetworkAssumption
<1>6. SeqNr(end) \in acks
  BY <1>4, <1>5
<1>7. /\ TxState \in States /\ Table(TxState, Registered, now) /\ Logged(TxState)
      /\ TxState.log = history /\ TxState.tx = txPackets /\ history \in Logs
      /\ history.edge \in Int /\ history.live \subseteq Int
  BY DEF FlightInv, TableInv, TxState, States, Logs
<1>8. /\ history.edge <= last.n /\ last.n <= history.edge + MaxAhead
      /\ Registered \in Int /\ Registered <= last.n
  BY <1>2 DEF FlightInv, EdgeInv, Registered
<1>9. InReach(end) /\ Processed(TxState, end, end - Reported)
  BY <1>1, <1>5, ReportStarts
<1> HIDE DEF acks
<1>10. Processed(st, end, end) /\ Settled(st, end)
  BY <1>1, <1>6, <1>9, ReportKeeps
<1>11. /\ txPackets' = st.tx /\ bytesInFlight' = st.bif /\ hiSeqAck' = st.hi
       /\ timeTxAck' = st.timeTxAck /\ timeStampAckHigh' = st.tsHigh
  BY <1>1 DEF Report
<1> HIDE DEF st
<1> DEFINE edge == Max({history.edge, end})
<1>12. /\ st \in States /\ Table(st, Registered, now) /\ Logged(st)
       /\ st.log.edge = history.edge /\ st.log.live = history.live
       /\ \A n \in history.live : n > history.edge /\ n > end
             => \E p \in Counted(st.tx) : p.n = n
  BY <1>10 DEF Processed
<1>13. /\ edge = IF history.edge >= end THEN history.edge ELSE end
       /\ edge \in Int
  BY <1>5, <1>7, MaxOfTwo
<1>14. history' = [st.log EXCEPT !.edge = edge]
  BY <1>1, <1>12
<1> HIDE DEF edge
<1>15. /\ history' \in Logs /\ history'.acked = st.log.acked /\ history'.lost = st.log.lost
       /\ history'.live = st.log.live /\ history'.edge = edge
  BY <1>12, <1>13, <1>14 DEF States, Logs
<1>16. /\ TxState'.tx = st.tx /\ TxState'.bif = st.bif /\ TxState'.hi = st.hi
       /\ TxState'.timeTxAck = st.timeTxAck /\ TxState'.tsHigh = st.tsHigh
       /\ TxState'.log.acked = st.log.acked /\ TxState'.log.lost = st.log.lost
       /\ TxState'.log.live = st.log.live
  BY <1>11, <1>15 DEF TxState
<1>17. Registered' = Registered
  BY <1>1 DEF Registered
<1>18. TableInv'
  <2>1. TxState' \in States
    BY <1>11, <1>12, <1>15 DEF TxState, States
  <2>2. Table(TxState', Registered', now')
    BY <1>1, <1>12, <1>16, <1>17 DEF Table
  <2>3. Logged(TxState')
    BY <1>12, <1>16 DEF Logged
  <2> QED
    BY <2>1, <2>2, <2>3 DEF TableInv
<1>19. EdgeInv'
  <2>1. Settled(TxState', end)
    BY <1>10, <1>16 DEF Settled
  <2>2. history.edge - end <= MaxBack
    BY <1>1
  <2>3. edge <= last.n /\ last.n <= edge + MaxAhead /\ edge - MaxBack <= end
        /\ end <= edge + 1
    <3>1. CASE history.edge >= end
      BY <1>2, <1>5, <1>7, <1>8, <1>13, <2>2, <3>1
    <3>2. CASE ~ (history.edge >= end)
      BY <1>2, <1>5, <1>7, <1>8, <1>13, <2>2, <3>2
    <3> QED
      BY <3>1, <3>2
  <2> QED
    BY <1>1, <1>5, <1>15, <2>1, <2>3 DEF EdgeInv
<1>20. LiveInv'
  <2> SUFFICES ASSUME NEW n \in history.live, n > edge
               PROVE  \E p \in Counted(st.tx) : p.n = n
    BY <1>11, <1>12, <1>15 DEF LiveInv
  <2>1. n \in Int /\ n > history.edge /\ n > end
    BY <1>5, <1>7, <1>13
  <2> QED
    BY <1>12, <2>1
<1>21. Outgoing'
  BY <1>1, <1>3 DEF FlightInv, Outgoing
<1> QED
  BY <1>18, <1>19, <1>20, <1>21 DEF FlightInv

LEMMA TickKeepsTable ==
  ASSUME Outgoing, TableInv, Tick
  PROVE  Outgoing' /\ TableInv'
<1>1. /\ now' = now + 1 /\ now \in Nat
      /\ UNCHANGED <<txVars, lastTransmitT, sending, last, sent, arrivals, history>>
  BY DEF Outgoing, Tick
<1>2. TxState' = TxState /\ Registered' = Registered /\ Registered \in Int
  BY <1>1 DEF TxState, Registered, txVars, Outgoing
<1>3. Outgoing'
  BY <1>1 DEF Outgoing
<1>4. TableInv'
  <2>1. now <= now' /\ now' \in Nat
    BY <1>1
  <2>2. TxState \in States /\ Table(TxState, Registered, now) /\ Logged(TxState)
    BY DEF TableInv
  <2>3. Registered <= Registered
    BY <1>2
  <2>4. Table(TxState, Registered, now')
    BY <1>1, <1>2, <2>1, <2>2, <2>3, HigherTop
  <2> QED
    BY <1>2, <2>2, <2>4 DEF TableInv
<1> QED
  BY <1>3, <1>4

LEMMA TickKeeps ==
  ASSUME FlightInv, Tick
  PROVE  FlightInv'
<1>1. UNCHANGED <<txVars, lastTransmitT, sending, last, sent, arrivals, history>>
  BY DEF Tick
<1>2. Outgoing' /\ TableInv'
  BY TickKeepsTable DEF FlightInv
<1>3. TxState' = TxState
  BY <1>1 DEF TxState, txVars
<1>4. EdgeInv' /\ LiveInv'
  BY <1>1, <1>3 DEF FlightInv, EdgeInv, LiveInv, txVars
<1> QED
  BY <1>2, <1>4 DEF FlightInv

LEMMA TypesFollow ==
  ASSUME Outgoing, TableInv
  PROVE  TypeOK
<1>1. TxState \in States /\ Table(TxState, Registered, now)
  BY DEF TableInv
<1>2. /\ bytesInFlight \in Nat /\ hiSeqAck \in 0 .. SeqNrs - 1
      /\ timeTxAck \in Nat /\ timeStampAckHigh \in Nat
  BY <1>1 DEF TxState, States
<1>3. /\ \A p, q \in txPackets : SlotOf(p.n) = SlotOf(q.n) => p = q
      /\ timeTxAck <= now /\ timeStampAckHigh <= now
  BY <1>1 DEF Table, TxState
<1>4. now \in Nat /\ lastTransmitT \in 0 .. now /\ Len(sending) <= 1
  <2>1. sending = <<>> \/ \E p : sending = <<p>>
    BY DEF Outgoing
  <2>2. CASE sending = <<>>
    BY <2>2 DEF Outgoing
  <2>3. ASSUME NEW p, sending = <<p>> PROVE Len(sending) <= 1
    <3>1. Len(sending) = 1
      BY <2>3
    <3> QED
      BY <3>1
  <2> QED
    BY <2>1, <2>2, <2>3 DEF Outgoing
<1> QED
  BY <1>2, <1>3, <1>4 DEF TypeOK

-----------------------------------------------------------------------------
(* The theorems about TxFlight. *)

(* The invariant is inductive: initially, and by every step of the two      *)
(* threads, the network and the clock.                                      *)
THEOREM FlightInvariant == Spec => []FlightInv
<1>1. Init => FlightInv
  BY InitHolds
<1>2. FlightInv /\ [Next]_vars => FlightInv'
  <2> SUFFICES ASSUME FlightInv, [Next]_vars PROVE FlightInv'
    OBVIOUS
  <2>1. CASE \E p \in NextPackets : Transmit(p)
    BY <2>1, TransmitKeeps
  <2>2. CASE \E p \in NextPackets : TransmitAfterTimeout(p)
    BY <2>2, TransmitKeeps
  <2>3. CASE AddTransmitted
    BY <2>3, AddTransmittedKeeps
  <2>4. CASE \E new \in Deliveries :
               \E k \in 1 .. Len(arrivals) + Len(new) : Feedback(new, k)
    BY <2>4, FeedbackKeeps
  <2>5. CASE Tick
    BY <2>5, TickKeeps
  <2>6. CASE UNCHANGED vars
    BY <2>6 DEF FlightInv, Outgoing, TableInv, EdgeInv, LiveInv, TxState, Registered, vars
  <2> QED
    BY <2>1, <2>2, <2>3, <2>4, <2>5, <2>6 DEF Next
<1> QED
  BY <1>1, <1>2, PTL DEF Spec

(* The table has at most one packet in a slot, and the counters and times   *)
(* of ScreamV2Tx stay in their ranges.                                      *)
THEOREM TypeCorrect == Spec => []TypeOK
<1>1. FlightInv => TypeOK
  BY TypesFollow DEF FlightInv
<1> QED
  BY <1>1, FlightInvariant, PTL

(* bytesInFlight is always the bytes of the packets in the table that no    *)
(* report has passed: the timeout, the window detectLoss strips, a late     *)
(* registration and reports out of order subtract nothing twice and forget  *)
(* nothing, and the clamp at 0 never bites.                                 *)
THEOREM FlightCorrect == Spec => []FlightAccounting
<1>1. FlightInv => FlightAccounting
  BY DEF FlightInv, EdgeInv, Settled, FlightAccounting, Counted, TxState
<1> QED
  BY <1>1, FlightInvariant, PTL

(* A packet registered since the last timeout stays counted until a report  *)
(* reaches it, however sequence numbers wrap: no slot is taken from it.     *)
THEOREM UnreportedCorrect == Spec => []UnreportedIsCounted
<1>1. FlightInv => UnreportedIsCounted
  BY DEF FlightInv, LiveInv, UnreportedIsCounted, Counted
<1> QED
  BY <1>1, FlightInvariant, PTL

(* detectLoss never declares a packet lost that markAcked has acked, nor    *)
(* is one acked after it was declared lost.                                 *)
THEOREM AckedCorrect == Spec => []AckedNeverLost
<1>1. FlightInv => AckedNeverLost
  BY DEF FlightInv, TableInv, Logged, AckedNeverLost, TxState
<1> QED
  BY <1>1, FlightInvariant, PTL
-----------------------------------------------------------------------------
(* Reports that come at any time, about any numbers. *)

(* A sequence number is that of a packet as far on as one likes. *)
LEMMA SomePlace ==
  ASSUME NEW sn \in 0 .. SeqNrs - 1, NEW top \in Int
  PROVE  \E r \in Int : SeqNr(r) = sn /\ top - r < SeqNrs
<1>1. SeqNrs \in Nat \ {0} /\ sn \in Int
  BY SlotsAssumption
<1> DEFINE c == IF top > 0 THEN top ELSE 0
<1>2. c \in Nat /\ top <= c
  OBVIOUS
<1> HIDE DEF c
<1>3. SeqNrs * c \in Int /\ c <= SeqNrs * c
  BY <1>1, <1>2
<1> DEFINE r == SeqNrs * c + sn
<1>4. SeqNr(r) = sn
  BY <1>1, <1>2, <1>3, ModUnique DEF SeqNr
<1>5. r \in Int /\ top - r < SeqNrs
  <2> DEFINE d == SeqNrs * c
  <2>1. d \in Int /\ c <= d /\ r = d + sn
    BY <1>3
  <2> HIDE DEF d, r
  <2> QED
    BY <1>1, <1>2, <2>1
<1> QED
  BY <1>4, <1>5

LEMMA AckedBy ==
  ASSUME NEW st \in States, NEW sn
  PROVE  MarkAcked(st, sn).log.acked \subseteq st.log.acked \cup {n \in Int : SeqNr(n) = sn}
<1> DEFINE new == NewlyAcked(st, sn)
           p == CHOOSE x \in new : TRUE
<1>1. CASE new = {}
  BY <1>1 DEF MarkAcked
<1>2. CASE new # {}
  <2>1. MarkAcked(st, sn) = AckOf(st, p)
    BY <1>2 DEF MarkAcked
  <2>2. p \in st.tx /\ SeqNr(p.n) = sn
    <3>1. p \in new
      BY <1>2
    <3> HIDE DEF p
    <3> QED
      BY <3>1 DEF NewlyAcked
  <2> HIDE DEF p
  <2>3. AckOf(st, p).log.acked = st.log.acked \cup {p.n}
    BY <2>2, AckOfIs
  <2>4. p.n \in Int
    BY <2>2 DEF States, Packets
  <2> QED
    BY <2>1, <2>2, <2>3, <2>4
<1> QED
  BY <1>1, <1>2

(* The table and the acks reach back to low: no report changes that. *)
From(st, low) == /\ \A p \in st.tx : p.n >= low
                 /\ \A n \in st.log.acked : n >= low

LEMMA AckFrom ==
  ASSUME NEW st \in States, NEW sn, NEW low \in Int, From(st, low)
  PROVE  From(MarkAcked(st, sn), low)
<1> DEFINE new == NewlyAcked(st, sn)
           p == CHOOSE x \in new : TRUE
<1>1. CASE new = {}
  BY <1>1 DEF MarkAcked
<1>2. CASE new # {}
  <2>1. MarkAcked(st, sn) = AckOf(st, p)
    BY <1>2 DEF MarkAcked
  <2>2. p \in st.tx
    <3>1. p \in new
      BY <1>2
    <3> HIDE DEF p
    <3> QED
      BY <3>1 DEF NewlyAcked
  <2> HIDE DEF p
  <2> DEFINE q == [p EXCEPT !.acked = TRUE]
  <2>3. /\ AckOf(st, p).tx = (st.tx \ {p}) \cup {q} /\ q.n = p.n
        /\ AckOf(st, p).log.acked = st.log.acked \cup {p.n}
    BY <2>2, AckOfIs
  <2> HIDE DEF q
  <2> QED
    BY <2>1, <2>2, <2>3 DEF From
<1> QED
  BY <1>1, <1>2

LEMMA DetectLossFrom ==
  ASSUME NEW st \in States, NEW hi \in 0 .. SeqNrs - 1, NEW low \in Int, From(st, low)
  PROVE  From(DetectLoss(st, hi), low)
<1>1. /\ DetectLoss(st, hi).tx = {Passing(p, Passed(st, hi)) : p \in Left(st, hi)}
      /\ DetectLoss(st, hi).log.acked = st.log.acked
  BY DetectLossIs
<1>2. \A p \in Left(st, hi) : p \in st.tx /\ p \in Packets
  BY DEF Left, States
<1>3. \A p \in Left(st, hi) : Passing(p, Passed(st, hi)).n = p.n
  BY <1>2, PassingIs
<1> QED
  BY <1>1, <1>2, <1>3 DEF From

(* Whatever number an element has. *)
LEMMA ElementKeepsTable ==
  ASSUME NEW st \in States, NEW sn \in 0 .. SeqNrs - 1, NEW isLast \in BOOLEAN,
         NEW top \in Int, NEW t \in Nat, Table(st, top, t), Logged(st)
  PROVE  LET e == Element(st, sn, isLast)
         IN  /\ e \in States /\ Table(e, top, t) /\ Logged(e)
             /\ e.log.edge = st.log.edge /\ e.log.live = st.log.live
             /\ e.log.acked \subseteq st.log.acked \cup {n \in Int : SeqNr(n) = sn}
             /\ \A low \in Int : From(st, low) => From(e, low)
<1> DEFINE a == MarkAcked(st, sn)
           d == DetectLoss(a, sn)
<1>1. PICK r \in Int : SeqNr(r) = sn /\ top - r < SeqNrs
  BY SomePlace
<1>2. /\ a \in States /\ Table(a, top, t) /\ Logged(a)
      /\ a.log.edge = st.log.edge /\ a.log.live = st.log.live
  <2>1. LET b == MarkAcked(st, SeqNr(r))
        IN  /\ b \in States /\ Table(b, top, t) /\ Logged(b)
            /\ b.log.edge = st.log.edge /\ b.log.live = st.log.live
    BY <1>1, AckKeeps
  <2> QED
    BY <1>1, <2>1
<1>3. a.log.acked \subseteq st.log.acked \cup {n \in Int : SeqNr(n) = sn}
  BY AckedBy
<1>6. \A low \in Int : From(st, low) => From(a, low)
  BY AckFrom
<1> HIDE DEF a
<1>4. /\ d \in States /\ Table(d, top, t) /\ Logged(d)
      /\ d.log.edge = a.log.edge /\ d.log.live = a.log.live /\ d.log.acked = a.log.acked
  BY <1>2, DetectLossKeepsTable, DetectLossIs
<1>7. \A low \in Int : From(a, low) => From(d, low)
  BY <1>2, DetectLossFrom
<1> HIDE DEF d
<1>5. Element(st, sn, isLast) \in {a, d}
  BY DEF Element, a, d
<1> QED
  BY <1>2, <1>3, <1>4, <1>5, <1>6, <1>7, Zenon

(* A report keeps the table in order whenever it comes, and acks only what  *)
(* it reports and the table holds.                                          *)
LEMMA ReportKeepsTable ==
  ASSUME Outgoing, TableInv, NEW end \in Int, NEW acks
  PROVE  LET st == AfterReport(end, acks)
         IN  /\ st \in States /\ Table(st, Registered, now) /\ Logged(st)
             /\ st.log.edge = history.edge /\ st.log.live = history.live
             /\ \A n \in st.log.acked : n \in history.acked \/ SeqNr(n) \in acks
             /\ \A low \in Int : From(TxState, low) => From(st, low)
<1> DEFINE Good(st) ==
      /\ st \in States /\ Table(st, Registered, now) /\ Logged(st)
      /\ st.log.edge = history.edge /\ st.log.live = history.live
      /\ \A n \in st.log.acked : n \in history.acked \/ SeqNr(n) \in acks
      /\ \A low \in Int : From(TxState, low) => From(st, low)
<1>1. PICK f : /\ Run(f, end, acks)
               /\ AfterReport(end, acks) = IF Ignored(end) THEN TxState ELSE f[Reported]
  BY AfterReportIs, Zenon
<1>2. Reported \in Nat /\ now \in Nat /\ Registered \in Int
  BY WindowAssumption DEF Outgoing, Registered
<1>3. Good(TxState)
  BY DEF TableInv, TxState
<1>4. ASSUME NEW i \in 1 .. Reported, Good(f[i - 1]) PROVE Good(f[i])
  <2> DEFINE sn == (end - Reported + i) % SeqNrs
             s == f[i - 1]
             e == Element(s, sn, i = Reported)
  <2>1. f[i] = IF sn \in acks THEN e ELSE s
    BY <1>1 DEF Run, Step
  <2>2. sn \in 0 .. SeqNrs - 1
    <3>1. end - Reported + i \in Int /\ SeqNrs \in Nat \ {0}
      BY <1>2, SlotsAssumption
    <3> QED
      BY <3>1, ModIs
  <2>3. /\ s \in States /\ Table(s, Registered, now) /\ Logged(s)
        /\ s.log.edge = history.edge /\ s.log.live = history.live
        /\ \A n \in s.log.acked : n \in history.acked \/ SeqNr(n) \in acks
        /\ \A low \in Int : From(TxState, low) => From(s, low)
    BY <1>4
  <2>4. (i = Reported) \in BOOLEAN
    OBVIOUS
  <2> HIDE DEF s, sn
  <2>5. /\ e \in States /\ Table(e, Registered, now) /\ Logged(e)
        /\ e.log.edge = s.log.edge /\ e.log.live = s.log.live
        /\ e.log.acked \subseteq s.log.acked \cup {n \in Int : SeqNr(n) = sn}
        /\ \A low \in Int : From(s, low) => From(e, low)
    BY <1>2, <2>2, <2>3, <2>4, ElementKeepsTable
  <2> HIDE DEF e
  <2>6. CASE sn \in acks
    <3>1. Good(e)
      BY <2>3, <2>5, <2>6
    <3> QED
      BY <2>1, <2>6, <3>1
  <2>7. CASE sn \notin acks
    BY <2>1, <2>3, <2>7
  <2> QED
    BY <2>6, <2>7
<1> HIDE DEF Good
<1>5. \A i \in 0 .. Reported : Good(f[i])
  <2> DEFINE S == {i \in 0 .. Reported : Good(f[i])}
  <2>1. 0 \in S
    BY <1>1, <1>2, <1>3 DEF Run
  <2>2. \A i \in 1 .. Reported : i - 1 \in S => i \in S
    BY <1>2, <1>4
  <2> HIDE DEF S
  <2>3. \A i \in 0 .. Reported : i \in S
    BY <1>2, <2>1, <2>2, UpTo
  <2> QED
    BY <2>3 DEF S
<1>6. Good(AfterReport(end, acks))
  BY <1>1, <1>2, <1>3, <1>5
<1> QED
  BY <1>6 DEF Good
-----------------------------------------------------------------------------
(* The network and the receiver. *)

LEMMA RemoveAtIs ==
  ASSUME NEW T, NEW s \in Seq(T), NEW i \in 1 .. Len(s)
  PROVE  /\ RemoveAt(s, i) \in Seq(T) /\ Len(RemoveAt(s, i)) = Len(s) - 1
         /\ \A j \in 1 .. Len(s) - 1 :
              RemoveAt(s, i)[j] = IF j < i THEN s[j] ELSE s[j + 1]
<1> DEFINE a == SubSeq(s, 1, i - 1)
           b == SubSeq(s, i + 1, Len(s))
<1>1. a \in Seq(T) /\ Len(a) = i - 1 /\ \A j \in 1 .. i - 1 : a[j] = s[j]
  OBVIOUS
<1>2. b \in Seq(T) /\ Len(b) = Len(s) - i /\ \A j \in 1 .. Len(s) - i : b[j] = s[i + j]
  OBVIOUS
<1>3. RemoveAt(s, i) = a \o b /\ Len(s) \in Nat
  BY DEF RemoveAt
<1> HIDE DEF a, b
<1>4. a \o b \in Seq(T) /\ Len(a \o b) = Len(s) - 1
  BY <1>1, <1>2, <1>3
<1>5. ASSUME NEW j \in 1 .. Len(s) - 1
      PROVE  (a \o b)[j] = IF j < i THEN s[j] ELSE s[j + 1]
  <2>1. (a \o b)[j] = IF j <= Len(a) THEN a[j] ELSE b[j - Len(a)]
    BY <1>1, <1>2, <1>3
  <2>2. CASE j < i
    BY <1>1, <2>1, <2>2
  <2>3. CASE ~ (j < i)
    <3>1. j - (i - 1) \in 1 .. Len(s) - i /\ i + (j - (i - 1)) = j + 1 /\ ~ (j <= i - 1)
      BY <1>3, <2>3
    <3>2. (a \o b)[j] = b[j - (i - 1)]
      BY <1>1, <2>1, <3>1
    <3> QED
      BY <1>2, <2>3, <3>1, <3>2
  <2> QED
    BY <2>2, <2>3
<1> QED
  BY <1>3, <1>4, <1>5

LEMMA TailIs ==
  ASSUME NEW T, NEW s \in Seq(T), s # <<>>
  PROVE  /\ Tail(s) \in Seq(T) /\ Len(Tail(s)) = Len(s) - 1
         /\ \A j \in 1 .. Len(s) - 1 : Tail(s)[j] = s[j + 1]
OBVIOUS

LEMMA QueueIs ==
  ASSUME NEW T, NEW s \in Seq(T), NEW m \in T, Len(s) <= MaxInTransit
  PROVE  /\ Queue(s, m) \in Seq(T) /\ Len(Queue(s, m)) <= MaxInTransit
         /\ \A j \in 1 .. Len(Queue(s, m)) :
              \/ j \in 1 .. Len(s) /\ Queue(s, m)[j] = s[j]
              \/ Queue(s, m)[j] = m
         /\ Len(s) < MaxInTransit =>
              /\ Len(Queue(s, m)) = Len(s) + 1
              /\ \A j \in 1 .. Len(s) : Queue(s, m)[j] = s[j]
              /\ Queue(s, m)[Len(s) + 1] = m
<1>1. MaxInTransit \in Nat
  BY SessionAssumption
<1>2. CASE Len(s) < MaxInTransit
  <2>1. Queue(s, m) = Append(s, m)
    BY <1>2 DEF Queue
  <2> QED
    BY <1>1, <1>2, <2>1
<1>3. CASE ~ (Len(s) < MaxInTransit)
  <2>1. Queue(s, m) = s
    BY <1>3 DEF Queue
  <2> QED
    BY <1>1, <1>3, <2>1
<1> QED
  BY <1>2, <1>3

(* The one block of a message. *)
LEMMA BlockIs ==
  ASSUME NEW tx, NEW hi
  PROVE  rx!Ends(tx, hi)[1] = rx!BlockEnd(tx, hi)
<1> DEFINE Body(f) == [i \in 0 .. 1 |-> IF i = 0 THEN tx ELSE rx!BlockEnd(f[i - 1], hi)]
           ends == CHOOSE f : f = Body(f)
           g == [i \in 0 .. 1 |-> IF i = 0 THEN tx ELSE rx!BlockEnd(tx, hi)]
<1>1. g = Body(g)
  <2>1. \A i \in 0 .. 1 : i # 0 => i - 1 \in 0 .. 1 /\ i - 1 = 0
    OBVIOUS
  <2>2. \A i \in 0 .. 1 : g[i] = IF i = 0 THEN tx ELSE rx!BlockEnd(g[i - 1], hi)
    BY <2>1
  <2> QED
    BY <2>2
<1> HIDE DEF g
<1>2. ends = Body(ends)
  BY <1>1
<1>3. rx!Ends(tx, hi) = [i \in 1 .. 1 |-> ends[i]]
  BY DEF rx!Ends
<1> HIDE DEF ends
<1>4. ends[0] = tx /\ ends[1] = rx!BlockEnd(ends[0], hi)
  <2>1. 0 \in 0 .. 1 /\ 1 \in 0 .. 1 /\ 1 - 1 = 0 /\ 1 # 0
    OBVIOUS
  <2> QED
    BY <1>2, <2>1
<1> QED
  BY <1>3, <1>4

(* What a packet that arrives does to the receiver, and the block that is   *)
(* sent if one is due.                                                      *)
Block(n) ==
  LET end == rx!BlockEnd(highestSeqNrTx, rx!HighestAfter(n))
  IN  [end |-> end, rx |-> rx!ReportedIn(rx!Recorded(n), end)]

Due(mark, elapsed) == rx!DueAfter(mark, elapsed)

LEMMA ArriveIs ==
  ASSUME NEW i, NEW elapsed, Arrive(i, elapsed)
  PROVE  LET n == rtp[i].n
             due == Due(rtp[i].mark, elapsed)
             hi == rx!HighestAfter(n)
         IN  /\ highestSeqNr' = hi
             /\ hist' = rx!Recorded(n)
             /\ highestSeqNrTx' = IF due THEN Block(n).end ELSE highestSeqNrTx
             /\ doFlush' = IF due THEN Block(n).end # hi ELSE (doFlush \/ rtp[i].mark)
             /\ nRtpSinceLastRtcp' = IF due THEN 0 ELSE nRtpSinceLastRtcp + 1
             /\ received' = received \cup {n} /\ delivered' = delivered \cup {n}
             /\ rtp' = RemoveAt(rtp, i)
             /\ rtcp' = IF due THEN Queue(rtcp, Block(n)) ELSE rtcp
             /\ net' = Untidy(i > 1 \/ (due /\ Len(rtcp) = MaxInTransit))
             /\ UNCHANGED <<vars, restarts>>
<1> DEFINE n == rtp[i].n
           mark == rtp[i].mark
           hi == rx!HighestAfter(n)
           end == rx!Ends(highestSeqNrTx, hi)[1]
           due == Due(mark, elapsed)
           message == rx!Message(n, mark, elapsed)
           b == [end |-> end, rx |-> rx!ReportedIn(rx!Recorded(n), end)]
<1>1. end = rx!BlockEnd(highestSeqNrTx, hi) /\ b = Block(n) /\ Block(n).end = end
  BY BlockIs DEF Block
<1>2. /\ highestSeqNr' = hi /\ hist' = rx!Recorded(n)
      /\ IF due THEN /\ highestSeqNrTx' = end /\ doFlush' = (end # hi)
                     /\ nRtpSinceLastRtcp' = 0
                ELSE /\ doFlush' = (doFlush \/ mark)
                     /\ nRtpSinceLastRtcp' = nRtpSinceLastRtcp + 1
                     /\ UNCHANGED highestSeqNrTx
  BY DEF Arrive, rx!Record, Due
<1>3. /\ received' = received \cup {n} /\ delivered' = delivered \cup {n}
      /\ rtp' = RemoveAt(rtp, i)
      /\ rtcp' = IF message = {} THEN rtcp
                                ELSE Queue(rtcp, CHOOSE block \in message : TRUE)
      /\ net' = Untidy(i > 1 \/ (message # {} /\ Len(rtcp) = MaxInTransit))
      /\ UNCHANGED <<vars, restarts>>
  BY DEF Arrive
<1>4. message = IF due THEN {b} ELSE {}
  <2>1. \A j \in 1 .. 1 : j = 1
    OBVIOUS
  <2> QED
    BY <2>1 DEF rx!Message, Due
<1> HIDE DEF end, message, b, hi, due, n, mark
<1>5. CASE due
  <2>1. message # {} /\ (CHOOSE block \in message : TRUE) = b
    BY <1>4, <1>5
  <2>2. /\ highestSeqNrTx' = Block(n).end /\ doFlush' = (Block(n).end # hi)
        /\ nRtpSinceLastRtcp' = 0
    BY <1>1, <1>2, <1>5
  <2>3. /\ rtcp' = Queue(rtcp, Block(n))
        /\ net' = Untidy(i > 1 \/ (due /\ Len(rtcp) = MaxInTransit))
    BY <1>1, <1>3, <1>5, <2>1 DEF Untidy
  <2> QED
    BY <1>2, <1>3, <1>5, <2>2, <2>3, Zenon DEF hi, due, n, mark
<1>6. CASE ~due
  <2>1. message = {}
    BY <1>4, <1>6
  <2>2. /\ rtcp' = rtcp
        /\ net' = Untidy(i > 1 \/ (due /\ Len(rtcp) = MaxInTransit))
    BY <1>3, <1>6, <2>1 DEF Untidy
  <2>3. /\ highestSeqNrTx' = highestSeqNrTx /\ doFlush' = (doFlush \/ mark)
        /\ nRtpSinceLastRtcp' = nRtpSinceLastRtcp + 1
    BY <1>2, <1>6
  <2> QED
    BY <1>2, <1>3, <1>6, <2>2, <2>3, Zenon DEF hi, due, n, mark
<1> QED
  BY <1>5, <1>6
-----------------------------------------------------------------------------
(* What holds however the network behaves and whoever is restarted. *)

Numbers(S) == {SeqNr(n) : n \in S}

(* The first packet of the session. *)
First == Session * SeqNrs

LEMMA FirstIs ==
  ASSUME last.n \in Int
  PROVE  /\ First \in Int /\ First = (last.n + 1) - ((last.n + 1) % SeqNrs)
         /\ First <= last.n + 1 /\ last.n + 1 <= First + (SeqNrs - 1)
         /\ (Session + 1) * SeqNrs = First + SeqNrs
<1> DEFINE m == last.n + 1
<1>1. m \in Int /\ SeqNrs \in Nat \ {0}
  BY SlotsAssumption
<1> HIDE DEF m
<1>2. LET k == (m \div SeqNrs) * SeqNrs
      IN  /\ k \in Int /\ k = m - (m % SeqNrs) /\ k <= m /\ m <= k + (SeqNrs - 1)
          /\ ((m \div SeqNrs) + 1) * SeqNrs = k + SeqNrs
  BY <1>1, DivIs, Zenon
<1>3. First = (m \div SeqNrs) * SeqNrs /\ Session = m \div SeqNrs /\ m = last.n + 1
  BY DEF First, Session, m
<1> QED
  BY <1>2, <1>3, Zenon

RxInv ==
  /\ rx!TypeOK
  /\ delivered \subseteq Int /\ received \subseteq delivered /\ hist \subseteq received

RtpPackets == [n : Int, mark : BOOLEAN]
Blocks == [end : 0 .. SeqNrs - 1, rx : SUBSET (0 .. SeqNrs - 1)]

(* The messages report only what was delivered. *)
NetInv ==
  /\ rtp \in Seq(RtpPackets) /\ Len(rtp) <= MaxInTransit
  /\ rtcp \in Seq(Blocks)
  /\ Len(rtcp) <= MaxInTransit
  /\ \A i \in 1 .. Len(rtcp) : rtcp[i].rx \subseteq Numbers(delivered)
  /\ restarts \in 0 .. MaxRestarts
  /\ net \in [clean : BOOLEAN, tidy : BOOLEAN, missed : BOOLEAN]

LinkInv ==
  /\ Outgoing /\ TableInv /\ RxInv /\ NetInv
  /\ Numbers(history.acked) \subseteq Numbers(delivered)

LEMMA NumberRange ==
  ASSUME NEW n \in Int
  PROVE  SeqNr(n) \in 0 .. SeqNrs - 1
BY NumberIs

LEMMA NetIs ==
  ASSUME net \in [clean : BOOLEAN, tidy : BOOLEAN, missed : BOOLEAN], NEW m \in BOOLEAN
  PROVE  /\ Untidy(m) \in [clean : BOOLEAN, tidy : BOOLEAN, missed : BOOLEAN]
         /\ Missed(m) \in [clean : BOOLEAN, tidy : BOOLEAN, missed : BOOLEAN]
         /\ m => ~Untidy(m).tidy /\ ~Untidy(m).clean
         /\ ~m => Untidy(m) = net
         /\ Missed(m).clean <=> (net.clean /\ ~m)
         /\ Missed(m).tidy <=> (net.tidy /\ ~(m /\ net.missed))
         /\ Missed(m).missed <=> m
BY DEF Untidy, Missed

(* A packet that arrives keeps the receiver's numbers in range, and what is *)
(* reported was received.                                                   *)
LEMMA ArrivalIs ==
  ASSUME RxInv, NEW n \in Int
  PROVE  /\ rx!HighestAfter(n) \in 0 .. SeqNrs - 1
         /\ Block(n).end \in 0 .. SeqNrs - 1
         /\ Block(n).rx \subseteq Numbers(hist \cup {n})
         /\ rx!Recorded(n) \subseteq hist \cup {n}
         /\ \A l, m \in rx!Recorded(n) :
              l % kRxHistorySize = m % kRxHistorySize => l = m
<1>1. /\ highestSeqNr \in 0 .. SeqNrs - 1 /\ highestSeqNrTx \in 0 .. SeqNrs - 1
      /\ \A l, m \in hist : l % kRxHistorySize = m % kRxHistorySize => l = m
  BY DEF RxInv, rx!TypeOK
<1>2. rx!HighestAfter(n) \in 0 .. SeqNrs - 1
  <2>1. SeqNr(n) \in 0 .. SeqNrs - 1 /\ SeqNr(n - 1) \in 0 .. SeqNrs - 1
    BY NumberRange
  <2>2. rx!SeqNr(n) = SeqNr(n) /\ rx!SeqNr(n - 1) = SeqNr(n - 1)
    BY DEF rx!SeqNr, SeqNr
  <2>3. rx!HighestBefore(n) \in 0 .. SeqNrs - 1
    BY <1>1, <2>1, <2>2 DEF rx!HighestBefore
  <2> QED
    BY <2>1, <2>2, <2>3 DEF rx!HighestAfter
<1>3. Block(n).end \in 0 .. SeqNrs - 1
  <2> DEFINE hi == rx!HighestAfter(n)
             next == highestSeqNrTx + Reported
  <2>1. (next % SeqNrs) \in 0 .. SeqNrs - 1
    <3>1. next \in Int /\ SeqNrs \in Nat \ {0}
      BY <1>1, SlotsAssumption, WindowAssumption
    <3> QED
      BY <3>1, ModIs
  <2>2. Block(n).end = IF hi - highestSeqNrTx > Reported THEN (next % SeqNrs) ELSE hi
    BY DEF Block, rx!BlockEnd
  <2> HIDE DEF hi, next
  <2> QED
    BY <1>2, <2>1, <2>2 DEF hi
<1>4. rx!Recorded(n) \subseteq hist \cup {n}
  BY DEF rx!Recorded
<1>5. Block(n).rx \subseteq Numbers(rx!Recorded(n))
  BY DEF Block, rx!ReportedIn, Numbers, rx!SeqNr, SeqNr
<1>6. Block(n).rx \subseteq Numbers(hist \cup {n})
  BY <1>4, <1>5 DEF Numbers
<1>7. \A l, m \in rx!Recorded(n) : l % kRxHistorySize = m % kRxHistorySize => l = m
  BY <1>1 DEF rx!Recorded
<1> QED
  BY <1>2, <1>3, <1>4, <1>6, <1>7

LEMMA LinkInitHolds ==
  ASSUME LinkInit
  PROVE  LinkInv
<1>1. Outgoing /\ TableInv
  BY InitHolds DEF LinkInit, FlightInv
<1>2. rx!Init /\ delivered = {} /\ rtp = <<>> /\ rtcp = <<>> /\ restarts = 0
      /\ net = [clean |-> TRUE, tidy |-> TRUE, missed |-> FALSE]
  BY DEF LinkInit
<1>3. RxInv
  <2>1. SeqNrs \in Nat \ {0} /\ AckDiff \in Nat \ {0}
    BY SlotsAssumption, ReportAssumption
  <2>2. /\ highestSeqNr = 0 /\ highestSeqNrTx = 0 /\ hist = {} /\ ~doFlush
        /\ doFlush \in BOOLEAN /\ nRtpSinceLastRtcp = 0 /\ received = {}
    BY <1>2, Zenon DEF rx!Init
  <2>3. rx!TypeOK
    BY <2>1, <2>2 DEF rx!TypeOK
  <2> QED
    BY <1>2, <2>2, <2>3 DEF RxInv
<1>4. NetInv
  <2>1. MaxInTransit \in Nat /\ MaxRestarts \in Nat
    BY SessionAssumption
  <2> QED
    BY <1>2, <2>1 DEF NetInv
<1>5. Numbers(history.acked) = {}
  <2>1. history.acked = {}
    BY DEF LinkInit, Init
  <2> QED
    BY <2>1 DEF Numbers
<1> QED
  BY <1>1, <1>3, <1>4, <1>5 DEF LinkInv

(* The sender hands a packet to the network. *)
LEMMA LinkTransmitKeeps ==
  ASSUME LinkInv, NEW p \in NextPackets, LinkTransmit(p) \/ LinkTransmitAfterTimeout(p)
  PROVE  LinkInv'
<1>1. PICK timeout \in BOOLEAN : Queued(p) /\ Send(p, timeout)
  BY DEF LinkTransmit, LinkTransmitAfterTimeout, Transmit, TransmitAfterTimeout
<1>2. /\ rtp' = Queue(rtp, [n |-> p.n, mark |-> p.mark])
      /\ UNCHANGED <<rxVars, rtcp, restarts, delivered>>
      /\ \E m \in BOOLEAN : net' = Untidy(m)
  BY DEF LinkTransmit, LinkTransmitAfterTimeout, Sent
<1>3. Outgoing' /\ TableInv'
  BY <1>1, TransmitKeepsTable DEF LinkInv
<1>4. p.n \in Int /\ p.mark \in BOOLEAN
  BY <1>1, QueuedIs DEF LinkInv
<1>5. history'.acked = history.acked
  <2>1. history \in Logs
    BY DEF LinkInv, TableInv, TxState, States
  <2> QED
    BY <1>1, <2>1 DEF Send, Logs
<1>6. RxInv'
  BY <1>2 DEF LinkInv, RxInv, rxVars, rx!TypeOK
<1>7. NetInv'
  <2> DEFINE m == [n |-> p.n, mark |-> p.mark]
  <2>1. rtp \in Seq(RtpPackets) /\ m \in RtpPackets /\ Len(rtp) <= MaxInTransit
    BY <1>4 DEF LinkInv, NetInv, RtpPackets
  <2> HIDE DEF m
  <2>2. Queue(rtp, m) \in Seq(RtpPackets) /\ Len(Queue(rtp, m)) <= MaxInTransit
    BY <2>1, QueueIs
  <2>3. rtp' \in Seq(RtpPackets) /\ Len(rtp') <= MaxInTransit
    BY <1>2, <2>2 DEF m
  <2>4. net' \in [clean : BOOLEAN, tidy : BOOLEAN, missed : BOOLEAN]
    BY <1>2, NetIs DEF LinkInv, NetInv
  <2> QED
    BY <1>2, <2>3, <2>4 DEF LinkInv, NetInv
<1> QED
  BY <1>2, <1>3, <1>5, <1>6, <1>7 DEF LinkInv

(* A message is processed. *)
LEMMA LinkFeedbackKeeps ==
  ASSUME LinkInv, NEW i \in 1 .. Len(rtcp), LinkFeedback(i)
  PROVE  LinkInv'
<1> DEFINE block == rtcp[i]
           st == AfterReport(block.end, block.rx)
           edge == Max({st.log.edge} \cup st.log.acked)
<1>1. /\ Report(block.end, block.rx)
      /\ history' = [st.log EXCEPT !.edge = edge]
      /\ UNCHANGED <<lastTransmitT, now, sending, last, sent, arrivals>>
      /\ rtcp' = RemoveAt(rtcp, i)
      /\ \E m \in BOOLEAN : net' = Untidy(m) \/ net' = Missed(m)
      /\ UNCHANGED <<rxVars, rtp, restarts, delivered>>
  BY DEF LinkFeedback, LogAfter
<1>2. /\ Outgoing /\ TableInv /\ RxInv /\ NetInv
      /\ Numbers(history.acked) \subseteq Numbers(delivered)
  BY DEF LinkInv
<1>3. block.end \in Int /\ block.rx \subseteq Numbers(delivered)
  <2>1. block \in Blocks
    BY <1>2 DEF NetInv
  <2>2. block.end \in Int
    BY <2>1, SlotsAssumption DEF Blocks
  <2> QED
    BY <1>2, <2>2 DEF NetInv
<1> HIDE DEF block
<1>4. /\ st \in States /\ Table(st, Registered, now) /\ Logged(st)
      /\ st.log.edge = history.edge /\ st.log.live = history.live
      /\ \A n \in st.log.acked : n \in history.acked \/ SeqNr(n) \in block.rx
  BY <1>2, <1>3, ReportKeepsTable
<1> HIDE DEF st
<1>5. edge \in Int
  <2> DEFINE S == {st.log.edge} \cup st.log.acked
             b == IF st.log.edge >= Registered THEN st.log.edge ELSE Registered
  <2>1. S \in SUBSET Int /\ S # {} /\ Registered \in Int /\ st.log.edge \in Int
    BY <1>2, <1>4 DEF States, Logs, Outgoing, Registered
  <2>2. b \in Int /\ \A n \in S : n <= b
    BY <1>4, <2>1 DEF Table
  <2> HIDE DEF S, b
  <2>3. Max(S) \in S
    BY <2>1, <2>2, MaxOfBounded
  <2> QED
    BY <2>1, <2>3 DEF S
<1> HIDE DEF edge
<1>6. /\ history' \in Logs /\ history'.acked = st.log.acked /\ history'.lost = st.log.lost
      /\ history'.live = st.log.live
  BY <1>1, <1>4, <1>5 DEF States, Logs
<1>7. /\ TxState'.tx = st.tx /\ TxState'.bif = st.bif /\ TxState'.hi = st.hi
      /\ TxState'.timeTxAck = st.timeTxAck /\ TxState'.tsHigh = st.tsHigh
      /\ TxState'.log = history'
  BY <1>1 DEF TxState, Report, st
<1>8. Outgoing' /\ Registered' = Registered
  BY <1>1, <1>2 DEF Outgoing, Registered
<1>9. TableInv'
  <2>1. TxState' \in States
    BY <1>4, <1>6, <1>7 DEF TxState, States
  <2>2. Table(TxState', Registered', now')
    BY <1>1, <1>4, <1>6, <1>7, <1>8 DEF Table
  <2>3. Logged(TxState')
    BY <1>4, <1>6, <1>7 DEF Logged
  <2> QED
    BY <2>1, <2>2, <2>3 DEF TableInv
<1>10. RxInv'
  BY <1>1, <1>2 DEF RxInv, rxVars, rx!TypeOK
<1>11. NetInv'
  <2>1. rtcp \in Seq(Blocks) /\ Len(rtcp) <= MaxInTransit
    BY <1>2 DEF NetInv
  <2>2. /\ rtcp' \in Seq(Blocks) /\ Len(rtcp') = Len(rtcp) - 1
        /\ \A j \in 1 .. Len(rtcp) - 1 : rtcp'[j] = IF j < i THEN rtcp[j] ELSE rtcp[j + 1]
    BY <1>1, <2>1, RemoveAtIs
  <2>3. Len(rtcp) \in Nat /\ MaxInTransit \in Nat
    BY <2>1, SessionAssumption
  <2>4. \A j \in 1 .. Len(rtcp') : rtcp'[j].rx \subseteq Numbers(delivered)
    <3> SUFFICES ASSUME NEW j \in 1 .. Len(rtcp') PROVE rtcp'[j].rx \subseteq Numbers(delivered)
      OBVIOUS
    <3>1. j \in 1 .. Len(rtcp) - 1 /\ j \in 1 .. Len(rtcp) /\ j + 1 \in 1 .. Len(rtcp)
      BY <2>2, <2>3
    <3> QED
      BY <1>2, <2>2, <3>1 DEF NetInv
  <2>5. net' \in [clean : BOOLEAN, tidy : BOOLEAN, missed : BOOLEAN]
    BY <1>1, <1>2, NetIs DEF NetInv
  <2>6. Len(rtcp') <= MaxInTransit
    BY <2>1, <2>2, <2>3
  <2> QED
    BY <1>1, <1>2, <2>2, <2>4, <2>5, <2>6 DEF NetInv
<1>12. Numbers(history'.acked) \subseteq Numbers(delivered')
  BY <1>1, <1>2, <1>3, <1>4, <1>6 DEF Numbers
<1> QED
  BY <1>8, <1>9, <1>10, <1>11, <1>12 DEF LinkInv

(* A packet arrives. *)
LEMMA ArriveKeeps ==
  ASSUME LinkInv, NEW i \in 1 .. Len(rtp), NEW elapsed \in BOOLEAN, Arrive(i, elapsed)
  PROVE  LinkInv'
<1> DEFINE n == rtp[i].n
           mark == rtp[i].mark
           due == Due(mark, elapsed)
           hi == rx!HighestAfter(n)
           b == Block(n)
<1>1. /\ highestSeqNr' = hi
      /\ hist' = rx!Recorded(n)
      /\ highestSeqNrTx' = IF due THEN b.end ELSE highestSeqNrTx
      /\ doFlush' = IF due THEN b.end # hi ELSE (doFlush \/ mark)
      /\ nRtpSinceLastRtcp' = IF due THEN 0 ELSE nRtpSinceLastRtcp + 1
      /\ received' = received \cup {n} /\ delivered' = delivered \cup {n}
      /\ rtp' = RemoveAt(rtp, i)
      /\ rtcp' = IF due THEN Queue(rtcp, b) ELSE rtcp
      /\ net' = Untidy(i > 1 \/ (due /\ Len(rtcp) = MaxInTransit))
      /\ UNCHANGED <<vars, restarts>>
  BY ArriveIs
<1>2. /\ Outgoing /\ TableInv /\ RxInv /\ NetInv
      /\ Numbers(history.acked) \subseteq Numbers(delivered)
  BY DEF LinkInv
<1>3. n \in Int /\ mark \in BOOLEAN
  <2>1. rtp[i] \in RtpPackets
    BY <1>2 DEF NetInv
  <2> QED
    BY <2>1 DEF RtpPackets
<1>4. due \in BOOLEAN /\ (~due => nRtpSinceLastRtcp + 1 \in 0 .. AckDiff - 1)
  <2>1. nRtpSinceLastRtcp \in 0 .. AckDiff - 1 /\ AckDiff \in Nat \ {0}
    BY <1>2, ReportAssumption DEF RxInv, rx!TypeOK
  <2>2. due \in BOOLEAN /\ (nRtpSinceLastRtcp + 1 >= AckDiff => due)
    BY DEF Due, rx!DueAfter, rx!Due
  <2> QED
    BY <2>1, <2>2
<1> HIDE DEF n, due, mark
<1>5. /\ hi \in 0 .. SeqNrs - 1 /\ b.end \in 0 .. SeqNrs - 1
      /\ b.rx \subseteq Numbers(hist \cup {n})
      /\ rx!Recorded(n) \subseteq hist \cup {n}
      /\ \A l, m \in rx!Recorded(n) : l % kRxHistorySize = m % kRxHistorySize => l = m
  BY <1>2, <1>3, ArrivalIs
<1>6. b \in Blocks
  <2>1. b = [end |-> b.end, rx |-> b.rx]
    BY DEF Block
  <2>2. hist \cup {n} \subseteq Int
    BY <1>2, <1>3 DEF RxInv
  <2>3. Numbers(hist \cup {n}) \subseteq 0 .. SeqNrs - 1
    BY <2>2, NumberRange DEF Numbers
  <2> QED
    BY <1>5, <2>1, <2>3 DEF Blocks
<1> HIDE DEF hi, b
<1>7. RxInv'
  <2>1. rx!TypeOK'
    <3>1. highestSeqNr' \in 0 .. SeqNrs - 1 /\ highestSeqNrTx' \in 0 .. SeqNrs - 1
      BY <1>1, <1>2, <1>5 DEF RxInv, rx!TypeOK
    <3>2. \A l, m \in hist' : l % kRxHistorySize = m % kRxHistorySize => l = m
      BY <1>1, <1>5
    <3>3. doFlush' \in BOOLEAN
      <4>1. doFlush \in BOOLEAN
        BY <1>2 DEF RxInv, rx!TypeOK
      <4> QED
        BY <1>1, <1>3, <4>1
    <3>4. nRtpSinceLastRtcp' \in 0 .. AckDiff - 1
      BY <1>1, <1>4, ReportAssumption
    <3> QED
      BY <3>1, <3>2, <3>3, <3>4 DEF rx!TypeOK
  <2> QED
    BY <1>1, <1>2, <1>3, <1>5, <2>1 DEF RxInv
<1>8. NetInv'
  <2>1. rtp' \in Seq(RtpPackets) /\ Len(rtp') = Len(rtp) - 1
    BY <1>1, <1>2, RemoveAtIs DEF NetInv
  <2>2. Len(rtp') <= MaxInTransit
    <3>1. Len(rtp) \in Nat /\ Len(rtp) <= MaxInTransit /\ MaxInTransit \in Nat
      BY <1>2, SessionAssumption DEF NetInv
    <3> QED
      BY <2>1, <3>1
  <2>3. /\ rtcp \in Seq(Blocks) /\ Len(rtcp) <= MaxInTransit
        /\ \A j \in 1 .. Len(rtcp) : rtcp[j].rx \subseteq Numbers(delivered)
    BY <1>2 DEF NetInv
  <2>4. Numbers(delivered) \subseteq Numbers(delivered')
        /\ b.rx \subseteq Numbers(delivered')
    BY <1>1, <1>2, <1>5 DEF Numbers, RxInv
  <2>5. /\ rtcp' \in Seq(Blocks) /\ Len(rtcp') <= MaxInTransit
        /\ \A j \in 1 .. Len(rtcp') : rtcp'[j].rx \subseteq Numbers(delivered')
    <3>1. CASE due
      <4>1. rtcp' = Queue(rtcp, b)
        BY <1>1, <3>1
      <4>2. /\ Queue(rtcp, b) \in Seq(Blocks) /\ Len(Queue(rtcp, b)) <= MaxInTransit
            /\ \A j \in 1 .. Len(Queue(rtcp, b)) :
                 \/ j \in 1 .. Len(rtcp) /\ Queue(rtcp, b)[j] = rtcp[j]
                 \/ Queue(rtcp, b)[j] = b
        BY <1>6, <2>3, QueueIs
      <4>3. \A j \in 1 .. Len(rtcp) : rtcp[j].rx \subseteq Numbers(delivered')
        BY <2>3, <2>4, Zenon
      <4> HIDE DEF b
      <4>4. \A j \in 1 .. Len(Queue(rtcp, b)) :
              Queue(rtcp, b)[j].rx \subseteq Numbers(delivered')
        BY <2>4, <4>2, <4>3, Zenon
      <4> QED
        BY <4>1, <4>2, <4>4, Zenon
    <3>2. CASE ~due
      <4>1. rtcp' = rtcp
        BY <1>1, <3>2
      <4> QED
        BY <2>3, <2>4, <4>1
    <3> QED
      BY <3>1, <3>2
  <2>6. net' \in [clean : BOOLEAN, tidy : BOOLEAN, missed : BOOLEAN]
    <3>1. (i > 1 \/ (due /\ Len(rtcp) = MaxInTransit)) \in BOOLEAN
      OBVIOUS
    <3> QED
      BY <1>1, <1>2, <3>1, NetIs DEF NetInv
  <2> QED
    BY <1>1, <1>2, <2>1, <2>2, <2>5, <2>6 DEF NetInv
<1>9. Outgoing' /\ TableInv' /\ Numbers(history'.acked) \subseteq Numbers(delivered')
  <2>1. UNCHANGED vars
    BY <1>1
  <2>2. UNCHANGED <<txPackets, bytesInFlight, hiSeqAck, timeTxAck, timeStampAckHigh,
                    lastTransmitT, now, sending, last, sent, arrivals, history>>
    BY <2>1 DEF vars
  <2> QED
    BY <1>1, <1>2, <2>2 DEF Outgoing, TableInv, TxState, Registered, Numbers
<1> QED
  BY <1>7, <1>8, <1>9 DEF LinkInv

(* The rest: registration, losses, time and restarts. *)
LEMMA LinkOtherKeeps ==
  ASSUME LinkInv,
         \/ LinkAddTransmitted \/ LinkTick \/ LosePacket \/ LoseMessage
         \/ RestartSender \/ RestartReceiver \/ UNCHANGED linkVars
  PROVE  LinkInv'
<1>1. /\ Outgoing /\ TableInv /\ RxInv /\ NetInv
      /\ Numbers(history.acked) \subseteq Numbers(delivered)
  BY DEF LinkInv
<1>2. /\ net \in [clean : BOOLEAN, tidy : BOOLEAN, missed : BOOLEAN]
      /\ restarts \in 0 .. MaxRestarts /\ MaxRestarts \in Nat /\ MaxInTransit \in Nat
  BY <1>1, SessionAssumption DEF NetInv
<1>3. ASSUME UNCHANGED vars PROVE Outgoing' /\ TableInv' /\ UNCHANGED history
  BY <1>1, <1>3 DEF vars, Outgoing, TableInv, TxState, Registered
<1>4. ASSUME UNCHANGED <<rxVars, delivered>> PROVE RxInv'
  BY <1>1, <1>4 DEF rxVars, RxInv, rx!TypeOK
<1>5. CASE LinkAddTransmitted \/ LinkTick
  <2>1. Outgoing' /\ TableInv'
    BY <1>1, <1>5, AddTransmittedKeepsTable, TickKeepsTable DEF LinkAddTransmitted, LinkTick
  <2>2. UNCHANGED <<rxVars, rtp, rtcp, restarts, delivered, net>>
    BY <1>5 DEF LinkAddTransmitted, LinkTick
  <2>3. history'.acked = history.acked
    <3>1. history \in Logs
      BY <1>1 DEF TableInv, TxState, States
    <3> QED
      BY <1>5, <3>1 DEF LinkAddTransmitted, LinkTick, AddTransmitted, Tick, Logs
  <2>4. NetInv'
    BY <1>1, <2>2 DEF NetInv
  <2> QED
    BY <1>1, <1>4, <2>1, <2>2, <2>3, <2>4 DEF LinkInv
<1>6. CASE LosePacket
  <2>1. /\ rtp # <<>> /\ rtp' = Tail(rtp) /\ net' = Untidy(TRUE)
        /\ UNCHANGED <<vars, rxVars, rtcp, restarts, delivered>>
    BY <1>6 DEF LosePacket
  <2>2. rtp' \in Seq(RtpPackets) /\ Len(rtp') = Len(rtp) - 1
    BY <1>1, <2>1, TailIs DEF NetInv
  <2>3. Len(rtp') <= MaxInTransit
    <3>1. Len(rtp) \in Nat /\ Len(rtp) <= MaxInTransit
      BY <1>1 DEF NetInv
    <3> QED
      BY <1>2, <2>2, <3>1
  <2>4. net' \in [clean : BOOLEAN, tidy : BOOLEAN, missed : BOOLEAN]
    BY <1>2, <2>1, NetIs
  <2>5. NetInv'
    BY <1>1, <2>1, <2>2, <2>3, <2>4 DEF NetInv
  <2> QED
    BY <1>1, <1>3, <1>4, <2>1, <2>5 DEF LinkInv
<1>7. CASE LoseMessage
  <2>1. /\ rtcp # <<>> /\ rtcp' = Tail(rtcp) /\ net' = Missed(TRUE)
        /\ UNCHANGED <<vars, rxVars, rtp, restarts, delivered>>
    BY <1>7 DEF LoseMessage
  <2>2. /\ rtcp' \in Seq(Blocks) /\ Len(rtcp') = Len(rtcp) - 1
        /\ \A j \in 1 .. Len(rtcp) - 1 : rtcp'[j] = rtcp[j + 1]
    BY <1>1, <2>1, TailIs DEF NetInv
  <2>3. Len(rtcp) \in Nat /\ Len(rtcp) <= MaxInTransit
    BY <1>1 DEF NetInv
  <2>4. \A j \in 1 .. Len(rtcp') : rtcp'[j].rx \subseteq Numbers(delivered)
    <3> SUFFICES ASSUME NEW j \in 1 .. Len(rtcp') PROVE rtcp'[j].rx \subseteq Numbers(delivered)
      OBVIOUS
    <3>1. j \in 1 .. Len(rtcp) - 1 /\ j + 1 \in 1 .. Len(rtcp)
      BY <2>2, <2>3
    <3> QED
      BY <1>1, <2>2, <3>1 DEF NetInv
  <2>5. net' \in [clean : BOOLEAN, tidy : BOOLEAN, missed : BOOLEAN]
    BY <1>2, <2>1, NetIs
  <2>6. Len(rtcp') <= MaxInTransit
    BY <1>2, <2>2, <2>3
  <2>7. NetInv'
    BY <1>1, <2>1, <2>2, <2>4, <2>5, <2>6 DEF NetInv
  <2> QED
    BY <1>1, <1>3, <1>4, <2>1, <2>7 DEF LinkInv
<1>8. CASE RestartSender
  <2> DEFINE first == (Session + 1) * SeqNrs
  <2>1. /\ txPackets' = {} /\ bytesInFlight' = 0 /\ hiSeqAck' = 0 /\ timeTxAck' = 0
        /\ timeStampAckHigh' = 0 /\ lastTransmitT' = 1 /\ now' = 1 /\ sending' = <<>>
        /\ last' = [n |-> first - 1, ts |-> 0, mark |-> TRUE]
        /\ history' = [acked |-> {}, lost |-> {}, edge |-> first - 1, live |-> {}]
        /\ net' = [clean |-> rtp = <<>> /\ rtcp = <<>>, tidy |-> FALSE, missed |-> FALSE]
        /\ restarts < MaxRestarts /\ restarts' = restarts + 1
        /\ delivered' = IF rtcp = <<>> THEN received ELSE delivered
        /\ UNCHANGED <<sent, arrivals, rxVars, rtp, rtcp>>
    BY <1>8 DEF RestartSender
  <2>2. last.n \in Int /\ SeqNrs \in Nat \ {0} /\ sent \subseteq Int
        /\ (\A n \in sent : n <= last.n) /\ arrivals \in Seq(sent)
    BY <1>1, SlotsAssumption DEF Outgoing
  <2>3. first \in Int /\ last.n <= first - 1
    <3>1. /\ First \in Int /\ last.n + 1 <= First + (SeqNrs - 1)
          /\ first = First + SeqNrs
      BY <2>2, FirstIs
    <3> HIDE DEF first
    <3> QED
      BY <2>2, <3>1
  <2> HIDE DEF first
  <2>4. Outgoing' /\ Registered' = first - 1
    <3>1. sent' \subseteq Int /\ \A n \in sent' : n <= first - 1
      <4>1. \A n \in sent : n \in Int /\ n <= last.n
        BY <2>2
      <4> QED
        BY <2>1, <2>2, <2>3, <4>1
    <3>2. arrivals' \in Seq(sent')
      BY <2>1, <2>2
    <3>3. last' \in [n : Int, ts : 0 .. 1, mark : BOOLEAN] /\ last'.n = first - 1
      BY <2>1, <2>3
    <3> QED
      BY <2>1, <3>1, <3>2, <3>3 DEF Outgoing, Registered
  <2>5. TableInv'
    <3>1. /\ TxState'.tx = {} /\ TxState'.bif = 0 /\ TxState'.hi = 0
          /\ TxState'.timeTxAck = 0 /\ TxState'.tsHigh = 0
          /\ TxState'.log.acked = {} /\ TxState'.log.lost = {} /\ TxState'.log.live = {}
      BY <2>1 DEF TxState
    <3>2. TxState' \in States
      BY <2>1, <2>2, <2>3 DEF TxState, States, Logs
    <3>3. Table(TxState', Registered', now')
      BY <2>1, <3>1, FS_EmptySet DEF Table
    <3>4. Logged(TxState')
      BY <3>1 DEF Logged
    <3> QED
      BY <3>2, <3>3, <3>4 DEF TableInv
  <2>6. NetInv'
    <3>1. net' \in [clean : BOOLEAN, tidy : BOOLEAN, missed : BOOLEAN]
      BY <2>1
    <3>2. \A i \in 1 .. Len(rtcp) : rtcp[i].rx \subseteq Numbers(delivered')
      <4>1. CASE rtcp = <<>>
        BY <4>1
      <4>2. CASE rtcp # <<>>
        <5>1. delivered' = delivered
          BY <2>1, <4>2
        <5> QED
          BY <1>1, <5>1 DEF NetInv
      <4> QED
        BY <4>1, <4>2
    <3> QED
      BY <1>1, <1>2, <2>1, <3>1, <3>2 DEF NetInv
  <2>7. Numbers(history'.acked) = {}
    BY <2>1 DEF Numbers
  <2>8. RxInv'
    <3>1. rx!TypeOK'
      BY <1>1, <2>1 DEF rxVars, RxInv, rx!TypeOK
    <3>2. delivered' \in {received, delivered} /\ UNCHANGED <<received, hist>>
      BY <2>1 DEF rxVars
    <3> QED
      BY <1>1, <3>1, <3>2 DEF RxInv
  <2> QED
    BY <2>4, <2>5, <2>6, <2>7, <2>8 DEF LinkInv
<1>9. CASE RestartReceiver
  <2>1. /\ restarts < MaxRestarts /\ restarts' = restarts + 1
        /\ highestSeqNr' = 0 /\ highestSeqNrTx' = 0 /\ hist' = {}
        /\ doFlush' = FALSE /\ nRtpSinceLastRtcp' = 0 /\ received' = {}
        /\ net' = Untidy(TRUE) /\ UNCHANGED <<vars, rtp, rtcp, delivered>>
    BY <1>9 DEF RestartReceiver
  <2>2. RxInv'
    <3>1. SeqNrs \in Nat \ {0} /\ AckDiff \in Nat \ {0}
      BY SlotsAssumption, ReportAssumption
    <3>2. ~doFlush' /\ doFlush' \in BOOLEAN
      BY <2>1, Zenon
    <3>3. /\ highestSeqNr' = 0 /\ highestSeqNrTx' = 0 /\ hist' = {}
          /\ nRtpSinceLastRtcp' = 0 /\ received' = {} /\ UNCHANGED delivered
      BY <2>1, Zenon
    <3>4. rx!TypeOK'
      BY <3>1, <3>2, <3>3 DEF rx!TypeOK
    <3> QED
      BY <1>1, <3>3, <3>4 DEF RxInv
  <2>3. NetInv'
    <3>1. net' \in [clean : BOOLEAN, tidy : BOOLEAN, missed : BOOLEAN]
      BY <1>2, <2>1, NetIs
    <3>2. /\ restarts < MaxRestarts /\ restarts' = restarts + 1
          /\ UNCHANGED <<rtp, rtcp, delivered>>
      BY <2>1, Zenon
    <3> QED
      BY <1>1, <1>2, <3>1, <3>2 DEF NetInv
  <2> QED
    BY <1>1, <1>3, <2>1, <2>2, <2>3 DEF LinkInv
<1>10. CASE UNCHANGED linkVars
  <2>1. UNCHANGED <<vars, rxVars, rtp, rtcp, restarts, delivered, net>>
    BY <1>10 DEF linkVars
  <2>2. NetInv'
    BY <1>1, <2>1 DEF NetInv
  <2> QED
    BY <1>1, <1>3, <1>4, <2>1, <2>2 DEF LinkInv
<1> QED
  BY <1>5, <1>6, <1>7, <1>8, <1>9, <1>10

(* The invariant is inductive. *)
THEOREM LinkInvariant == LinkSpec => []LinkInv
<1>1. LinkInit => LinkInv
  BY LinkInitHolds
<1>2. LinkInv /\ [LinkNext]_linkVars => LinkInv'
  <2> SUFFICES ASSUME LinkInv, [LinkNext]_linkVars PROVE LinkInv'
    OBVIOUS
  <2>1. CASE \E p \in NextPackets : LinkTransmit(p) \/ LinkTransmitAfterTimeout(p)
    BY <2>1, LinkTransmitKeeps
  <2>2. CASE \E i \in 1 .. Len(rtcp) : LinkFeedback(i)
    BY <2>2, LinkFeedbackKeeps
  <2>3. CASE \E i \in 1 .. Len(rtp), elapsed \in BOOLEAN : Arrive(i, elapsed)
    BY <2>3, ArriveKeeps
  <2>4. CASE \/ LinkAddTransmitted \/ LinkTick \/ LosePacket \/ LoseMessage
             \/ RestartSender \/ RestartReceiver \/ UNCHANGED linkVars
    BY <2>4, LinkOtherKeeps
  <2> QED
    BY <2>1, <2>2, <2>3, <2>4 DEF LinkNext
<1> QED
  BY <1>1, <1>2, PTL DEF LinkSpec

(* The types of the two ends stay right over any network and any restarts.  *)
THEOREM LinkTypeCorrect == LinkSpec => []LinkTypeOK
<1>1. LinkInv => LinkTypeOK
  BY TypesFollow DEF LinkInv, RxInv, NetInv, LinkTypeOK
<1> QED
  BY <1>1, LinkInvariant, PTL

(* The packets of a session have different numbers, since it has fewer than *)
(* there are: all from its first to the last were sent.  What the sender    *)
(* keeps and acks is of its session, and nothing the network carries or has *)
(* delivered is of a later one.                                             *)
SessionInv ==
  /\ IsFiniteSet(sent) /\ Cardinality(sent) <= MaxTx
  /\ First .. last.n \subseteq sent
  /\ sending # <<>> => First <= last.n
  /\ From(TxState, First)
  /\ \A n \in delivered : n <= last.n
  /\ \A i \in 1 .. Len(rtp) : rtp[i].n <= last.n

LEMMA SessionInitHolds ==
  ASSUME LinkInit
  PROVE  SessionInv
<1>1. /\ sent = {} /\ sending = <<>> /\ delivered = {} /\ rtp = <<>>
      /\ txPackets = {} /\ history.acked = {} /\ last.n = -1
  BY SessionAssumption DEF LinkInit, Init
<1>2. IsFiniteSet(sent) /\ Cardinality(sent) <= MaxTx
  BY <1>1, FS_EmptySet, SessionAssumption
<1>3. First = 0
  <2>1. last.n + 1 = 0 /\ SeqNrs \in Nat \ {0}
    BY <1>1, SlotsAssumption
  <2>2. First = 0 - (0 % SeqNrs)
    BY <1>1, <2>1, FirstIs
  <2>3. 0 = SeqNrs * 0 + 0 /\ 0 \in 0 .. SeqNrs - 1
    BY <2>1
  <2> QED
    BY <2>1, <2>2, <2>3, ModUnique
<1>4. First .. last.n = {}
  BY <1>1, <1>3
<1>5. From(TxState, First)
  BY <1>1 DEF From, TxState
<1> QED
  BY <1>1, <1>2, <1>4, <1>5 DEF SessionInv

(* A packet more: the session has numbers for it. *)
LEMMA SessionTransmitKeeps ==
  ASSUME LinkInv, SessionInv, NEW p \in NextPackets,
         LinkTransmit(p) \/ LinkTransmitAfterTimeout(p)
  PROVE  SessionInv'
<1>1. PICK timeout \in BOOLEAN : Queued(p) /\ Send(p, timeout)
  BY DEF LinkTransmit, LinkTransmitAfterTimeout, Transmit, TransmitAfterTimeout
<1>2. /\ rtp' = Queue(rtp, [n |-> p.n, mark |-> p.mark]) /\ UNCHANGED delivered
  BY DEF LinkTransmit, LinkTransmitAfterTimeout, Sent
<1>3. /\ p.n \in Int /\ p.mark \in BOOLEAN /\ last.n \in Int /\ p.n = last.n + 1
  <2>1. p.n \in last.n + 1 .. last.n + 1 + MaxGap /\ MaxGap = 0
    BY SessionAssumption DEF NextPackets
  <2>2. last.n \in Int /\ p.n \in Int /\ p.mark \in BOOLEAN
    BY <1>1, QueuedIs DEF LinkInv
  <2> QED
    BY <2>1, <2>2
<1>4. /\ last'.n = last.n + 1 /\ sent' = sent \cup {p.n} /\ Cardinality(sent) < MaxTx
  BY <1>1, <1>3 DEF Send, Queued
<1>5. /\ IsFiniteSet(sent) /\ Cardinality(sent) \in Nat /\ First .. last.n \subseteq sent
      /\ sent \subseteq Int /\ \A n \in sent : n <= last.n
  BY FS_CardinalityType DEF SessionInv, LinkInv, Outgoing
<1>6. IsFiniteSet(sent') /\ Cardinality(sent') = Cardinality(sent) + 1
  <2>1. p.n \notin sent
    BY <1>3, <1>5
  <2> QED
    BY <1>4, <1>5, <2>1, FS_AddElement
<1>7. /\ MaxTx \in Nat /\ MaxTx < SeqNrs /\ SeqNrs \in Nat \ {0}
  BY SessionAssumption, SlotsAssumption
<1>8. /\ First \in Int /\ First = (last.n + 1) - ((last.n + 1) % SeqNrs)
      /\ First <= last.n + 1
  BY <1>3, FirstIs
<1>9. last.n + 1 - First <= Cardinality(sent)
  <2>1. Cardinality(First .. last.n) <= Cardinality(sent)
    BY <1>5, FS_Subset
  <2>2. Cardinality(First .. last.n) = IF First > last.n THEN 0 ELSE last.n - First + 1
    BY <1>3, <1>8, FS_Interval
  <2> QED
    BY <1>3, <1>5, <1>8, <2>1, <2>2
<1>10. First' = First
  <2> DEFINE m == last.n + 1
             r == (m % SeqNrs)
  <2>1. m \in Int /\ r \in 0 .. SeqNrs - 1 /\ \E q \in Int : m = SeqNrs * q + r
    BY <1>3, <1>7, ModIs
  <2>2. r + 1 \in 0 .. SeqNrs - 1
    <3>1. First = m - r /\ m - First <= Cardinality(sent)
      BY <1>3, <1>8, <1>9
    <3> HIDE DEF m, r
    <3> QED
      BY <1>4, <1>5, <1>7, <1>8, <2>1, <3>1
  <2> HIDE DEF r
  <2>3. ((m + 1) % SeqNrs) = r + 1
    <3>1. PICK q \in Int : m = SeqNrs * q + r
      BY <2>1
    <3>2. SeqNrs * q \in Int /\ m + 1 \in Int
      BY <1>7, <2>1
    <3>3. m + 1 = SeqNrs * q + (r + 1)
      <4> DEFINE x == SeqNrs * q
      <4>1. x \in Int /\ m = x + r /\ r \in Int
        BY <2>1, <3>1, <3>2
      <4> HIDE DEF x
      <4>2. m + 1 = x + (r + 1)
        BY <4>1
      <4> QED
        BY <4>2 DEF x
    <3> HIDE DEF m
    <3> QED
      BY <1>7, <2>2, <3>2, <3>3, ModUnique
  <2>4. First' = (last'.n + 1) - ((last'.n + 1) % SeqNrs)
    <3> DEFINE l == last'.n + 1
    <3>1. l \in Int
      BY <1>3, <1>4
    <3> HIDE DEF l
    <3>2. (l \div SeqNrs) * SeqNrs = l - (l % SeqNrs)
      BY <1>7, <3>1, DivIs, Zenon
    <3> QED
      BY <3>2 DEF First, Session, l
  <2>5. last'.n + 1 = m + 1 /\ First = m - r
    BY <1>4, <1>8 DEF r
  <2> HIDE DEF m
  <2>6. First' = (m + 1) - (r + 1)
    BY <2>3, <2>4, <2>5
  <2> QED
    BY <2>1, <2>5, <2>6
<1>11. First' .. last'.n \subseteq sent'
  <2>1. \A n \in First .. last.n + 1 : n \in First .. last.n \/ n = last.n + 1
    BY <1>3, <1>8
  <2> QED
    BY <1>3, <1>4, <1>5, <1>10, <2>1
<1>12. sending' # <<>> => First' <= last'.n
  BY <1>4, <1>8, <1>10
<1>13. From(TxState', First')
  <2>1. history \in Logs
    BY DEF LinkInv, TableInv, TxState, States
  <2>2. txPackets' \in {{}, txPackets} /\ history'.acked = history.acked
    BY <1>1, <2>1 DEF Send, Logs
  <2> QED
    BY <1>10, <2>2 DEF SessionInv, From, TxState
<1>14. \A n \in delivered' : n <= last'.n
  BY <1>2, <1>3, <1>4 DEF SessionInv, LinkInv, RxInv
<1>15. \A i \in 1 .. Len(rtp') : rtp'[i].n <= last'.n
  <2> DEFINE m == [n |-> p.n, mark |-> p.mark]
  <2>1. rtp \in Seq(RtpPackets) /\ m \in RtpPackets /\ Len(rtp) <= MaxInTransit
    BY <1>3 DEF LinkInv, NetInv, RtpPackets
  <2>2. m.n = last.n + 1 /\ rtp' = Queue(rtp, m)
    BY <1>2, <1>3
  <2> HIDE DEF m
  <2>3. \A j \in 1 .. Len(Queue(rtp, m)) :
          \/ j \in 1 .. Len(rtp) /\ Queue(rtp, m)[j] = rtp[j]
          \/ Queue(rtp, m)[j] = m
    BY <2>1, QueueIs
  <2>4. \A j \in 1 .. Len(rtp) : rtp[j].n <= last.n + 1
    <3> SUFFICES ASSUME NEW j \in 1 .. Len(rtp) PROVE rtp[j].n <= last.n + 1
      OBVIOUS
    <3>1. rtp[j] \in RtpPackets
      BY <2>1
    <3>2. rtp[j].n \in Int /\ rtp[j].n <= last.n
      BY <3>1 DEF RtpPackets, SessionInv
    <3> QED
      BY <1>3, <3>2
  <2> QED
    BY <1>3, <1>4, <2>2, <2>3, <2>4
<1> QED
  BY <1>4, <1>5, <1>6, <1>7, <1>11, <1>12, <1>13, <1>14, <1>15 DEF SessionInv

(* A message acks what is in the table, and that is of the session. *)
LEMMA SessionFeedbackKeeps ==
  ASSUME LinkInv, SessionInv, NEW i \in 1 .. Len(rtcp), LinkFeedback(i)
  PROVE  SessionInv'
<1> DEFINE block == rtcp[i]
           st == AfterReport(block.end, block.rx)
           edge == Max({st.log.edge} \cup st.log.acked)
<1>1. /\ Report(block.end, block.rx)
      /\ history' = [st.log EXCEPT !.edge = edge]
      /\ UNCHANGED <<sending, last, sent>> /\ UNCHANGED <<rtp, delivered>>
  BY DEF LinkFeedback, LogAfter
<1>2. block.end \in Int
  <2>1. block \in Blocks
    BY DEF LinkInv, NetInv
  <2> QED
    BY <2>1, SlotsAssumption DEF Blocks
<1> HIDE DEF block
<1>3. First \in Int /\ First' = First
  BY <1>1, FirstIs DEF LinkInv, Outgoing, First, Session
<1>4. st \in States /\ From(st, First)
  <2>1. st \in States /\ \A low \in Int : From(TxState, low) => From(st, low)
    BY <1>2, ReportKeepsTable DEF LinkInv
  <2> QED
    BY <1>3, <2>1 DEF SessionInv
<1>5. txPackets' = st.tx
  BY <1>1 DEF Report
<1> HIDE DEF st, edge
<1>6. history'.acked = st.log.acked
  BY <1>1, <1>4 DEF States, Logs
<1>7. From(TxState', First')
  BY <1>3, <1>4, <1>5, <1>6 DEF From, TxState
<1> QED
  BY <1>1, <1>3, <1>7 DEF SessionInv

(* The rest; a restart makes the next session the one with no packet yet.   *)
LEMMA SessionOtherKeeps ==
  ASSUME LinkInv, SessionInv,
         \/ LinkAddTransmitted \/ LinkTick \/ LosePacket \/ LoseMessage
         \/ RestartSender \/ RestartReceiver \/ UNCHANGED linkVars
         \/ \E i \in 1 .. Len(rtp), elapsed \in BOOLEAN : Arrive(i, elapsed)
  PROVE  SessionInv'
<1>1. /\ Outgoing /\ TableInv /\ RxInv /\ NetInv /\ last.n \in Int
      /\ SeqNrs \in Nat \ {0}
  BY SlotsAssumption DEF LinkInv, Outgoing
<1>2. ASSUME UNCHANGED <<sent, sending, last, txPackets, history>>
      PROVE  /\ IsFiniteSet(sent') /\ Cardinality(sent') <= MaxTx
             /\ First' .. last'.n \subseteq sent'
             /\ sending' # <<>> => First' <= last'.n
             /\ From(TxState', First')
  BY <1>2 DEF SessionInv, First, Session, From, TxState
<1>3. CASE LinkAddTransmitted
  <2>1. PICK p, q, kept : Added(p, q, kept)
    BY <1>1, <1>3, AddedIs DEF LinkAddTransmitted
  <2>2. /\ txPackets' = kept \cup {q} /\ kept \subseteq txPackets /\ q.n = last.n
        /\ sending # <<>> /\ sending' = <<>>
        /\ history' = [history EXCEPT !.live = @ \cup {p.n}]
        /\ UNCHANGED <<last, sent>>
    BY <2>1 DEF Added
  <2>3. history'.acked = history.acked
    <3>1. history \in Logs
      BY <1>1 DEF TableInv, TxState, States
    <3> QED
      BY <2>2, <3>1 DEF Logs
  <2>4. First' = First /\ First \in Int
    BY <1>1, <2>2, FirstIs DEF First, Session
  <2>5. From(TxState', First')
    BY <1>1, <2>2, <2>3, <2>4 DEF SessionInv, From, TxState
  <2>6. UNCHANGED <<rtp, delivered>>
    BY <1>3 DEF LinkAddTransmitted
  <2> QED
    BY <2>2, <2>4, <2>5, <2>6 DEF SessionInv
<1>4. CASE LinkTick
  <2>1. UNCHANGED <<sent, sending, last, txPackets, history, rtp, delivered>>
    BY <1>4 DEF LinkTick, Tick, txVars
  <2> QED
    BY <1>2, <2>1 DEF SessionInv
<1>5. CASE LosePacket
  <2>1. rtp # <<>> /\ rtp' = Tail(rtp) /\ UNCHANGED vars /\ UNCHANGED delivered
    BY <1>5 DEF LosePacket
  <2>2. UNCHANGED <<sent, sending, last, txPackets, history>>
    BY <2>1 DEF vars
  <2>3. \A j \in 1 .. Len(rtp') : rtp'[j].n <= last.n
    <3>1. rtp \in Seq(RtpPackets) /\ Len(rtp') = Len(rtp) - 1
          /\ \A j \in 1 .. Len(rtp) - 1 : rtp'[j] = rtp[j + 1]
      BY <1>1, <2>1, TailIs DEF NetInv
    <3> SUFFICES ASSUME NEW j \in 1 .. Len(rtp') PROVE rtp'[j].n <= last.n
      OBVIOUS
    <3>2. j \in 1 .. Len(rtp) - 1 /\ j + 1 \in 1 .. Len(rtp)
      BY <3>1
    <3> QED
      BY <3>1, <3>2 DEF SessionInv
  <2> QED
    BY <1>2, <2>1, <2>2, <2>3 DEF SessionInv
<1>6. CASE LoseMessage \/ RestartReceiver \/ UNCHANGED linkVars
  <2>1. UNCHANGED <<vars, rtp, delivered>>
    BY <1>6 DEF LoseMessage, RestartReceiver, linkVars
  <2>2. UNCHANGED <<sent, sending, last, txPackets, history>>
    BY <2>1 DEF vars
  <2> QED
    BY <1>2, <2>1, <2>2 DEF SessionInv
<1>7. CASE RestartSender
  <2> DEFINE first == (Session + 1) * SeqNrs
  <2>1. /\ txPackets' = {} /\ sending' = <<>> /\ last'.n = first - 1
        /\ history'.acked = {} /\ UNCHANGED <<sent, rtp>>
        /\ delivered' = IF rtcp = <<>> THEN received ELSE delivered
    BY <1>7 DEF RestartSender
  <2>2. First \in Int /\ last.n + 1 <= First + (SeqNrs - 1) /\ first = First + SeqNrs
    BY <1>1, FirstIs
  <2>3. First' = first
    <3> DEFINE c == Session + 1
    <3>1. last'.n + 1 = c * SeqNrs
      <4>1. first = c * SeqNrs
        OBVIOUS
      <4> HIDE DEF first, c
      <4> QED
        BY <1>1, <2>1, <2>2, <4>1
    <3>2. c \in Int
      <4>1. Session \in Int
        BY <1>1 DEF Session
      <4> QED
        BY <4>1
    <3> HIDE DEF c
    <3>3. (c * SeqNrs) \div SeqNrs = c
      BY <1>1, <3>2
    <3> QED
      BY <3>1, <3>3 DEF First, Session, c
  <2> HIDE DEF first
  <2>4. last.n <= last'.n /\ last'.n \in Int
    BY <1>1, <2>1, <2>2
  <2>5. First' .. last'.n = {}
    BY <2>1, <2>2, <2>3, <1>1
  <2>6. From(TxState', First')
    BY <2>1 DEF From, TxState
  <2>7. \A n \in delivered' : n <= last'.n
    BY <1>1, <2>1, <2>4 DEF SessionInv, RxInv
  <2>8. \A i \in 1 .. Len(rtp') : rtp'[i].n <= last'.n
    <3> SUFFICES ASSUME NEW i \in 1 .. Len(rtp) PROVE rtp[i].n <= last'.n
      BY <2>1
    <3>1. rtp[i] \in RtpPackets
      BY <1>1 DEF NetInv
    <3>2. rtp[i].n \in Int /\ rtp[i].n <= last.n
      BY <3>1 DEF RtpPackets, SessionInv
    <3> QED
      BY <1>1, <2>4, <3>2
  <2> QED
    BY <2>1, <2>5, <2>6, <2>7, <2>8 DEF SessionInv
<1>8. CASE \E i \in 1 .. Len(rtp), elapsed \in BOOLEAN : Arrive(i, elapsed)
  <2>1. PICK i \in 1 .. Len(rtp), elapsed \in BOOLEAN : Arrive(i, elapsed)
    BY <1>8
  <2>2. /\ delivered' = delivered \cup {rtp[i].n} /\ rtp' = RemoveAt(rtp, i)
        /\ UNCHANGED vars
    BY <2>1 DEF Arrive
  <2>3. UNCHANGED <<sent, sending, last, txPackets, history>>
    BY <2>2 DEF vars
  <2>4. /\ rtp \in Seq(RtpPackets) /\ Len(rtp') = Len(rtp) - 1
        /\ \A j \in 1 .. Len(rtp) - 1 : rtp'[j] = IF j < i THEN rtp[j] ELSE rtp[j + 1]
    BY <1>1, <2>2, RemoveAtIs DEF NetInv
  <2>5. \A j \in 1 .. Len(rtp') : rtp'[j].n <= last.n
    <3> SUFFICES ASSUME NEW j \in 1 .. Len(rtp') PROVE rtp'[j].n <= last.n
      OBVIOUS
    <3>1. j \in 1 .. Len(rtp) - 1 /\ j \in 1 .. Len(rtp) /\ j + 1 \in 1 .. Len(rtp)
      BY <2>4
    <3> QED
      BY <2>4, <3>1 DEF SessionInv
  <2>6. \A n \in delivered' : n <= last.n
    BY <2>2 DEF SessionInv
  <2> QED
    BY <1>2, <2>3, <2>5, <2>6 DEF SessionInv
<1> QED
  BY <1>3, <1>4, <1>5, <1>6, <1>7, <1>8

THEOREM SessionInvariant == LinkSpec => [](LinkInv /\ SessionInv)
<1>1. LinkInit => SessionInv
  BY SessionInitHolds
<1>2. LinkInv /\ SessionInv /\ [LinkNext]_linkVars => SessionInv'
  <2> SUFFICES ASSUME LinkInv, SessionInv, [LinkNext]_linkVars PROVE SessionInv'
    OBVIOUS
  <2>1. CASE \E p \in NextPackets : LinkTransmit(p) \/ LinkTransmitAfterTimeout(p)
    BY <2>1, SessionTransmitKeeps
  <2>2. CASE \E i \in 1 .. Len(rtcp) : LinkFeedback(i)
    BY <2>2, SessionFeedbackKeeps
  <2>3. CASE \/ LinkAddTransmitted \/ LinkTick \/ LosePacket \/ LoseMessage
             \/ RestartSender \/ RestartReceiver \/ UNCHANGED linkVars
             \/ \E i \in 1 .. Len(rtp), elapsed \in BOOLEAN : Arrive(i, elapsed)
    BY <2>3, SessionOtherKeeps
  <2> QED
    BY <2>1, <2>2, <2>3 DEF LinkNext
<1> QED
  BY <1>1, <1>2, LinkInvariant, PTL DEF LinkSpec

(* The sender takes no packet for received that no receiver got, through    *)
(* holes and overwritten slots of the history and restarts of either side;  *)
(* but for a packet whose number one of an earlier session had that was     *)
(* received and of which reports may still tell.                            *)
THEOREM AckedCorrectOverLink == LinkSpec => []AckedWereReceived
<1>1. ASSUME LinkInv, SessionInv PROVE AckedWereReceived
  <2> SUFFICES ASSUME NEW n \in history.acked
               PROVE  \/ n \in delivered
                      \/ \E m \in delivered : SeqNr(m) = SeqNr(n) /\ m < First
    BY DEF AckedWereReceived, First
  <2>1. PICK m \in delivered : SeqNr(m) = SeqNr(n)
    BY <1>1 DEF LinkInv, Numbers
  <2>2. /\ last.n \in Int /\ n \in Int /\ m \in Int /\ SeqNrs \in Nat \ {0}
        /\ Registered \in Int /\ Registered <= last.n
    BY <1>1, SlotsAssumption
    DEF LinkInv, Outgoing, TableInv, TxState, States, Logs, RxInv, Registered
  <2>3. First \in Int /\ last.n + 1 <= First + (SeqNrs - 1)
    BY <2>2, FirstIs
  <2>4. First <= n /\ n <= last.n
    <3>1. n <= Registered
      BY <1>1 DEF LinkInv, TableInv, Table, TxState
    <3>2. First <= n
      BY <1>1 DEF SessionInv, From, TxState
    <3> QED
      BY <2>2, <3>1, <3>2
  <2>5. CASE m < First
    BY <2>1, <2>5
  <2>6. CASE First <= m
    <3>1. m <= last.n
      BY <1>1 DEF SessionInv
    <3>2. ~ (m < n) /\ ~ (n < m)
      <4>1. (n % SeqNrs) = (m % SeqNrs)
        BY <2>1 DEF SeqNr
      <4>2. m < n => n - m >= SeqNrs
        BY <2>2, <4>1, SameResidue
      <4>3. n < m => m - n >= SeqNrs
        BY <2>2, <4>1, SameResidue
      <4> QED
        BY <2>2, <2>3, <2>4, <2>6, <3>1, <4>2, <4>3
    <3>3. m = n
      BY <2>2, <3>2
    <3> QED
      BY <3>3
  <2>7. m < First \/ First <= m
    BY <2>2, <2>3
  <2> QED
    BY <2>5, <2>6, <2>7, Zenon
<1> QED
  BY <1>1, SessionInvariant, PTL

(* And none for both acked and lost, whatever order the messages come in.   *)
THEOREM LinkAckedCorrect == LinkSpec => []AckedNeverLost
<1>1. LinkInv => AckedNeverLost
  BY DEF LinkInv, TableInv, Logged, AckedNeverLost, TxState
<1> QED
  BY <1>1, LinkInvariant, PTL
-----------------------------------------------------------------------------
(* A tidy network: the sender's first session, its packets all delivered in *)
(* order, and no two messages in a row missed.  Sequence numbers are places *)
(* then, and a report acks all packets up to its end.                       *)

LEMMA FirstNumbers ==
  ASSUME NEW n \in 0 .. SeqNrs - 1
  PROVE  SeqNr(n) = n
<1>1. SeqNrs \in Nat \ {0}
  BY SlotsAssumption
<1> QED
  BY <1>1, SmallResidue DEF SeqNr

(* Where every counted packet up to r is acked, detectLoss frees those and   *)
(* no other, and none is lost.                                              *)
LEMMA DetectLossClean ==
  ASSUME NEW st \in States, NEW top \in Int, NEW t \in Nat, Table(st, top, t),
         NEW h \in Int, NEW r \in Int, InFlight(st, h, r),
         top - h < Span, top - r <= Span, r - h <= Span,
         \A p \in st.tx : ~p.afterEdge /\ (p.n <= r => p.acked)
  PROVE  LET d == DetectLoss(st, SeqNr(r))
         IN  /\ d.tx = {p \in st.tx : p.n > r}
             /\ d.log.lost = st.log.lost /\ d.log.acked = st.log.acked
<1> DEFINE d == DetectLoss(st, SeqNr(r))
           P == Passed(st, SeqNr(r))
<1>0. /\ P = {p \in Counted(st.tx) : p.n <= r}
      /\ \A p \in Counted(st.tx) : /\ p \notin Stripped(st, SeqNr(r))
                                   /\ p.n > r => ~IsLate(st, p)
  <2>1. top - h < Span /\ top - r <= Span /\ r - h <= Span
    OBVIOUS
  <2> QED
    BY <2>1, DetectLossCounts
<1> DEFINE hi == SeqNr(r)
           L == Left(st, hi)
<1>1. /\ d.tx = {Passing(p, P) : p \in L}
      /\ d.log.lost = st.log.lost \cup {p.n : p \in Lost(st, hi)}
      /\ d.log.acked = st.log.acked
  BY NumberIs, DetectLossIs
<1>3. Counted(st.tx) = st.tx /\ \A p \in st.tx : p \in Packets /\ p.n \in Int
  BY DEF Counted, States, Packets
<1> HIDE DEF d
<1>4. P = {p \in st.tx : p.n <= r}
  BY <1>0, <1>3
<1>5. ASSUME NEW p \in st.tx, p.n <= r PROVE p \in Seen(st, hi) /\ p.acked
  <2>1. p \in P
    BY <1>4, <1>5
  <2> QED
    BY <1>5, <2>1 DEF Passed
<1>6. ASSUME NEW p \in st.tx PROVE p \notin Stripped(st, hi) /\ ~IsLate(st, p)
  <2>1. p \notin Stripped(st, hi) /\ (p.n > r => ~IsLate(st, p))
    BY <1>0, <1>3
  <2>2. p.n <= r => p.acked
    OBVIOUS
  <2>3. p.n <= r \/ p.n > r
    BY <1>3
  <2> QED
    BY <2>1, <2>2, <2>3 DEF IsLate
<1>7. Lost(st, hi) = {}
  <2>1. Stripped(st, hi) \subseteq st.tx /\ Late(st, hi) \subseteq st.tx
    BY DEF Stripped, Late, Seen
  <2>2. \A p \in Late(st, hi) : IsLate(st, p)
    BY DEF Late
  <2> QED
    BY <1>6, <2>1, <2>2 DEF Lost
<1>8. L = {p \in st.tx : p.n > r}
  <2>1. L \subseteq st.tx
    BY DEF Left
  <2>2. ASSUME NEW p \in L PROVE p.n > r
    <3>1. p \in st.tx /\ ~ (p \in Seen(st, hi) /\ p.acked) /\ p.n \in Int
      BY <1>3, <2>1 DEF Left
    <3> QED
      BY <1>5, <3>1
  <2>3. ASSUME NEW p \in st.tx, p.n > r PROVE p \in L
    <3>1. ~p.acked
      <4>1. p \in Counted(st.tx)
        BY <1>3
      <4> QED
        BY <1>3, <2>3, <4>1 DEF InFlight
    <3>2. p \notin Late(st, hi)
      BY <1>6 DEF Late
    <3> QED
      BY <1>6, <3>1, <3>2 DEF Left
  <2> QED
    BY <2>1, <2>2, <2>3
<1>9. \A p \in L : Passing(p, P) = p
  <2>1. \A p \in L : p \notin P
    BY <1>3, <1>4, <1>8
  <2> QED
    BY <2>1 DEF Passing
<1> HIDE DEF L, P
<1>10. d.tx = L
  BY <1>1, <1>9
<1> QED
  BY <1>1, <1>7, <1>8, <1>10 DEF d

(* While no number is used twice, an ack is for the packet of that place. *)
LEMMA AckClean ==
  ASSUME NEW st \in States, \A p \in st.tx : p.n \in 0 .. SeqNrs - 1,
         NEW r \in 0 .. SeqNrs - 1
  PROVE  LET a == MarkAcked(st, r)
         IN  /\ a.log.lost = st.log.lost
             /\ st.log.acked \subseteq a.log.acked /\ a.log.acked \subseteq st.log.acked \cup {r}
             /\ r \in a.log.acked \ st.log.acked => \E p \in st.tx : p.n = r
             /\ (\E p \in st.tx : p.n = r /\ ~p.acked) => r \in a.log.acked
             /\ \A q \in a.tx : \E p \in st.tx : q.n = p.n /\ q.afterEdge = p.afterEdge
             /\ \A p \in st.tx : \E q \in a.tx : q.n = p.n
<1> DEFINE new == NewlyAcked(st, r)
           p == CHOOSE x \in new : TRUE
           a == MarkAcked(st, r)
<1>1. new = {x \in st.tx : x.n = r /\ ~x.acked}
  <2>1. \A x \in st.tx : SeqNr(x.n) = x.n
    BY FirstNumbers
  <2> QED
    BY <2>1 DEF NewlyAcked
<1>2. CASE new = {}
  <2>1. a = st
    BY <1>2 DEF MarkAcked
  <2> HIDE DEF a
  <2> QED
    BY <1>1, <1>2, <2>1 DEF a
<1>3. CASE new # {}
  <2> DEFINE q == [p EXCEPT !.acked = TRUE]
  <2>1. a = AckOf(st, p)
    BY <1>3 DEF MarkAcked
  <2>2. p \in new
    BY <1>3
  <2> HIDE DEF p, new
  <2>3. p \in st.tx /\ p.n = r /\ ~p.acked
    BY <1>1, <2>2
  <2>0. LET b == AckOf(st, p)
            x == [p EXCEPT !.acked = TRUE]
        IN  /\ b.tx = (st.tx \ {p}) \cup {x}
            /\ b.log.acked = st.log.acked \cup {p.n} /\ b.log.lost = st.log.lost
            /\ x.n = p.n /\ x.afterEdge = p.afterEdge
    BY <2>3, AckOfIs
  <2>4. /\ a.tx = (st.tx \ {p}) \cup {q}
        /\ a.log.acked = st.log.acked \cup {p.n} /\ a.log.lost = st.log.lost
        /\ q.n = p.n /\ q.afterEdge = p.afterEdge
    BY <2>0, <2>1, Zenon
  <2> HIDE DEF a, q
  <2>5. \A x \in a.tx : \E y \in st.tx : x.n = y.n /\ x.afterEdge = y.afterEdge
    BY <2>3, <2>4
  <2>6. \A x \in st.tx : \E y \in a.tx : y.n = x.n
    BY <2>3, <2>4
  <2>7. \E x \in st.tx : x.n = r
    BY <2>3
  <2>8. a.log.acked = st.log.acked \cup {r} /\ a.log.lost = st.log.lost
    BY <2>3, <2>4
  <2>9. /\ st.log.acked \subseteq a.log.acked
        /\ a.log.acked \subseteq st.log.acked \cup {r} /\ r \in a.log.acked
    BY <2>8
  <2> QED
    BY <2>5, <2>6, <2>7, <2>8, <2>9, Zenon DEF a
<1> QED
  BY <1>2, <1>3

(* The last packet acked when the elements up to r are processed. *)
AckedTo(r) ==
  IF r <= history.edge THEN history.edge
  ELSE IF r <= Registered THEN r ELSE Registered

(* All up to s are acked, none lost, and the table holds those after s. *)
Progress(st, s) ==
  /\ st.log.lost = {} /\ st.log.acked = 0 .. s
  /\ \A p \in st.tx : ~p.afterEdge /\ history.edge < p.n
  /\ \A n \in s + 1 .. Registered : \E p \in st.tx : p.n = n

LEMMA ElementClean ==
  ASSUME NEW end, InReach(end), end < SeqNrs, NEW r \in 0 .. end, end - Reported < r,
         -1 <= history.edge, history.edge <= Registered, Registered < SeqNrs,
         NEW st, Processed(st, end, r - 1), Progress(st, AckedTo(r - 1)),
         NEW isLast \in BOOLEAN
  PROVE  Progress(Element(st, r, isLast), AckedTo(r))
<1> DEFINE a == MarkAcked(st, r)
           d == DetectLoss(a, r)
           s == AckedTo(r)
<1>1. /\ st \in States /\ Table(st, Registered, now) /\ Logged(st)
      /\ Registered \in Int /\ now \in Nat /\ end \in Int /\ r \in Int
      /\ history.edge \in Int /\ SeqNrs \in Nat
  BY SpanIs DEF Processed, InReach
<1>2. r \in 0 .. SeqNrs - 1 /\ SeqNr(r) = r
  BY <1>1, FirstNumbers
<1>3. \A p \in st.tx : p.n \in 0 .. SeqNrs - 1 /\ p.n <= Registered /\ history.edge < p.n
  <2>1. \A p \in st.tx : p.n \in Int /\ p.n <= Registered /\ history.edge < p.n
    BY <1>1 DEF States, Packets, Table, Progress
  <2> QED
    BY <1>1, <2>1
<1>4. PICK h \in Int : h > history.edge - MaxBack - Reported /\ InFlight(st, h, r - 1)
  BY DEF Processed
<1>5. InFlight(st, h, r)
  BY <1>1, <1>4, LaterElement
<1>6. /\ Registered - h < Span /\ Registered - r <= Span /\ r - h <= Span
      /\ Registered - r < SeqNrs
  BY <1>1, <1>4, SpanIs DEF InReach
<1>7. /\ a \in States /\ Table(a, Registered, now) /\ Logged(a) /\ InFlight(a, h, r)
  <2>1. LET b == MarkAcked(st, SeqNr(r))
        IN  b \in States /\ Table(b, Registered, now) /\ Logged(b) /\ InFlight(b, h, r)
    BY <1>1, <1>5, <1>6, AckKeeps
  <2> QED
    BY <1>2, <2>1
<1>8. /\ a.log.lost = st.log.lost
      /\ st.log.acked \subseteq a.log.acked /\ a.log.acked \subseteq st.log.acked \cup {r}
      /\ r \in a.log.acked \ st.log.acked => \E p \in st.tx : p.n = r
      /\ (\E p \in st.tx : p.n = r /\ ~p.acked) => r \in a.log.acked
      /\ \A q \in a.tx : \E p \in st.tx : q.n = p.n /\ q.afterEdge = p.afterEdge
      /\ \A p \in st.tx : \E q \in a.tx : q.n = p.n
  BY <1>1, <1>2, <1>3, AckClean
<1> HIDE DEF a
<1>9. /\ s \in Int /\ history.edge <= s /\ s <= Registered
      /\ \A n \in Int : n <= r /\ n <= Registered /\ history.edge < n => n <= s
      /\ \A n \in s + 1 .. Registered : r < n
  BY <1>1 DEF AckedTo
<1>10. a.log.acked = 0 .. s
  <2>1. st.log.acked = 0 .. AckedTo(r - 1)
    BY DEF Progress
  <2>2. CASE r <= history.edge
    <3>1. AckedTo(r - 1) = history.edge /\ s = history.edge
      BY <1>1, <2>2 DEF AckedTo
    <3>2. r \in 0 .. history.edge
      BY <1>1, <2>2
    <3> QED
      BY <1>8, <2>1, <3>1, <3>2
  <2>3. CASE history.edge < r /\ r <= Registered
    <3>1. AckedTo(r - 1) = r - 1 /\ s = r
      BY <1>1, <2>3 DEF AckedTo
    <3>2. PICK p \in st.tx : p.n = r
      <4>1. r \in AckedTo(r - 1) + 1 .. Registered
        BY <1>1, <2>3, <3>1
      <4> QED
        BY <4>1 DEF Progress
    <3>3. ~p.acked
      <4>1. r \notin 0 .. r - 1
        BY <1>1
      <4> QED
        BY <1>1, <2>1, <3>1, <3>2, <4>1 DEF Logged
    <3>4. r \in a.log.acked
      BY <1>8, <3>2, <3>3
    <3>5. 0 .. r = (0 .. r - 1) \cup {r}
      BY <1>1
    <3> QED
      BY <1>8, <2>1, <3>1, <3>4, <3>5
  <2>4. CASE Registered < r
    <3>1. AckedTo(r - 1) = Registered /\ s = Registered
      BY <1>1, <2>4 DEF AckedTo
    <3>2. ~ \E p \in st.tx : p.n = r
      BY <1>1, <1>3, <2>4
    <3> QED
      BY <1>8, <2>1, <3>1, <3>2
  <2> QED
    BY <1>1, <2>2, <2>3, <2>4
<1>11. \A q \in a.tx : ~q.afterEdge /\ history.edge < q.n
  BY <1>8 DEF Progress
<1>12. \A n \in s + 1 .. Registered : \E q \in a.tx : q.n = n
  <2> SUFFICES ASSUME NEW n \in s + 1 .. Registered PROVE \E q \in a.tx : q.n = n
    OBVIOUS
  <2>1. n \in AckedTo(r - 1) + 1 .. Registered
    BY <1>1 DEF AckedTo
  <2>2. PICK p \in st.tx : p.n = n
    BY <2>1 DEF Progress
  <2> QED
    BY <1>8, <2>2
<1> HIDE DEF s
<1>13. Progress(a, s)
  BY <1>8, <1>10, <1>11, <1>12 DEF Progress
<1>14. Progress(d, s)
  <2>1. \A q \in a.tx : ~q.afterEdge /\ (q.n <= r => q.acked)
    <3> SUFFICES ASSUME NEW q \in a.tx, q.n <= r PROVE q.acked
      BY <1>11
    <3>1. q.n \in Int /\ q.n <= Registered /\ history.edge < q.n
      BY <1>7, <1>11 DEF States, Packets, Table
    <3>2. q.n \in 0 .. s
      BY <1>1, <1>9, <3>1
    <3> QED
      BY <1>7, <1>10, <3>2 DEF Logged
  <2>2. LET e == DetectLoss(a, SeqNr(r))
        IN  /\ e.tx = {q \in a.tx : q.n > r}
            /\ e.log.lost = a.log.lost /\ e.log.acked = a.log.acked
    BY <1>1, <1>6, <1>7, <2>1, DetectLossClean
  <2>3. /\ d.tx = {q \in a.tx : q.n > r}
        /\ d.log.lost = a.log.lost /\ d.log.acked = a.log.acked
    BY <1>2, <2>2
  <2> HIDE DEF d
  <2>4. \A n \in s + 1 .. Registered : \E q \in d.tx : q.n = n
    <3> SUFFICES ASSUME NEW n \in s + 1 .. Registered PROVE \E q \in d.tx : q.n = n
      OBVIOUS
    <3>1. PICK q \in a.tx : q.n = n
      BY <1>12
    <3>2. n > r
      BY <1>1, <1>9
    <3> QED
      BY <2>3, <3>1, <3>2
  <2> QED
    BY <1>13, <2>3, <2>4 DEF Progress
<1>15. Element(st, r, isLast) \in {a, d}
  BY DEF Element, a
<1> QED
  BY <1>13, <1>14, <1>15 DEF s

(* The numbers a report that ends at end has as received. *)
ReportOf(end) == {n \in 0 .. end : n > end - Reported}

LEMMA ReportClean ==
  ASSUME NEW end, InReach(end), end \in 0 .. SeqNrs - 1,
         -1 <= history.edge, history.edge <= Registered, Registered < SeqNrs,
         Processed(TxState, end, end - Reported), Progress(TxState, history.edge),
         end - Reported <= history.edge, ~Ignored(end)
  PROVE  LET st == AfterReport(end, ReportOf(end))
         IN  Processed(st, end, end) /\ Settled(st, end) /\ Progress(st, AckedTo(end))
<1> DEFINE R == ReportOf(end)
           at(i) == (end - Reported) + i
<1>1. PICK f : /\ Run(f, end, R)
               /\ AfterReport(end, R) = IF Ignored(end) THEN TxState ELSE f[Reported]
  BY AfterReportIs, Zenon
<1>2. /\ end \in Int /\ SeqNr(end) = end /\ Reported \in Nat \ {0} /\ Reported < SeqNrs
      /\ SeqNrs \in Nat \ {0} /\ history.edge \in Int /\ Registered \in Int
  <2>1. Reported < SeqNrs
    BY SpanIs
  <2> QED
    BY <2>1, FirstNumbers, SpanIs DEF InReach
<1>3. /\ \A i \in 0 .. Reported : Processed(f[i], end, at(i))
      /\ Settled(f[Reported], end)
  <2>1. SeqNr(end) \in R
    BY <1>2 DEF ReportOf
  <2>2. Run(f, SeqNr(end), R)
    BY <1>1, <1>2
  <2> HIDE DEF R
  <2> QED
    BY <2>1, <2>2, RunKeeps
<1>4. ASSUME NEW i \in 1 .. Reported, Progress(f[i - 1], AckedTo(at(i - 1)))
      PROVE  Progress(f[i], AckedTo(at(i)))
  <2> DEFINE r == at(i)
             sn == (end - Reported + i) % SeqNrs
             isLast == i = Reported
  <2>1. /\ r \in Int /\ end - Reported < r /\ r <= end /\ at(i - 1) = r - 1
        /\ i - 1 \in 0 .. Reported /\ i \in Int
    BY <1>2
  <2>2. f[i] = IF sn \in R THEN Element(f[i - 1], sn, isLast) ELSE f[i - 1]
    BY <1>1 DEF Run, Step
  <2>3. sn = SeqNr(r)
    <3>1. (SeqNr(end) - Reported + i) % SeqNrs = SeqNr(r)
      BY <1>2, <2>1, ElementNumber
    <3> QED
      BY <1>2, <3>1
  <2>4. Processed(f[i - 1], end, r - 1) /\ Progress(f[i - 1], AckedTo(r - 1))
    BY <1>3, <1>4, <2>1
  <2>5. isLast \in BOOLEAN
    OBVIOUS
  <2> HIDE DEF r, sn, R, isLast
  <2>6. CASE r < 0
    <3>1. sn \notin R
      <4>1. SeqNrs + r \in 0 .. SeqNrs - 1 /\ SeqNrs + r > end
        BY <1>2, <2>1, <2>6
      <4>2. SeqNr(r) = SeqNrs + r
        <5>1. r = SeqNrs * (0 - 1) + (SeqNrs + r)
          BY <1>2, <2>1
        <5> QED
          BY <1>2, <2>1, <4>1, <5>1, ModUnique DEF SeqNr
      <4> QED
        BY <1>2, <2>3, <4>1, <4>2 DEF R, ReportOf
    <3>2. AckedTo(r) = AckedTo(r - 1)
      BY <1>2, <2>1, <2>6 DEF AckedTo
    <3>3. Progress(f[i], AckedTo(r))
      BY <2>2, <2>4, <3>1, <3>2
    <3> QED
      BY <3>3 DEF r
  <2>7. CASE r >= 0
    <3>1. r \in 0 .. end /\ r \in 0 .. SeqNrs - 1
      BY <1>2, <2>1, <2>7
    <3>2. sn = r /\ sn \in R
      BY <1>2, <2>1, <2>3, <3>1, FirstNumbers DEF R, ReportOf
    <3>3. f[i] = Element(f[i - 1], r, isLast)
      BY <2>2, <3>2
    <3>4. end < SeqNrs
      BY <1>2
    <3>5. Progress(Element(f[i - 1], r, isLast), AckedTo(r))
      BY <2>1, <2>4, <2>5, <3>1, <3>4, ElementClean
    <3>6. Progress(f[i], AckedTo(r))
      BY <3>3, <3>5
    <3> QED
      BY <3>6 DEF r
  <2> QED
    BY <2>1, <2>6, <2>7
<1>5. Progress(f[0], AckedTo(at(0)))
  <2>1. f[0] = TxState
    BY <1>1 DEF Run
  <2>2. AckedTo(at(0)) = history.edge
    BY <1>2 DEF AckedTo
  <2> QED
    BY <2>1, <2>2
<1>6. \A i \in 0 .. Reported : Progress(f[i], AckedTo(at(i)))
  <2> DEFINE S == {i \in 0 .. Reported : Progress(f[i], AckedTo(at(i)))}
  <2>1. 0 \in S
    BY <1>2, <1>5
  <2>2. \A i \in 1 .. Reported : i - 1 \in S => i \in S
    BY <1>2, <1>4
  <2> HIDE DEF S
  <2>3. \A i \in 0 .. Reported : i \in S
    BY <1>2, <2>1, <2>2, UpTo
  <2> QED
    BY <2>3 DEF S
<1>7. at(Reported) = end /\ Reported \in 0 .. Reported
  BY <1>2
<1> HIDE DEF R, at
<1>8. /\ Processed(f[Reported], end, end) /\ Settled(f[Reported], end)
      /\ Progress(f[Reported], AckedTo(end))
  BY <1>3, <1>6, <1>7
<1>9. AfterReport(end, R) = f[Reported]
  BY <1>1
<1> QED
  BY <1>8, <1>9 DEF R

(* The sender on a tidy network: all up to the edge are acked, the rest is  *)
(* in the table, in flight, and nothing is lost.                            *)
SenderTidy ==
  /\ -1 <= history.edge /\ history.edge <= Registered
  /\ last.n <= history.edge + MaxAhead /\ last.n < MaxTx
  /\ sent = 0 .. last.n
  /\ hiSeqAck \in {history.edge, history.edge + 1}
  /\ bytesInFlight = Bytes(txPackets)
  /\ \A p \in txPackets : ~p.acked /\ timeTxAck <= p.timeTx
  /\ Progress(TxState, history.edge)

LEMMA SenderTypes ==
  ASSUME Outgoing, TableInv, SenderTidy
  PROVE  /\ last.n \in Int /\ Registered \in Int /\ history.edge \in Int
         /\ Registered <= last.n /\ -1 <= last.n /\ last.n < SeqNrs
         /\ sending = <<>> => Registered = last.n
         /\ sending # <<>> => Registered = last.n - 1
         /\ SeqNrs \in Nat \ {0} /\ MaxTx \in Nat /\ MaxAhead \in Nat /\ MaxBack \in Nat
         /\ Reported \in Nat \ {0} /\ MaxTx < SeqNrs
<1>1. last.n \in Int
  BY DEF Outgoing
<1>2. history.edge \in Int
  BY DEF TableInv, TxState, States, Logs
<1>3. /\ MaxTx \in Nat /\ MaxTx < SeqNrs /\ SeqNrs \in Nat \ {0}
      /\ MaxAhead \in Nat /\ MaxBack \in Nat /\ Reported \in Nat \ {0}
  BY SessionAssumption, SpanIs
<1>4. Registered = IF sending = <<>> THEN last.n ELSE last.n - 1
  BY DEF Registered
<1>5. -1 <= history.edge /\ history.edge <= Registered /\ last.n < MaxTx
  BY DEF SenderTidy
<1> HIDE DEF Registered
<1> QED
  BY <1>1, <1>2, <1>3, <1>4, <1>5

LEMMA TidyFlight ==
  ASSUME Outgoing, TableInv, SenderTidy
  PROVE  FlightInv
<1> DEFINE edge == history.edge
           h == hiSeqAck
<1>1. /\ last.n \in Int /\ Registered \in Int /\ edge \in Int /\ Registered <= last.n
      /\ sending # <<>> => Registered = last.n - 1
      /\ SeqNrs \in Nat \ {0} /\ MaxAhead \in Nat /\ MaxBack \in Nat
  BY SenderTypes
<1>2. /\ -1 <= edge /\ edge <= Registered /\ last.n <= edge + MaxAhead
      /\ h \in {edge, edge + 1} /\ bytesInFlight = Bytes(txPackets)
      /\ \A p \in txPackets : ~p.acked /\ timeTxAck <= p.timeTx
      /\ Progress(TxState, edge)
  BY DEF SenderTidy
<1>3. h \in 0 .. SeqNrs - 1 /\ txPackets \in SUBSET Packets
  BY DEF TableInv, TxState, States
<1>4. TxState.tx = txPackets /\ TxState.hi = h /\ TxState.bif = bytesInFlight
      /\ TxState.timeTxAck = timeTxAck /\ TxState.log = history
  BY DEF TxState
<1>5. \A p \in txPackets : ~p.afterEdge /\ edge < p.n /\ p.n \in Int
  BY <1>2, <1>3, <1>4 DEF Progress, Packets
<1>6. Counted(txPackets) = txPackets
  BY <1>5 DEF Counted
<1> HIDE DEF edge, h
<1>7. Settled(TxState, h)
  <2>1. SeqNr(h) = h
    BY <1>3, FirstNumbers
  <2>2. \A p \in txPackets : h <= p.n
    BY <1>1, <1>2, <1>3, <1>5
  <2> QED
    BY <1>2, <1>4, <1>6, <2>1, <2>2 DEF Settled
<1>8. EdgeInv
  <2>1. h \in Int /\ edge - MaxBack <= h /\ h <= edge + 1
    BY <1>1, <1>2, <1>3
  <2>2. sending # <<>> => h <= last.n
    BY <1>1, <1>2, <2>1
  <2>3. edge <= last.n
    BY <1>1, <1>2
  <2> QED
    BY <1>2, <1>7, <2>1, <2>2, <2>3 DEF EdgeInv, edge
<1>9. LiveInv
  <2> SUFFICES ASSUME NEW n \in history.live, n > edge
               PROVE  \E p \in Counted(txPackets) : p.n = n
    BY DEF LiveInv, edge
  <2>1. n \in Int /\ n <= Registered
    BY <1>4 DEF TableInv, Table, States, Logs, TxState
  <2>2. n \in edge + 1 .. Registered
    BY <1>1, <2>1
  <2> QED
    BY <1>2, <1>4, <1>6, <2>2 DEF Progress
<1> QED
  BY <1>8, <1>9 DEF FlightInv

(* What the receiver then has: all up to Top, the last packet not in the    *)
(* network, of which the history holds the last ones; and its messages in   *)
(* the network, which begin where the last one the sender got, or missed,   *)
(* ended, and each of which goes on for AckDiff packets at most.            *)
Top == last.n - Len(rtp)
KnownAs(n) == IF n = -1 THEN 0 ELSE n

ReceiverTidy ==
  /\ Top >= -1 /\ received = 0 .. Top
  /\ \A i \in 1 .. Len(rtp) : rtp[i].n = Top + i
  /\ hist = {m \in 0 .. Top : m > Top - kRxHistorySize}
  /\ highestSeqNr = KnownAs(Top) /\ ~doFlush
  /\ highestSeqNrTx = KnownAs(Top - nRtpSinceLastRtcp)
  /\ \A i \in 1 .. Len(rtcp) : rtcp[i].rx = ReportOf(rtcp[i].end)

EndOf(b, i) == IF i = 0 THEN b ELSE rtcp[i].end

Chain(b) ==
  /\ -1 <= b /\ b <= Top
  /\ IF net.missed THEN b - history.edge \in 0 .. AckDiff ELSE b = history.edge
  /\ \A i \in 1 .. Len(rtcp) : /\ EndOf(b, i) - EndOf(b, i - 1) \in 1 .. AckDiff
                               /\ EndOf(b, i) <= Top
  /\ Top - nRtpSinceLastRtcp = EndOf(b, Len(rtcp))

Tidy == SenderTidy /\ ReceiverTidy /\ \E b \in Int : Chain(b)

TidyInv == net.tidy => Tidy

LEMMA LinkTypes ==
  ASSUME LinkInv
  PROVE  /\ last.n \in Int /\ Len(rtp) \in Nat /\ Len(rtcp) \in Nat /\ Top \in Int
         /\ Top <= last.n /\ Len(rtp) <= MaxInTransit /\ Len(rtcp) <= MaxInTransit
         /\ \A i \in 1 .. Len(rtp) : rtp[i].n \in Int /\ rtp[i].mark \in BOOLEAN
         /\ \A i \in 1 .. Len(rtcp) : rtcp[i].end \in 0 .. SeqNrs - 1 /\ rtcp[i].end \in Int
         /\ nRtpSinceLastRtcp \in 0 .. AckDiff - 1 /\ AckDiff \in Nat \ {0}
         /\ 2 * AckDiff <= Reported /\ Reported \in Nat \ {0}
         /\ history.edge \in Int /\ MaxInTransit \in Nat
<1>1. last.n \in Int
  BY DEF LinkInv, Outgoing
<1>2. history.edge \in Int
  BY DEF LinkInv, TableInv, TxState, States, Logs
<1>3. rtp \in Seq(RtpPackets) /\ rtcp \in Seq(Blocks)
      /\ Len(rtp) <= MaxInTransit /\ Len(rtcp) <= MaxInTransit
  BY DEF LinkInv, NetInv
<1>4. nRtpSinceLastRtcp \in 0 .. AckDiff - 1
  BY DEF LinkInv, RxInv, rx!TypeOK
<1>5. /\ AckDiff \in Nat \ {0} /\ 2 * AckDiff <= Reported /\ Reported \in Nat \ {0}
      /\ MaxInTransit \in Nat
  BY ReportAssumption, SessionAssumption, WindowAssumption
<1>6. Len(rtp) \in Nat /\ Len(rtcp) \in Nat
  BY <1>3
<1>7. \A i \in 1 .. Len(rtp) : rtp[i].n \in Int /\ rtp[i].mark \in BOOLEAN
  <2>1. \A i \in 1 .. Len(rtp) : rtp[i] \in RtpPackets
    BY <1>3
  <2> QED
    BY <2>1 DEF RtpPackets
<1>8. \A i \in 1 .. Len(rtcp) : rtcp[i].end \in 0 .. SeqNrs - 1
  <2>1. \A i \in 1 .. Len(rtcp) : rtcp[i] \in Blocks
    BY <1>3
  <2> QED
    BY <2>1 DEF Blocks
<1>9. \A n \in 0 .. SeqNrs - 1 : n \in Int
  BY SpanIs
<1>10. Top \in Int /\ Top <= last.n
  BY <1>1, <1>6 DEF Top
<1> QED
  BY <1>1, <1>2, <1>3, <1>4, <1>5, <1>6, <1>7, <1>8, <1>9, <1>10

LEMMA TidyInitHolds ==
  ASSUME LinkInit
  PROVE  Tidy
<1>1. /\ Init /\ rx!Init /\ rtp = <<>> /\ rtcp = <<>>
      /\ net = [clean |-> TRUE, tidy |-> TRUE, missed |-> FALSE]
  BY DEF LinkInit
<1>2. PICK start \in Starts :
        /\ txPackets = {} /\ bytesInFlight = 0
        /\ hiSeqAck = IF start = 0 THEN 0 ELSE SeqNr(start - 1)
        /\ sending = <<>> /\ last = [n |-> start - 1, ts |-> 0, mark |-> TRUE]
        /\ sent = {}
        /\ history = [acked |-> {}, lost |-> {}, edge |-> start - 1, live |-> {}]
  BY <1>1 DEF Init
<1>3. start = 0 /\ MaxTx \in Nat /\ MaxAhead \in Nat
  BY SessionAssumption, SpanIs
<1>4. /\ last.n = -1 /\ hiSeqAck = 0 /\ history.edge = -1 /\ Registered = -1
      /\ history.acked = {} /\ history.lost = {}
  BY <1>2, <1>3 DEF Registered
<1>5. 0 .. -1 = {} /\ -1 + 1 .. -1 = {}
  OBVIOUS
<1>6. SenderTidy
  <2>1. Progress(TxState, -1)
    BY <1>2, <1>4, <1>5 DEF Progress, TxState
  <2>2. bytesInFlight = Bytes(txPackets)
    BY <1>2, FS_EmptySet, SumChosen
  <2> QED
    BY <1>2, <1>3, <1>4, <1>5, <2>1, <2>2 DEF SenderTidy
<1>7. Len(rtp) = 0 /\ Len(rtcp) = 0 /\ Top = -1
  BY <1>1, <1>4 DEF Top
<1>8. /\ highestSeqNr = 0 /\ highestSeqNrTx = 0 /\ hist = {} /\ ~doFlush
      /\ nRtpSinceLastRtcp = 0 /\ received = {}
  BY <1>1 DEF rx!Init
<1>9. ReceiverTidy
  <2>1. hist = {m \in 0 .. Top : m > Top - kRxHistorySize}
    BY <1>5, <1>7, <1>8
  <2> QED
    BY <1>5, <1>7, <1>8, <2>1 DEF ReceiverTidy, KnownAs
<1>10. Chain(-1)
  <2>1. ~net.missed
    BY <1>1
  <2> QED
    BY <1>4, <1>7, <1>8, <2>1 DEF Chain, EndOf
<1> QED
  BY <1>6, <1>9, <1>10 DEF Tidy

(* The network and the receiver are where they were, but for a packet sent. *)
LEMMA ReceiverKept ==
  ASSUME LinkInv, ReceiverTidy, UNCHANGED <<rxVars, rtcp>>,
         rtp' \in Seq(RtpPackets), Len(rtp') - Len(rtp) = last'.n - last.n,
         Len(rtp) <= Len(rtp'), last'.n \in Int,
         \A i \in 1 .. Len(rtp') : rtp'[i].n = Top + i
  PROVE  /\ ReceiverTidy' /\ Top' = Top
         /\ \A b \in Int : Chain(b) /\ net'.missed = net.missed
                           /\ history'.edge = history.edge => Chain(b)'
<1>1. Top' = Top
  <2>1. Len(rtp) \in Nat /\ Len(rtp') \in Nat /\ last.n \in Int
    BY LinkTypes
  <2> QED
    BY <2>1 DEF Top
<1>2. /\ UNCHANGED <<highestSeqNr, highestSeqNrTx, hist, doFlush, nRtpSinceLastRtcp,
                     received>>
      /\ rtcp' = rtcp
  BY DEF rxVars
<1>3. ReceiverTidy'
  BY <1>1, <1>2 DEF ReceiverTidy
<1>4. ASSUME NEW b \in Int, Chain(b), net'.missed = net.missed,
             history'.edge = history.edge
      PROVE  Chain(b)'
  BY <1>1, <1>2, <1>4 DEF Chain, EndOf
<1> QED
  BY <1>1, <1>3, <1>4

(* A packet sent. *)
LEMMA TransmitTidy ==
  ASSUME LinkInv, Tidy, NEW p \in NextPackets, LinkTransmit(p), net'.tidy
  PROVE  Tidy'
<1>1. /\ Queued(p) /\ Send(p, FALSE) /\ Sent(p)
      /\ net' = Untidy(Len(rtp) = MaxInTransit)
  BY DEF LinkTransmit, Transmit
<1>2. /\ sending' = <<p>> /\ last' = [n |-> p.n, ts |-> p.ts, mark |-> p.mark]
      /\ sent' = sent \cup {p.n}
      /\ UNCHANGED <<txPackets, bytesInFlight, history, hiSeqAck, timeTxAck, timeStampAckHigh>>
      /\ rtp' = Queue(rtp, [n |-> p.n, mark |-> p.mark])
      /\ UNCHANGED <<rxVars, rtcp, restarts, delivered>>
  BY <1>1 DEF Send, Sent
<1>3. Len(rtp) # MaxInTransit /\ net' = net
  <2>1. CASE Len(rtp) = MaxInTransit
    BY <1>1, <2>1 DEF Untidy
  <2>2. CASE Len(rtp) # MaxInTransit
    BY <1>1, <2>2 DEF Untidy
  <2> QED
    BY <2>1, <2>2
<1>4. /\ Outgoing /\ TableInv /\ NetInv /\ SenderTidy /\ ReceiverTidy
  BY DEF LinkInv, Tidy
<1>5. /\ last.n \in Int /\ history.edge \in Int /\ Registered \in Int /\ -1 <= last.n
      /\ MaxTx \in Nat /\ MaxAhead \in Nat /\ Registered <= last.n
  BY <1>4, SenderTypes
<1>6. p.n = last.n + 1 /\ p.mark \in BOOLEAN
  <2>1. p.n \in last.n + 1 .. last.n + 1 + MaxGap /\ MaxGap = 0 /\ p.mark \in BOOLEAN
    BY SessionAssumption DEF NextPackets
  <2> QED
    BY <1>5, <2>1
<1>7. /\ Cardinality(sent) < MaxTx /\ p.n - history.edge <= MaxAhead /\ sending = <<>>
  BY <1>1 DEF Queued
<1>8. last.n + 1 < MaxTx
  <2>1. sent = 0 .. last.n
    BY <1>4 DEF SenderTidy
  <2>2. Cardinality(0 .. last.n) = last.n + 1
    <3> DEFINE l == last.n
    <3>1. 0 \in Int /\ l \in Int /\ -1 <= l
      BY <1>5
    <3> HIDE DEF l
    <3>2. Cardinality(0 .. l) = IF 0 > l THEN 0 ELSE l - 0 + 1
      BY <3>1, FS_Interval
    <3>3. Cardinality(0 .. l) = l + 1
      BY <3>1, <3>2
    <3> QED
      BY <3>3 DEF l
  <2> QED
    BY <1>7, <2>1, <2>2
<1>9. last'.n = last.n + 1 /\ sending' # <<>> /\ Registered = last.n /\ Registered' = last.n
  BY <1>2, <1>5, <1>6, <1>7 DEF Registered
<1>10. TxState' = TxState
  BY <1>2 DEF TxState
<1>11. SenderTidy'
  <2>1. sent' = 0 .. last.n + 1
    <3>1. sent = 0 .. last.n
      BY <1>4 DEF SenderTidy
    <3> QED
      BY <1>2, <1>5, <1>6, <3>1
  <2>2. Progress(TxState, history.edge)'
    <3>1. Progress(TxState, history.edge)
      BY <1>4 DEF SenderTidy
    <3> QED
      BY <1>2, <1>9, <1>10, <3>1 DEF Progress
  <2>3. last.n + 1 <= history.edge + MaxAhead
    BY <1>5, <1>6, <1>7
  <2>4. /\ -1 <= history.edge /\ history.edge <= Registered
        /\ hiSeqAck \in {history.edge, history.edge + 1} /\ bytesInFlight = Bytes(txPackets)
        /\ \A q \in txPackets : ~q.acked /\ timeTxAck <= q.timeTx
    BY <1>4 DEF SenderTidy
  <2> QED
    BY <1>2, <1>8, <1>9, <2>1, <2>2, <2>3, <2>4 DEF SenderTidy
<1>12. /\ ReceiverTidy' /\ \A b \in Int : Chain(b) => Chain(b)'
  <2> DEFINE m == [n |-> p.n, mark |-> p.mark]
  <2>1. rtp \in Seq(RtpPackets) /\ Len(rtp) <= MaxInTransit /\ Len(rtp) \in Nat
        /\ MaxInTransit \in Nat
    BY <1>4, SessionAssumption DEF NetInv
  <2>2. m \in RtpPackets
    BY <1>5, <1>6 DEF RtpPackets
  <2>3. Len(rtp) < MaxInTransit
    BY <1>3, <2>1
  <2>4. m.n = last.n + 1
    BY <1>6
  <2>5. rtp' = Queue(rtp, m)
    BY <1>2
  <2> HIDE DEF m
  <2>6. /\ rtp' \in Seq(RtpPackets) /\ Len(rtp') = Len(rtp) + 1
        /\ \A j \in 1 .. Len(rtp) : rtp'[j] = rtp[j]
        /\ rtp'[Len(rtp) + 1] = m
    <3>1. /\ Queue(rtp, m) \in Seq(RtpPackets) /\ Len(Queue(rtp, m)) = Len(rtp) + 1
          /\ \A j \in 1 .. Len(rtp) : Queue(rtp, m)[j] = rtp[j]
          /\ Queue(rtp, m)[Len(rtp) + 1] = m
      BY <2>1, <2>2, <2>3, QueueIs
    <3> QED
      BY <2>5, <3>1
  <2>7. Top + (Len(rtp) + 1) = last.n + 1 /\ Top \in Int
    BY <1>5, <2>1 DEF Top
  <2>8. \A i \in 1 .. Len(rtp') : rtp'[i].n = Top + i
    <3> SUFFICES ASSUME NEW i \in 1 .. Len(rtp') PROVE rtp'[i].n = Top + i
      OBVIOUS
    <3>1. i \in 1 .. Len(rtp) \/ i = Len(rtp) + 1
      BY <2>1, <2>6
    <3>2. CASE i \in 1 .. Len(rtp)
      BY <1>4, <2>6, <3>2 DEF ReceiverTidy
    <3>3. CASE i = Len(rtp) + 1
      BY <2>4, <2>6, <2>7, <3>3
    <3> QED
      BY <3>1, <3>2, <3>3
  <2>9. Len(rtp') - Len(rtp) = last'.n - last.n /\ Len(rtp) <= Len(rtp') /\ last'.n \in Int
    BY <1>5, <1>9, <2>1, <2>6
  <2>10. net'.missed = net.missed /\ history'.edge = history.edge
    BY <1>2, <1>3
  <2>11. UNCHANGED <<rxVars, rtcp>>
    BY <1>2
  <2> QED
    BY <1>4, <2>6, <2>8, <2>9, <2>10, <2>11, ReceiverKept
<1> QED
  BY <1>11, <1>12 DEF Tidy

(* The packet sent is registered: it has a slot to itself. *)
LEMMA AddTransmittedTidy ==
  ASSUME LinkInv, Tidy, LinkAddTransmitted
  PROVE  Tidy'
<1>1. AddTransmitted /\ UNCHANGED <<rxVars, rtp, rtcp, restarts, delivered, net>>
  BY DEF LinkAddTransmitted
<1>2. Outgoing /\ TableInv /\ NetInv /\ SenderTidy /\ ReceiverTidy
  BY DEF LinkInv, Tidy
<1>3. PICK p, q, kept : Added(p, q, kept)
  BY <1>1, <1>2, AddedIs
<1>4. /\ kept = {x \in txPackets : SlotOf(x.n) # SlotOf(p.n)}
      /\ p.n = last.n /\ Registered = p.n - 1 /\ Registered' = p.n
      /\ q.n = p.n /\ q.timeTx = now /\ ~q.acked /\ ~q.afterEdge
      /\ txPackets' = kept \cup {q}
      /\ history' = [history EXCEPT !.live = @ \cup {p.n}]
      /\ UNCHANGED <<hiSeqAck, timeTxAck, last, sent>>
  BY <1>3 DEF Added
<1>5. /\ last.n \in Int /\ history.edge \in Int /\ MaxAhead \in Nat
      /\ -1 <= last.n /\ last.n < SeqNrs
  BY <1>2, SenderTypes
<1>6. /\ -1 <= history.edge /\ history.edge <= Registered
      /\ last.n <= history.edge + MaxAhead /\ last.n < MaxTx /\ sent = 0 .. last.n
      /\ hiSeqAck \in {history.edge, history.edge + 1}
      /\ \A x \in txPackets : ~x.acked /\ timeTxAck <= x.timeTx
      /\ Progress(TxState, history.edge)
  BY <1>2 DEF SenderTidy
<1>7. \A x \in txPackets : /\ x.n \in Int /\ x.n <= Registered
                           /\ ~x.afterEdge /\ history.edge < x.n
  BY <1>2, <1>6 DEF TableInv, Table, States, Packets, Progress, TxState
<1>8. kept = txPackets
  <2> SUFFICES ASSUME NEW x \in txPackets PROVE SlotOf(x.n) # SlotOf(p.n)
    BY <1>4
  <2>1. x.n \in Int /\ p.n \in Int /\ x.n < p.n /\ p.n - x.n < MaxAhead
    BY <1>4, <1>5, <1>6, <1>7
  <2>2. MaxAhead <= kMaxTxPackets /\ kMaxTxPackets \in Nat
    BY SpanAssumption, SlotsAssumption, WindowAssumption, NetworkAssumption
  <2>3. SlotOf(p.n) = SlotOf(x.n) => p.n - x.n >= kMaxTxPackets
    BY <2>1, SameSlot
  <2> QED
    BY <1>5, <2>1, <2>2, <2>3
<1>9. history \in Logs /\ history'.edge = history.edge
      /\ history'.acked = history.acked /\ history'.lost = history.lost
  <2>1. history \in Logs
    BY <1>2 DEF TableInv, TxState, States
  <2> QED
    BY <1>4, <2>1 DEF Logs
<1>10. txPackets' = txPackets \cup {q}
  BY <1>4, <1>8
<1>11. bytesInFlight' = Bytes(txPackets')
  <2>1. FlightInv'
    BY <1>1, <1>2, TidyFlight, AddTransmittedKeeps
  <2>2. bytesInFlight' = Bytes(Counted(txPackets'))
    BY <2>1 DEF FlightInv, EdgeInv, Settled, TxState
  <2>3. Counted(txPackets') = txPackets'
    BY <1>4, <1>7, <1>10 DEF Counted
  <2> QED
    BY <2>2, <2>3
<1>12. timeTxAck <= now
  BY <1>2 DEF TableInv, Table, TxState
<1>13. Progress(TxState, history.edge)'
  <2>1. \A n \in history.edge + 1 .. last.n : \E x \in txPackets' : x.n = n
    <3> SUFFICES ASSUME NEW n \in history.edge + 1 .. last.n
                 PROVE  \E x \in txPackets' : x.n = n
      OBVIOUS
    <3>1. CASE n = last.n
      BY <1>4, <1>10, <3>1
    <3>2. CASE n # last.n
      <4>1. n \in history.edge + 1 .. Registered
        BY <1>4, <1>5, <3>2
      <4>2. PICK x \in txPackets : x.n = n
        BY <1>6, <4>1 DEF Progress, TxState
      <4> QED
        BY <1>10, <4>2
    <3> QED
      BY <3>1, <3>2
  <2>2. \A x \in txPackets' : ~x.afterEdge /\ history.edge < x.n
    <3>1. history.edge < q.n
      BY <1>4, <1>5, <1>6
    <3> QED
      BY <1>4, <1>7, <1>10, <3>1
  <2>3. history.lost = {} /\ history.acked = 0 .. history.edge
    BY <1>6 DEF Progress, TxState
  <2>4. /\ TxState'.tx = txPackets' /\ TxState'.log.lost = history'.lost
        /\ TxState'.log.acked = history'.acked
    BY DEF TxState
  <2> QED
    BY <1>4, <1>9, <2>1, <2>2, <2>3, <2>4 DEF Progress
<1>14. SenderTidy'
  <2>1. \A x \in txPackets' : ~x.acked /\ timeTxAck <= x.timeTx
    BY <1>4, <1>6, <1>10, <1>12
  <2>2. history.edge <= Registered'
    BY <1>4, <1>5, <1>6
  <2> QED
    BY <1>4, <1>6, <1>9, <1>11, <1>13, <2>1, <2>2 DEF SenderTidy
<1>15. ReceiverTidy' /\ \A b \in Int : Chain(b) => Chain(b)'
  <2>1. /\ UNCHANGED <<rxVars, rtcp>> /\ net' = net /\ rtp' = rtp /\ last' = last
    BY <1>1, <1>4
  <2>2. /\ rtp' \in Seq(RtpPackets) /\ Len(rtp) \in Nat
        /\ \A i \in 1 .. Len(rtp') : rtp'[i].n = Top + i
    BY <1>2, <2>1 DEF NetInv, ReceiverTidy
  <2>3. Len(rtp') - Len(rtp) = last'.n - last.n /\ Len(rtp) <= Len(rtp') /\ last'.n \in Int
    BY <1>5, <2>1, <2>2
  <2> QED
    BY <1>2, <1>9, <2>1, <2>2, <2>3, ReceiverKept
<1> QED
  BY <1>14, <1>15 DEF Tidy

(* Time passes. *)
LEMMA TickTidy ==
  ASSUME LinkInv, Tidy, LinkTick \/ UNCHANGED linkVars
  PROVE  Tidy'
<1>1. /\ UNCHANGED <<txVars, sending, last, sent, history>>
      /\ UNCHANGED <<rxVars, rtp, rtcp, net>>
  BY DEF LinkTick, Tick, linkVars, vars, txVars
<1>2. /\ UNCHANGED <<txPackets, bytesInFlight, hiSeqAck, timeTxAck, timeStampAckHigh>>
      /\ UNCHANGED <<highestSeqNr, highestSeqNrTx, hist, doFlush, nRtpSinceLastRtcp,
                     received>>
  BY <1>1 DEF txVars, rxVars
<1>3. TxState' = TxState /\ Registered' = Registered
  BY <1>1, <1>2 DEF TxState, Registered
<1>4. SenderTidy'
  BY <1>1, <1>2, <1>3 DEF Tidy, SenderTidy, Progress
<1>5. ReceiverTidy' /\ Top' = Top
  BY <1>1, <1>2 DEF Tidy, ReceiverTidy, Top
<1>6. \A b \in Int : Chain(b) => Chain(b)'
  BY <1>1, <1>2, <1>5 DEF Chain, EndOf
<1> QED
  BY <1>4, <1>5, <1>6 DEF Tidy

(* The first message leaves the network. *)
LEMMA ChainTail ==
  ASSUME LinkInv, ReceiverTidy, NEW b \in Int, Chain(b), NEW c \in Int, c = rtcp[1].end,
         UNCHANGED <<rxVars, rtp, last>>, Len(rtcp) >= 1, Len(rtcp') = Len(rtcp) - 1,
         \A j \in 1 .. Len(rtcp) - 1 : rtcp'[j] = rtcp[j + 1],
         IF net'.missed THEN c - history'.edge \in 0 .. AckDiff ELSE c = history'.edge
  PROVE  ReceiverTidy' /\ Chain(c)'
<1>1. /\ Len(rtcp) \in Nat /\ Top \in Int
      /\ \A i \in 1 .. Len(rtcp) : rtcp[i].end \in 0 .. SeqNrs - 1 /\ rtcp[i].end \in Int
      /\ nRtpSinceLastRtcp \in Int /\ AckDiff \in Nat
  BY LinkTypes
<1>2. UNCHANGED <<highestSeqNr, highestSeqNrTx, hist, doFlush, nRtpSinceLastRtcp, received>>
  BY DEF rxVars
<1>3. Top' = Top
  BY DEF Top
<1>4. ReceiverTidy'
  <2>1. \A i \in 1 .. Len(rtcp') : rtcp'[i].rx = ReportOf(rtcp'[i].end)
    <3> SUFFICES ASSUME NEW i \in 1 .. Len(rtcp') PROVE rtcp'[i].rx = ReportOf(rtcp'[i].end)
      OBVIOUS
    <3>1. i \in 1 .. Len(rtcp) - 1 /\ i + 1 \in 1 .. Len(rtcp)
      BY <1>1
    <3>2. rtcp[i + 1].rx = ReportOf(rtcp[i + 1].end)
      BY <3>1 DEF ReceiverTidy
    <3> QED
      BY <3>1, <3>2
  <2> QED
    BY <1>2, <1>3, <2>1 DEF ReceiverTidy
<1> DEFINE next(i) == IF i = 0 THEN c ELSE rtcp'[i].end
<1>5. ASSUME NEW i \in 0 .. Len(rtcp) - 1 PROVE next(i) = EndOf(b, i + 1)
  <2>1. CASE i = 0
    BY <2>1 DEF EndOf
  <2>2. CASE i # 0
    <3>1. i \in 1 .. Len(rtcp) - 1 /\ i + 1 # 0
      BY <1>1, <2>2
    <3> QED
      BY <2>2, <3>1 DEF EndOf
  <2> QED
    BY <2>1, <2>2
<1>6. \A i \in 1 .. Len(rtcp) : /\ EndOf(b, i) - EndOf(b, i - 1) \in 1 .. AckDiff
                                /\ EndOf(b, i) <= Top
  BY DEF Chain
<1>7. \A i \in 1 .. Len(rtcp') : next(i) - next(i - 1) \in 1 .. AckDiff /\ next(i) <= Top
  <2> SUFFICES ASSUME NEW i \in 1 .. Len(rtcp')
               PROVE  next(i) - next(i - 1) \in 1 .. AckDiff /\ next(i) <= Top
    OBVIOUS
  <2>1. i \in 0 .. Len(rtcp) - 1 /\ i - 1 \in 0 .. Len(rtcp) - 1 /\ i + 1 \in 1 .. Len(rtcp)
        /\ (i - 1) + 1 = i /\ (i + 1) - 1 = i
    BY <1>1
  <2>2. next(i) = EndOf(b, i + 1) /\ next(i - 1) = EndOf(b, i)
    BY <1>5, <2>1
  <2>3. EndOf(b, i + 1) - EndOf(b, i) \in 1 .. AckDiff /\ EndOf(b, i + 1) <= Top
    BY <1>6, <2>1
  <2> QED
    BY <2>2, <2>3
<1>8. Top - nRtpSinceLastRtcp = next(Len(rtcp'))
  <2>1. Len(rtcp) - 1 \in 0 .. Len(rtcp) - 1 /\ (Len(rtcp) - 1) + 1 = Len(rtcp)
    BY <1>1
  <2>2. next(Len(rtcp) - 1) = EndOf(b, Len(rtcp))
    BY <1>5, <2>1
  <2> QED
    BY <2>2 DEF Chain
<1>9. -1 <= c /\ c <= Top
  <2>1. 1 \in 1 .. Len(rtcp)
    BY <1>1
  <2>2. EndOf(b, 1) = c /\ EndOf(b, 1) <= Top /\ c \in 0 .. SeqNrs - 1
    BY <1>1, <1>6, <2>1 DEF EndOf
  <2> QED
    BY <2>2
<1>10. \A i : EndOf(c, i)' = next(i)
  BY DEF EndOf
<1> HIDE DEF next
<1>11. Chain(c)'
  <2>1. nRtpSinceLastRtcp' = nRtpSinceLastRtcp
    BY <1>2
  <2> QED
    BY <1>3, <1>7, <1>8, <1>9, <1>10, <2>1 DEF Chain
<1> QED
  BY <1>4, <1>11

(* A message is lost, and the one before was not missed. *)
LEMMA LoseMessageTidy ==
  ASSUME LinkInv, Tidy, LoseMessage, net.tidy, net'.tidy
  PROVE  Tidy'
<1>1. /\ rtcp # <<>> /\ rtcp' = Tail(rtcp) /\ net' = Missed(TRUE)
      /\ UNCHANGED <<vars, rxVars, rtp, restarts, delivered>>
  BY DEF LoseMessage
<1>2. PICK b \in Int : Chain(b)
  BY DEF Tidy
<1>3. rtcp \in Seq(Blocks)
  BY DEF LinkInv, NetInv
<1>4. /\ Len(rtcp) >= 1 /\ Len(rtcp) \in Nat /\ Len(rtcp') = Len(rtcp) - 1
      /\ \A j \in 1 .. Len(rtcp) - 1 : rtcp'[j] = rtcp[j + 1]
  <2>1. Len(rtcp) \in Nat /\ Len(rtcp) # 0
    BY <1>1, <1>3
  <2>2. /\ Len(Tail(rtcp)) = Len(rtcp) - 1
        /\ \A j \in 1 .. Len(rtcp) - 1 : Tail(rtcp)[j] = rtcp[j + 1]
    BY <1>1, <1>3, TailIs
  <2> QED
    BY <1>1, <2>1, <2>2
<1>5. ~net.missed /\ net'.missed
  <2>1. net \in [clean : BOOLEAN, tidy : BOOLEAN, missed : BOOLEAN]
    BY DEF LinkInv, NetInv
  <2>2. (Missed(TRUE).tidy <=> (net.tidy /\ ~(TRUE /\ net.missed)))
        /\ (Missed(TRUE).missed <=> TRUE)
    BY <2>1, NetIs
  <2> QED
    BY <1>1, <2>2
<1>6. UNCHANGED <<txPackets, bytesInFlight, hiSeqAck, timeTxAck, timeStampAckHigh,
                  sending, last, sent, history>>
  BY <1>1 DEF vars
<1>7. SenderTidy'
  BY <1>6 DEF Tidy, SenderTidy, Progress, TxState, Registered
<1> DEFINE c == rtcp[1].end
<1>8. c \in Int /\ c - history.edge \in 0 .. AckDiff
  <2>1. 1 \in 1 .. Len(rtcp) /\ 1 - 1 = 0 /\ 1 # 0
    BY <1>4
  <2>2. c - b \in 1 .. AckDiff /\ b = history.edge
    <3>1. EndOf(b, 1) - EndOf(b, 0) \in 1 .. AckDiff
      BY <1>2, <2>1 DEF Chain
    <3> QED
      BY <1>2, <1>5, <3>1 DEF Chain, EndOf
  <2>3. c \in Int /\ AckDiff \in Nat
    BY <2>1, LinkTypes
  <2> QED
    BY <2>2, <2>3
<1>9. \E x \in Int : x = c
  BY <1>8
<1> HIDE DEF c
<1>10. PICK x \in Int : x = c
  BY <1>9
<1>11. ReceiverTidy' /\ Chain(x)'
  <2>1. IF net'.missed THEN x - history'.edge \in 0 .. AckDiff ELSE x = history'.edge
    BY <1>5, <1>6, <1>8, <1>10
  <2>2. x = rtcp[1].end /\ ReceiverTidy /\ UNCHANGED <<rxVars, rtp, last>>
    BY <1>1, <1>6, <1>10 DEF Tidy, c
  <2> QED
    BY <1>2, <1>4, <2>1, <2>2, ChainTail
<1> QED
  BY <1>7, <1>11 DEF Tidy

(* How far the first message goes: it is for packets that were sent, it is  *)
(* no more than two messages ahead of the last one processed, and only the  *)
(* packet being sent makes it early.                                        *)
LEMMA FirstMessage ==
  ASSUME LinkInv, Tidy, NEW b \in Int, Chain(b), Len(rtcp) >= 1, NEW end,
         end = rtcp[1].end
  PROVE  /\ end \in 0 .. SeqNrs - 1 /\ end <= last.n /\ rtcp[1].rx = ReportOf(end)
         /\ end - b \in 1 .. AckDiff /\ b - history.edge \in 0 .. AckDiff
         /\ ~net.missed => b = history.edge
         /\ (\E p \in ToSet(sending) : SeqNr(p.n) \in rtcp[1].rx)
              <=> sending # <<>> /\ end = last.n
<1>1. /\ Len(rtcp) \in Nat /\ Top \in Int /\ Top <= last.n /\ last.n \in Int
      /\ \A i \in 1 .. Len(rtcp) : rtcp[i].end \in 0 .. SeqNrs - 1 /\ rtcp[i].end \in Int
      /\ AckDiff \in Nat \ {0} /\ Reported \in Nat \ {0} /\ history.edge \in Int
  BY LinkTypes
<1>2. 1 \in 1 .. Len(rtcp) /\ 1 - 1 = 0 /\ 1 # 0
  BY <1>1
<1>3. end \in 0 .. SeqNrs - 1 /\ end \in Int
  BY <1>1, <1>2
<1>4. end - b \in 1 .. AckDiff /\ end <= Top
  <2>1. EndOf(b, 1) - EndOf(b, 0) \in 1 .. AckDiff /\ EndOf(b, 1) <= Top
    BY <1>2 DEF Chain
  <2> QED
    BY <2>1 DEF EndOf
<1>5. IF net.missed THEN b - history.edge \in 0 .. AckDiff ELSE b = history.edge
  BY DEF Chain
<1>6. b - history.edge \in 0 .. AckDiff /\ (~net.missed => b = history.edge)
  BY <1>1, <1>5
<1>7. rtcp[1].rx = ReportOf(end)
  BY <1>2 DEF Tidy, ReceiverTidy
<1>8. (\E p \in ToSet(sending) : SeqNr(p.n) \in ReportOf(end))
        <=> sending # <<>> /\ end = last.n
  <2>1. sending = <<>> \/ \E p : sending = <<p>> /\ p.n = last.n
    BY DEF LinkInv, Outgoing
  <2>2. CASE sending = <<>>
    BY <2>2 DEF ToSet
  <2>3. ASSUME NEW p, sending = <<p>>, p.n = last.n
        PROVE  (\E x \in ToSet(sending) : SeqNr(x.n) \in ReportOf(end))
                 <=> sending # <<>> /\ end = last.n
    <3>1. ToSet(sending) = {p} /\ sending # <<>>
      <4>1. DOMAIN <<p>> = {1} /\ <<p>>[1] = p /\ <<p>> # <<>>
        OBVIOUS
      <4> QED
        BY <2>3, <4>1, Zenon DEF ToSet
    <3>2. last.n \in 0 .. SeqNrs - 1
      <4>1. -1 <= last.n /\ last.n < SeqNrs /\ SeqNrs \in Nat
        BY SenderTypes DEF LinkInv, Tidy
      <4> QED
        BY <1>1, <1>3, <1>4, <4>1
    <3>3. SeqNr(last.n) = last.n
      BY <3>2, FirstNumbers
    <3>4. last.n \in ReportOf(end) <=> end = last.n
      <4>1. last.n \in ReportOf(end) <=> last.n \in 0 .. end /\ last.n > end - Reported
        BY DEF ReportOf
      <4>2. SeqNrs \in Nat
        BY SpanIs
      <4> QED
        BY <1>1, <1>3, <1>4, <3>2, <4>1, <4>2
    <3> QED
      BY <2>3, <3>1, <3>3, <3>4
  <2> QED
    BY <2>1, <2>2, <2>3
<1> QED
  BY <1>1, <1>3, <1>4, <1>6, <1>7, <1>8

(* The first message is processed. *)
LEMMA FeedbackTidy ==
  ASSUME LinkInv, Tidy, net.tidy, Len(rtcp) >= 1, LinkFeedback(1), net'.tidy
  PROVE  Tidy'
<1> DEFINE end == rtcp[1].end
           R == ReportOf(end)
           st == AfterReport(end, R)
           early == \E p \in ToSet(sending) : SeqNr(p.n) \in rtcp[1].rx
           edge == history.edge
           s == AckedTo(end)
<1>1. PICK b \in Int : Chain(b)
  BY DEF Tidy
<1>2. Outgoing /\ TableInv /\ NetInv /\ SenderTidy /\ ReceiverTidy
  BY DEF LinkInv, Tidy
<1>3. /\ end \in 0 .. SeqNrs - 1 /\ end <= last.n /\ rtcp[1].rx = R
      /\ end - b \in 1 .. AckDiff /\ b - edge \in 0 .. AckDiff
      /\ ~net.missed => b = edge
      /\ early <=> sending # <<>> /\ end = last.n
  BY <1>1, FirstMessage
<1>4. /\ last.n \in Int /\ Registered \in Int /\ edge \in Int /\ Registered <= last.n
      /\ sending = <<>> => Registered = last.n
      /\ sending # <<>> => Registered = last.n - 1
      /\ SeqNrs \in Nat \ {0} /\ MaxAhead \in Nat /\ MaxBack \in Nat
      /\ Reported \in Nat \ {0} /\ last.n < SeqNrs
  BY <1>2, SenderTypes
<1>5. /\ AckDiff \in Nat \ {0} /\ 2 * AckDiff <= Reported /\ Reported <= OooDiff
      /\ OooDiff \in Nat
  BY ReportAssumption
<1>6. /\ -1 <= edge /\ edge <= Registered /\ last.n <= edge + MaxAhead /\ last.n < MaxTx
      /\ sent = 0 .. last.n /\ hiSeqAck \in {edge, edge + 1}
      /\ Progress(TxState, edge)
  BY <1>2 DEF SenderTidy
<1>7. /\ Report(end, R) /\ history' = [st.log EXCEPT !.edge = Max({@} \cup st.log.acked)]
      /\ UNCHANGED <<lastTransmitT, now, sending, last, sent, arrivals>>
      /\ rtcp' = RemoveAt(rtcp, 1) /\ net' = Missed(early)
      /\ UNCHANGED <<rxVars, rtp, restarts, delivered>>
  <2>1. /\ Report(end, rtcp[1].rx) /\ history' = LogAfter(rtcp[1])
        /\ UNCHANGED <<lastTransmitT, now, sending, last, sent, arrivals>>
        /\ rtcp' = RemoveAt(rtcp, 1)
        /\ net' = IF 1 = 1 THEN Missed(early) ELSE Untidy(TRUE)
        /\ UNCHANGED <<rxVars, rtp, restarts, delivered>>
    BY DEF LinkFeedback
  <2>2. LogAfter(rtcp[1]) = [st.log EXCEPT !.edge = Max({@} \cup st.log.acked)]
    BY <1>3 DEF LogAfter
  <2>3. 1 = 1
    OBVIOUS
  <2> HIDE DEF early, st, R, end
  <2> QED
    BY <1>3, <2>1, <2>2, <2>3 DEF R, st, end
<1>8. FlightInv
  BY <1>2, TidyFlight
<1> HIDE DEF end, early, edge, R, st, s
<1>9. end \in Int /\ edge < end /\ end - edge <= 2 * AckDiff /\ edge - end <= MaxBack
  <2>1. \A n \in 0 .. SeqNrs - 1 : n \in Int
    BY <1>4
  <2> QED
    BY <1>3, <1>4, <1>5, <2>1
<1>10. InReach(end) /\ Processed(TxState, end, end - Reported)
  BY <1>3, <1>8, <1>9, ReportStarts DEF edge
<1>11. ~Ignored(end)
  <2>0. Reported < SeqNrs /\ hiSeqAck \in Int
    BY <1>4, <1>6, SpanIs
  <2>1. end - hiSeqAck \in 0 .. SeqNrs - 1 /\ end - hiSeqAck <= OooDiff
    BY <1>4, <1>5, <1>6, <1>9, <2>0
  <2>2. (end - hiSeqAck) % SeqNrs = end - hiSeqAck
    BY <1>4, <2>1, SmallResidue
  <2>3. ~((end - hiSeqAck) % SeqNrs > OooDiff)
    BY <1>4, <1>5, <2>1, <2>2
  <2> QED
    BY <2>3 DEF Ignored
<1>12. Processed(st, end, end) /\ Settled(st, end) /\ Progress(st, s)
  <2>1. Registered < SeqNrs /\ end - Reported <= history.edge
        /\ -1 <= history.edge /\ history.edge <= Registered
        /\ Progress(TxState, history.edge)
    BY <1>4, <1>5, <1>6, <1>9 DEF edge
  <2> QED
    BY <1>3, <1>10, <1>11, <2>1, ReportClean DEF st, R, s
<1>13. /\ s \in Int /\ edge < s + 1 /\ s <= Registered /\ end \in {s, s + 1}
       /\ early <=> end = s + 1
  <2>1. s = IF end <= edge THEN edge ELSE IF end <= Registered THEN end ELSE Registered
    BY DEF s, edge, AckedTo
  <2>2. CASE end <= Registered
    BY <1>3, <1>4, <1>9, <2>1, <2>2
  <2>3. CASE ~ (end <= Registered)
    <3>1. sending # <<>>
      BY <1>3, <1>4, <2>3
    <3> QED
      BY <1>3, <1>4, <1>6, <1>9, <2>1, <2>3, <3>1
  <2> QED
    BY <2>2, <2>3
<1>14. /\ st \in States /\ Logged(st) /\ st.log.edge = edge
       /\ st.log.acked = 0 .. s /\ st.log.lost = {}
       /\ \A p \in st.tx : ~p.afterEdge /\ edge < p.n
       /\ \A n \in s + 1 .. Registered : \E p \in st.tx : p.n = n
       /\ st.hi = SeqNr(end) /\ st.bif = Bytes(Counted(st.tx))
       /\ \A p \in Counted(st.tx) : ~p.acked /\ st.timeTxAck <= p.timeTx
  BY <1>12 DEF Processed, Progress, Settled, edge
<1>15. /\ txPackets' = st.tx /\ bytesInFlight' = st.bif /\ hiSeqAck' = st.hi
       /\ timeTxAck' = st.timeTxAck
  BY <1>7 DEF Report, st
<1>16. /\ history'.edge = s /\ history'.acked = 0 .. s /\ history'.lost = {}
  <2>1. st.log \in Logs
    BY <1>14 DEF States
  <2>2. history' = [st.log EXCEPT !.edge = Max({st.log.edge} \cup st.log.acked)]
    BY <1>7
  <2>3. /\ history'.edge = Max({st.log.edge} \cup st.log.acked)
        /\ history'.acked = st.log.acked /\ history'.lost = st.log.lost
    BY <2>1, <2>2 DEF Logs
  <2>4. Max({edge} \cup 0 .. s) = s
    <3>1. ({edge} \cup 0 .. s) \in SUBSET Int /\ s \in {edge} \cup 0 .. s
          /\ \A x \in {edge} \cup 0 .. s : x <= s
      BY <1>4, <1>6, <1>13
    <3> QED
      BY <3>1, MaxIs
  <2> QED
    BY <1>14, <2>3, <2>4
<1>17. Counted(st.tx) = st.tx
  BY <1>14 DEF Counted
<1>18. \A p \in st.tx : s < p.n
  <2> SUFFICES ASSUME NEW p \in st.tx PROVE s < p.n
    OBVIOUS
  <2>1. p.n \in Int /\ edge < p.n /\ ~p.acked
    BY <1>14, <1>17 DEF States, Packets
  <2>2. p.n \notin 0 .. s
    BY <1>14, <2>1 DEF Logged
  <2> QED
    BY <1>4, <1>6, <1>13, <2>1, <2>2
<1>19. Registered' = Registered
  BY <1>7 DEF Registered
<1>20. SenderTidy'
  <2>1. Progress(TxState, history.edge)'
    <3>1. /\ TxState'.tx = st.tx /\ TxState'.log.lost = {} /\ TxState'.log.acked = 0 .. s
      BY <1>15, <1>16 DEF TxState
    <3> QED
      BY <1>14, <1>16, <1>18, <1>19, <3>1 DEF Progress
  <2>2. hiSeqAck' = end
    BY <1>3, <1>14, <1>15, FirstNumbers
  <2>3. -1 <= s /\ last.n <= s + MaxAhead
    BY <1>4, <1>6, <1>13
  <2>4. /\ sent' = 0 .. last'.n /\ last' = last
    BY <1>6, <1>7
  <2> QED
    BY <1>6, <1>13, <1>14, <1>15, <1>16, <1>17, <1>19, <2>1, <2>2, <2>3, <2>4 DEF SenderTidy
<1>21. PICK x \in Int : x = end
  BY <1>9
<1>22. ReceiverTidy' /\ Chain(x)'
  <2>1. rtcp \in Seq(Blocks) /\ 1 \in 1 .. Len(rtcp) /\ Len(rtcp) \in Nat
    BY <1>2 DEF NetInv
  <2>2. /\ Len(rtcp') = Len(rtcp) - 1
        /\ \A j \in 1 .. Len(rtcp) - 1 : rtcp'[j] = rtcp[j + 1]
    <3>1. /\ Len(RemoveAt(rtcp, 1)) = Len(rtcp) - 1
          /\ \A j \in 1 .. Len(rtcp) - 1 :
               RemoveAt(rtcp, 1)[j] = IF j < 1 THEN rtcp[j] ELSE rtcp[j + 1]
      BY <2>1, RemoveAtIs
    <3>2. \A j \in 1 .. Len(rtcp) - 1 : ~ (j < 1)
      BY <2>1
    <3> QED
      BY <1>7, <3>1, <3>2
  <2>3. net'.missed <=> early
    <3>1. net \in [clean : BOOLEAN, tidy : BOOLEAN, missed : BOOLEAN] /\ early \in BOOLEAN
      BY <1>2 DEF NetInv, early
    <3> QED
      BY <1>7, <3>1, NetIs
  <2>4. IF net'.missed THEN x - history'.edge \in 0 .. AckDiff ELSE x = history'.edge
    BY <1>5, <1>13, <1>16, <1>21, <2>3
  <2>5. x = rtcp[1].end
    BY <1>21 DEF end
  <2>6. UNCHANGED <<rxVars, rtp, last>>
    BY <1>7
  <2> QED
    BY <1>1, <1>2, <2>2, <2>4, <2>5, <2>6, ChainTail
<1> QED
  BY <1>20, <1>22 DEF Tidy

(* The next packet in order arrives at the receiver. *)
LEMMA NextHighest ==
  ASSUME LinkInv, Tidy, NEW n \in 0 .. SeqNrs - 1, n = Top + 1
  PROVE  rx!HighestAfter(n) = n
<1>1. /\ SeqNrs \in Nat \ {0} /\ n \in Int /\ Top \in Int
      /\ RxWrapGap \in Nat \ {0} /\ RxWrapGap + 1 < SeqNrs
  BY SlotsAssumption, ReportAssumption, LinkTypes
<1>2. /\ Top >= -1 /\ received = 0 .. Top /\ highestSeqNr = KnownAs(Top)
  BY DEF Tidy, ReceiverTidy
<1>3. rx!SeqNr(n) = n
  BY FirstNumbers DEF rx!SeqNr, SeqNr
<1> HIDE DEF Top
<1>4. CASE Top = -1
  <2>1. received = {} /\ n = 0
    BY <1>1, <1>2, <1>4
  <2>2. rx!SeqNr(n - 1) = SeqNrs - 1
    <3>1. n - 1 = SeqNrs * (0 - 1) + (SeqNrs - 1) /\ n - 1 \in Int
          /\ SeqNrs - 1 \in 0 .. SeqNrs - 1 /\ 0 - 1 \in Int
      BY <1>1, <2>1
    <3>2. (n - 1) % SeqNrs = SeqNrs - 1
      BY <1>1, <3>1, ModUnique
    <3> QED
      BY <3>2 DEF rx!SeqNr
  <2>3. rx!HighestBefore(n) = SeqNrs - 1
    BY <2>1, <2>2 DEF rx!HighestBefore
  <2>4. rx!Advances(n, SeqNrs - 1)
    BY <1>1, <2>1 DEF rx!Advances
  <2> QED
    BY <1>3, <2>3, <2>4 DEF rx!HighestAfter
<1>5. CASE Top # -1
  <2>1. Top \in 0 .. Top /\ Top >= 0
    BY <1>1, <1>2, <1>5
  <2>2. rx!HighestBefore(n) = Top
    BY <1>2, <1>5, <2>1 DEF rx!HighestBefore, KnownAs
  <2>3. rx!Advances(n, Top)
    BY <1>1, <2>1 DEF rx!Advances
  <2> QED
    BY <1>3, <2>2, <2>3 DEF rx!HighestAfter
<1> QED
  BY <1>4, <1>5

(* It overwrites the one packet that leaves the history. *)
LEMMA NextRecorded ==
  ASSUME LinkInv, Tidy, NEW n \in 0 .. SeqNrs - 1, n = Top + 1
  PROVE  rx!Recorded(n) = {m \in 0 .. n : m > n - kRxHistorySize}
<1> DEFINE H == kRxHistorySize
<1>1. H \in Nat \ {0} /\ n \in Int /\ Top \in Int /\ n >= 0 /\ SeqNrs \in Nat
  <2>1. kRxHistorySize \in Nat /\ Reported <= kRxHistorySize
    BY ReportAssumption
  <2>2. Reported \in Nat \ {0} /\ SeqNrs \in Nat
    BY WindowAssumption, SlotsAssumption
  <2> QED
    BY <2>1, <2>2, LinkTypes
<1>2. hist = {m \in 0 .. Top : m > Top - H}
  BY DEF Tidy, ReceiverTidy
<1>3. rx!Recorded(n) = {m \in hist : m % H # n % H} \cup {n}
  BY DEF rx!Recorded
<1> HIDE DEF H, Top
<1>4. ASSUME NEW m \in hist PROVE m % H # n % H <=> m > n - H
  <2>1. m \in Int /\ m < n /\ m >= n - H
    BY <1>1, <1>2
  <2>2. m % H = n % H => n - m >= H
    BY <1>1, <2>1, SameResidue
  <2>3. m = n - H => m % H = n % H
    <3> SUFFICES ASSUME m = n - H PROVE m % H = n % H
      OBVIOUS
    <3>1. n - m = H * 1 /\ 1 \in Int
      BY <1>1, <2>1
    <3>2. (n % H) = (m % H)
      BY <1>1, <2>1, <3>1, Congruent
    <3> QED
      BY <3>2
  <2>4. n - m >= H => m = n - H
    BY <1>1, <2>1
  <2>5. m > n - H <=> ~ (n - m >= H)
    BY <1>1, <2>1
  <2> QED
    BY <2>2, <2>3, <2>4, <2>5
<1>5. \A m : m \in hist /\ m > n - H <=> m \in 0 .. Top /\ m > n - H
  BY <1>1, <1>2
<1>6. \A m : m \in 0 .. n /\ m > n - H <=> (m \in 0 .. Top /\ m > n - H) \/ m = n
  BY <1>1
<1>7. rx!Recorded(n) = {m \in hist : m > n - H} \cup {n}
  BY <1>3, <1>4
<1> QED
  BY <1>5, <1>6, <1>7 DEF H

(* A message now ends with it, and reports it and those before it. *)
LEMMA NextBlock ==
  ASSUME LinkInv, Tidy, NEW n \in 0 .. SeqNrs - 1, n = Top + 1
  PROVE  Block(n).end = n /\ Block(n).rx = ReportOf(n)
<1>1. /\ SeqNrs \in Nat \ {0} /\ n \in Int /\ Top \in Int /\ Len(rtcp) \in Nat
      /\ nRtpSinceLastRtcp \in 0 .. AckDiff - 1 /\ AckDiff \in Nat \ {0}
      /\ 2 * AckDiff <= Reported /\ Reported \in Nat \ {0}
      /\ Reported <= kRxHistorySize /\ kRxHistorySize \in Nat
  BY SlotsAssumption, ReportAssumption, LinkTypes
<1>2. PICK b \in Int : Chain(b)
  BY DEF Tidy
<1>3. Top - nRtpSinceLastRtcp >= -1
  <2>1. CASE Len(rtcp) = 0
    BY <1>1, <1>2, <2>1 DEF Chain, EndOf
  <2>2. CASE Len(rtcp) # 0
    <3>1. Len(rtcp) \in 1 .. Len(rtcp)
      BY <1>1, <2>2
    <3>2. rtcp[Len(rtcp)].end \in 0 .. SeqNrs - 1
      BY <3>1, LinkTypes
    <3> QED
      BY <1>1, <1>2, <2>2, <3>2 DEF Chain, EndOf
  <2> QED
    BY <2>1, <2>2
<1>4. rx!HighestAfter(n) = n
  BY NextHighest
<1>5. highestSeqNrTx = KnownAs(Top - nRtpSinceLastRtcp)
  BY DEF Tidy, ReceiverTidy
<1>6. n - highestSeqNrTx <= Reported /\ highestSeqNrTx \in Int
  <2> HIDE DEF Top
  <2> QED
    BY <1>1, <1>3, <1>5 DEF KnownAs
<1>7. Block(n).end = n
  <2>1. Block(n).end = rx!BlockEnd(highestSeqNrTx, n)
    BY <1>4 DEF Block
  <2>2. ~ (n - highestSeqNrTx > Reported)
    BY <1>1, <1>6
  <2> QED
    BY <2>1, <2>2 DEF rx!BlockEnd
<1>8. Block(n).rx = rx!ReportedIn(rx!Recorded(n), n)
  BY <1>7 DEF Block
<1> DEFINE R == rx!Recorded(n)
<1>9. R = {m \in 0 .. n : m > n - kRxHistorySize}
  BY NextRecorded
<1>10. rx!ReportedIn(R, n) =
         {rx!SeqNr(m) : m \in {k \in R : (n - rx!SeqNr(k)) % SeqNrs < Reported}}
  BY DEF rx!ReportedIn
<1> HIDE DEF R
<1>11. ASSUME NEW k \in R
       PROVE  rx!SeqNr(k) = k /\ ((n - rx!SeqNr(k)) % SeqNrs < Reported <=> k > n - Reported)
  <2>1. k \in 0 .. SeqNrs - 1 /\ n - k \in 0 .. SeqNrs - 1 /\ k \in Int
    BY <1>1, <1>9
  <2>2. rx!SeqNr(k) = k
    BY <2>1, FirstNumbers DEF rx!SeqNr, SeqNr
  <2>3. (n - k) % SeqNrs = n - k
    BY <1>1, <2>1, SmallResidue
  <2>4. n - k < Reported <=> k > n - Reported
    BY <1>1, <2>1
  <2> QED
    BY <2>2, <2>3, <2>4
<1>12. rx!ReportedIn(R, n) = {k \in R : k > n - Reported}
  BY <1>10, <1>11
<1>13. \A k \in 0 .. n : k > n - Reported => k > n - kRxHistorySize
  BY <1>1
<1>14. {k \in R : k > n - Reported} = ReportOf(n)
  BY <1>9, <1>13 DEF ReportOf
<1> QED
  BY <1>7, <1>8, <1>12, <1>14 DEF R

LEMMA ArriveTidy ==
  ASSUME LinkInv, Tidy, NEW i \in 1 .. Len(rtp), NEW elapsed \in BOOLEAN,
         Arrive(i, elapsed), net'.tidy
  PROVE  Tidy'
<1> DEFINE n == rtp[i].n
           mark == rtp[i].mark
           due == Due(mark, elapsed)
<1>1. /\ highestSeqNr' = rx!HighestAfter(n) /\ hist' = rx!Recorded(n)
      /\ highestSeqNrTx' = IF due THEN Block(n).end ELSE highestSeqNrTx
      /\ doFlush' = IF due THEN Block(n).end # rx!HighestAfter(n) ELSE (doFlush \/ mark)
      /\ nRtpSinceLastRtcp' = IF due THEN 0 ELSE nRtpSinceLastRtcp + 1
      /\ received' = received \cup {n}
      /\ rtp' = RemoveAt(rtp, i)
      /\ rtcp' = IF due THEN Queue(rtcp, Block(n)) ELSE rtcp
      /\ net' = Untidy(i > 1 \/ (due /\ Len(rtcp) = MaxInTransit))
      /\ UNCHANGED <<vars, restarts>>
  BY ArriveIs
<1>2. ~ (i > 1 \/ (due /\ Len(rtcp) = MaxInTransit)) /\ net' = net
  <2>1. net' = IF i > 1 \/ (due /\ Len(rtcp) = MaxInTransit)
                 THEN [clean |-> FALSE, tidy |-> FALSE, missed |-> FALSE] ELSE net
    BY <1>1 DEF Untidy
  <2> QED
    BY <2>1
<1>3. SenderTidy /\ ReceiverTidy /\ NetInv /\ Outgoing /\ TableInv
  BY DEF Tidy, LinkInv
<1>4. PICK b \in Int : Chain(b)
  BY DEF Tidy
<1>5. /\ last.n \in Int /\ Len(rtp) \in Nat /\ Len(rtcp) \in Nat /\ Top \in Int
      /\ Len(rtcp) <= MaxInTransit /\ MaxInTransit \in Nat
      /\ nRtpSinceLastRtcp \in 0 .. AckDiff - 1 /\ AckDiff \in Nat \ {0}
      /\ n \in Int /\ mark \in BOOLEAN
  BY LinkTypes
<1>6. i = 1 /\ n = Top + 1 /\ Len(rtp) >= 1
  <2>1. i = 1 /\ Len(rtp) >= 1
    BY <1>2, <1>5
  <2>2. n = Top + i
    BY <1>3 DEF ReceiverTidy
  <2> QED
    BY <2>1, <2>2
<1>7. /\ Top >= -1 /\ received = 0 .. Top /\ ~doFlush
      /\ highestSeqNrTx = KnownAs(Top - nRtpSinceLastRtcp)
      /\ \A j \in 1 .. Len(rtp) : rtp[j].n = Top + j
      /\ \A j \in 1 .. Len(rtcp) : rtcp[j].rx = ReportOf(rtcp[j].end)
  BY <1>3 DEF ReceiverTidy
<1>8. n \in 0 .. SeqNrs - 1
  <2>1. last.n < SeqNrs /\ SeqNrs \in Nat
    BY <1>3, SenderTypes
  <2>2. n <= last.n
    BY <1>5, <1>6 DEF Top
  <2> QED
    BY <1>5, <1>6, <1>7, <2>1, <2>2
<1>9. /\ rx!HighestAfter(n) = n /\ rx!Recorded(n) = {m \in 0 .. n : m > n - kRxHistorySize}
      /\ Block(n).end = n /\ Block(n).rx = ReportOf(n)
  BY <1>6, <1>8, NextHighest, NextRecorded, NextBlock
<1>10. Top' = n
  <2>1. rtp \in Seq(RtpPackets)
    BY <1>3 DEF NetInv
  <2>2. Len(rtp') = Len(rtp) - 1
    BY <1>1, <2>1, RemoveAtIs
  <2>3. last' = last
    BY <1>1 DEF vars
  <2> QED
    BY <1>5, <1>6, <2>2, <2>3 DEF Top
<1>11. ~due => ~mark /\ nRtpSinceLastRtcp + 1 \in 0 .. AckDiff - 1
  <2>1. mark => due
    BY DEF Due, rx!DueAfter, rx!Due
  <2>2. nRtpSinceLastRtcp + 1 >= AckDiff => due
    BY DEF Due, rx!DueAfter, rx!Due
  <2> HIDE DEF due
  <2> QED
    BY <1>5, <2>1, <2>2
<1>12. due \in BOOLEAN
  BY DEF Due, rx!DueAfter, rx!Due
<1>13. \A j \in 1 .. Len(rtp') : rtp'[j].n = n + j
  <2>1. rtp \in Seq(RtpPackets)
    BY <1>3 DEF NetInv
  <2>2. /\ Len(rtp') = Len(rtp) - 1
        /\ \A j \in 1 .. Len(rtp) - 1 : rtp'[j] = IF j < i THEN rtp[j] ELSE rtp[j + 1]
    BY <1>1, <2>1, RemoveAtIs
  <2> SUFFICES ASSUME NEW j \in 1 .. Len(rtp') PROVE rtp'[j].n = n + j
    OBVIOUS
  <2>3. j \in 1 .. Len(rtp) - 1 /\ ~ (j < i) /\ j + 1 \in 1 .. Len(rtp) /\ j \in Int
    BY <1>5, <1>6, <2>2
  <2>4. rtp'[j] = rtp[j + 1] /\ rtp[j + 1].n = Top + (j + 1)
    BY <1>7, <2>2, <2>3
  <2> QED
    BY <1>5, <1>6, <2>3, <2>4
<1> HIDE DEF due, n, mark, Top
<1>14. SenderTidy'
  <2>1. UNCHANGED <<txPackets, bytesInFlight, hiSeqAck, timeTxAck, timeStampAckHigh,
                    sending, last, sent, history>>
    BY <1>1 DEF vars
  <2> QED
    BY <1>3, <2>1 DEF SenderTidy, Progress, TxState, Registered
<1>15. received' = 0 .. n
  BY <1>1, <1>5, <1>6, <1>7
<1>16. history' = history
  BY <1>1 DEF vars
<1>17. \A j \in 1 .. Len(rtcp) : /\ EndOf(b, j) - EndOf(b, j - 1) \in 1 .. AckDiff
                                 /\ EndOf(b, j) <= Top
  BY <1>4 DEF Chain
<1>18. /\ -1 <= b /\ b <= n
       /\ IF net.missed THEN b - history.edge \in 0 .. AckDiff ELSE b = history.edge
       /\ Top - nRtpSinceLastRtcp = EndOf(b, Len(rtcp))
  BY <1>4, <1>5, <1>6 DEF Chain
<1>19. \A j : EndOf(b, j)' = IF j = 0 THEN b ELSE rtcp'[j].end
  BY DEF EndOf
<1>20. CASE due
  <2>1. Len(rtcp) < MaxInTransit
    BY <1>2, <1>5, <1>20
  <2>2. Block(n) \in Blocks
    <3>1. Block(n) = [end |-> n, rx |-> ReportOf(n)]
      BY <1>9 DEF Block
    <3>2. ReportOf(n) \subseteq 0 .. SeqNrs - 1
      <4>1. SeqNrs \in Nat
        BY SpanIs
      <4> QED
        BY <1>8, <4>1 DEF ReportOf
    <3> QED
      BY <1>8, <3>1, <3>2 DEF Blocks
  <2>3. /\ Len(rtcp') = Len(rtcp) + 1
        /\ \A j \in 1 .. Len(rtcp) : rtcp'[j] = rtcp[j]
        /\ rtcp'[Len(rtcp) + 1] = Block(n)
    <3>1. rtcp \in Seq(Blocks)
      BY <1>3 DEF NetInv
    <3>2. /\ Len(Queue(rtcp, Block(n))) = Len(rtcp) + 1
          /\ \A j \in 1 .. Len(rtcp) : Queue(rtcp, Block(n))[j] = rtcp[j]
          /\ Queue(rtcp, Block(n))[Len(rtcp) + 1] = Block(n)
      BY <1>5, <2>1, <2>2, <3>1, QueueIs
    <3>3. rtcp' = Queue(rtcp, Block(n))
      BY <1>1, <1>20
    <3> QED
      BY <3>2, <3>3
  <2>4. highestSeqNrTx' = n /\ ~doFlush' /\ nRtpSinceLastRtcp' = 0
    BY <1>1, <1>9, <1>20
  <2>5. ReceiverTidy'
    <3>1. \A j \in 1 .. Len(rtcp') : rtcp'[j].rx = ReportOf(rtcp'[j].end)
      <4> SUFFICES ASSUME NEW j \in 1 .. Len(rtcp') PROVE rtcp'[j].rx = ReportOf(rtcp'[j].end)
        OBVIOUS
      <4>1. j \in 1 .. Len(rtcp) \/ j = Len(rtcp) + 1
        BY <1>5, <2>3
      <4> QED
        BY <1>7, <1>9, <2>3, <4>1
    <3>2. KnownAs(n) = n /\ n - 0 = n /\ n >= -1
      BY <1>5, <1>6, <1>7 DEF KnownAs
    <3> QED
      BY <1>1, <1>9, <1>10, <1>13, <1>15, <2>4, <3>1, <3>2 DEF ReceiverTidy
  <2>6. Chain(b)'
    <3>1. ASSUME NEW j \in 1 .. Len(rtcp')
          PROVE  EndOf(b, j)' - EndOf(b, j - 1)' \in 1 .. AckDiff /\ EndOf(b, j)' <= n
      <4>1. CASE j \in 1 .. Len(rtcp)
        <5>1. j - 1 = 0 \/ j - 1 \in 1 .. Len(rtcp)
          BY <1>5, <4>1
        <5>2. EndOf(b, j)' = EndOf(b, j) /\ EndOf(b, j - 1)' = EndOf(b, j - 1)
          BY <1>19, <2>3, <4>1, <5>1 DEF EndOf
        <5>3. EndOf(b, j) \in Int
          <6>1. j # 0 /\ rtcp[j].end \in Int
            BY <1>5, <4>1, LinkTypes
          <6> QED
            BY <6>1 DEF EndOf
        <5>4. EndOf(b, j) - EndOf(b, j - 1) \in 1 .. AckDiff /\ EndOf(b, j) <= Top
          BY <1>17, <4>1
        <5> QED
          BY <1>5, <1>6, <5>2, <5>3, <5>4
      <4>2. CASE j = Len(rtcp) + 1
        <5>1. EndOf(b, j)' = n
          BY <1>5, <1>9, <1>19, <2>3, <4>2
        <5>2. EndOf(b, j - 1)' = EndOf(b, Len(rtcp))
          <6>1. j - 1 = Len(rtcp) /\ (Len(rtcp) = 0 \/ Len(rtcp) \in 1 .. Len(rtcp))
            BY <1>5, <4>2
          <6> QED
            BY <1>19, <2>3, <6>1 DEF EndOf
        <5>3. n - (Top - nRtpSinceLastRtcp) \in 1 .. AckDiff /\ n <= n
          BY <1>5, <1>6
        <5> QED
          BY <1>18, <5>1, <5>2, <5>3
      <4> QED
        BY <1>5, <2>3, <4>1, <4>2
    <3>2. n - 0 = EndOf(b, Len(rtcp))'
      <4>1. Len(rtcp') # 0 /\ rtcp'[Len(rtcp')].end = n
        BY <1>5, <1>9, <2>3
      <4> QED
        BY <1>5, <4>1 DEF EndOf
    <3> QED
      BY <1>2, <1>10, <1>16, <1>18, <2>4, <3>1, <3>2 DEF Chain
  <2> QED
    BY <1>14, <2>5, <2>6 DEF Tidy
<1>21. CASE ~due
  <2>1. /\ highestSeqNrTx' = highestSeqNrTx /\ ~doFlush' /\ rtcp' = rtcp
        /\ nRtpSinceLastRtcp' = nRtpSinceLastRtcp + 1
    BY <1>1, <1>7, <1>11, <1>21
  <2>2. n - (nRtpSinceLastRtcp + 1) = Top - nRtpSinceLastRtcp
    BY <1>5, <1>6
  <2>3. ReceiverTidy'
    <3>1. KnownAs(n) = n /\ n >= -1
      BY <1>5, <1>6, <1>7 DEF KnownAs
    <3> QED
      BY <1>1, <1>7, <1>9, <1>10, <1>13, <1>15, <2>1, <2>2, <3>1 DEF ReceiverTidy
  <2>4. Chain(b)'
    <3>1. ASSUME NEW j \in 1 .. Len(rtcp)
          PROVE  EndOf(b, j) - EndOf(b, j - 1) \in 1 .. AckDiff /\ EndOf(b, j) <= n
      <4>1. EndOf(b, j) \in Int
        <5>1. j # 0 /\ rtcp[j].end \in Int
          BY <1>5, LinkTypes
        <5> QED
          BY <5>1 DEF EndOf
      <4>2. EndOf(b, j) - EndOf(b, j - 1) \in 1 .. AckDiff /\ EndOf(b, j) <= Top
        BY <1>17
      <4> QED
        BY <1>5, <1>6, <4>1, <4>2
    <3>2. \A j : EndOf(b, j)' = EndOf(b, j)
      BY <2>1 DEF EndOf
    <3> QED
      BY <1>2, <1>10, <1>16, <1>18, <2>1, <2>2, <3>1, <3>2 DEF Chain
  <2> QED
    BY <1>14, <2>3, <2>4 DEF Tidy
<1> QED
  BY <1>20, <1>21

(* What only deteriorates: a clean network of the first session is tidy.    *)
CleanInv ==
  /\ last.n >= -1
  /\ net.clean => ~net.missed /\ (net.tidy \/ last.n + 1 >= SeqNrs)

LEMMA TidyKeeps ==
  ASSUME LinkInv, TidyInv, [LinkNext]_linkVars
  PROVE  TidyInv'
<1> SUFFICES ASSUME net'.tidy PROVE Tidy'
  BY DEF TidyInv
<1>1. net \in [clean : BOOLEAN, tidy : BOOLEAN, missed : BOOLEAN]
  BY DEF LinkInv, NetInv
<1>2. /\ ~Untidy(TRUE).tidy
      /\ \A m \in BOOLEAN : (Untidy(m).tidy => net.tidy) /\ (Missed(m).tidy => net.tidy)
  BY <1>1 DEF Untidy, Missed
<1>3. net.tidy => Tidy
  BY DEF TidyInv
<1>4. ASSUME NEW p \in NextPackets, LinkTransmit(p) PROVE Tidy'
  <2>1. net' = Untidy(Len(rtp) = MaxInTransit)
    BY <1>4 DEF LinkTransmit
  <2>2. Tidy
    BY <1>2, <1>3, <2>1
  <2> QED
    BY <1>4, <2>2, TransmitTidy
<1>5. ASSUME NEW p \in NextPackets, LinkTransmitAfterTimeout(p) PROVE FALSE
  BY <1>2, <1>5 DEF LinkTransmitAfterTimeout
<1>6. CASE LinkAddTransmitted
  <2>1. net' = net
    BY <1>6 DEF LinkAddTransmitted
  <2> QED
    BY <1>3, <1>6, <2>1, AddTransmittedTidy
<1>7. CASE LinkTick \/ UNCHANGED linkVars
  <2>1. net' = net
    BY <1>7 DEF LinkTick, linkVars
  <2> QED
    BY <1>3, <1>7, <2>1, TickTidy
<1>8. ASSUME NEW i \in 1 .. Len(rtcp), LinkFeedback(i) PROVE Tidy'
  <2> DEFINE early == \E p \in ToSet(sending) : SeqNr(p.n) \in rtcp[i].rx
  <2>1. net' = IF i = 1 THEN Missed(early) ELSE Untidy(TRUE)
    BY <1>8 DEF LinkFeedback
  <2>2. early \in BOOLEAN
    OBVIOUS
  <2> HIDE DEF early
  <2>3. i = 1 /\ net.tidy
    BY <1>2, <2>1, <2>2
  <2>4. Len(rtcp) >= 1
    <3>1. Len(rtcp) \in Nat
      BY LinkTypes
    <3> QED
      BY <2>3, <3>1
  <2> QED
    BY <1>3, <1>8, <2>3, <2>4, FeedbackTidy
<1>9. ASSUME NEW i \in 1 .. Len(rtp), NEW elapsed \in BOOLEAN, Arrive(i, elapsed)
      PROVE  Tidy'
  <2>1. \E m \in BOOLEAN : net' = Untidy(m)
    BY <1>9 DEF Arrive
  <2>2. Tidy
    BY <1>2, <1>3, <2>1
  <2> QED
    BY <1>9, <2>2, ArriveTidy
<1>10. CASE LosePacket \/ RestartReceiver
  <2>1. net' = Untidy(TRUE)
    BY <1>10 DEF LosePacket, RestartReceiver
  <2> QED
    BY <1>2, <2>1
<1>11. CASE LoseMessage
  <2>1. net' = Missed(TRUE)
    BY <1>11 DEF LoseMessage
  <2>2. net.tidy
    BY <1>2, <2>1
  <2> QED
    BY <1>3, <1>11, <2>2, LoseMessageTidy
<1>12. CASE RestartSender
  BY <1>12 DEF RestartSender
<1> QED
  BY <1>4, <1>5, <1>6, <1>7, <1>8, <1>9, <1>10, <1>11, <1>12 DEF LinkNext

LEMMA CleanKeeps ==
  ASSUME LinkInv, CleanInv, [LinkNext]_linkVars
  PROVE  CleanInv'
<1>1. /\ net \in [clean : BOOLEAN, tidy : BOOLEAN, missed : BOOLEAN]
      /\ last.n \in Int /\ SeqNrs \in Nat \ {0}
  BY SlotsAssumption, LinkTypes DEF LinkInv, NetInv
<1>2. /\ ~Untidy(TRUE).clean /\ ~Missed(TRUE).clean
      /\ \A m \in BOOLEAN : Untidy(m).clean => Untidy(m) = net
      /\ \A m \in BOOLEAN :
           Missed(m).clean => net.clean /\ ~Missed(m).missed /\ (Missed(m).tidy <=> net.tidy)
  BY <1>1 DEF Untidy, Missed
<1>3. ASSUME last' = last, ~net'.clean \/ net' = net PROVE CleanInv'
  BY <1>3 DEF CleanInv
<1>4. ASSUME last' = last, NEW m \in BOOLEAN, net' = Untidy(m) PROVE CleanInv'
  BY <1>2, <1>3, <1>4
<1>5. ASSUME last' = last, NEW m \in BOOLEAN, net' = Missed(m) PROVE CleanInv'
  <2>1. net'.clean => net.clean /\ ~net'.missed /\ (net'.tidy <=> net.tidy)
    BY <1>2, <1>5
  <2>2. last'.n = last.n
    BY <1>5
  <2>3. last.n >= -1 /\ (net.clean => net.tidy \/ last.n + 1 >= SeqNrs)
    BY DEF CleanInv
  <2> QED
    BY <2>1, <2>2, <2>3, Zenon DEF CleanInv
<1>6. ASSUME NEW p \in NextPackets, LinkTransmit(p) \/ LinkTransmitAfterTimeout(p)
      PROVE  CleanInv'
  <2>1. \E m \in BOOLEAN : net' = Untidy(m)
    BY <1>6 DEF LinkTransmit, LinkTransmitAfterTimeout
  <2>2. Queued(p) /\ last'.n = p.n
    <3>1. Queued(p) /\ \E t \in BOOLEAN : Send(p, t)
      BY <1>6 DEF LinkTransmit, LinkTransmitAfterTimeout, Transmit, TransmitAfterTimeout
    <3>2. last' = [n |-> p.n, ts |-> p.ts, mark |-> p.mark]
      BY <3>1, Zenon DEF Send
    <3> QED
      BY <3>1, <3>2
  <2>3. p.n \in Int /\ p.n >= last.n + 1
    BY <2>2, QueuedIs DEF LinkInv
  <2>4. ~net'.clean \/ net' = net
    BY <1>2, <2>1
  <2> QED
    BY <1>1, <2>2, <2>3, <2>4 DEF CleanInv
<1>7. CASE LinkAddTransmitted \/ LinkTick \/ UNCHANGED linkVars
  <2>1. last' = last /\ net' = net
    BY <1>7 DEF LinkAddTransmitted, AddTransmitted, LinkTick, Tick, linkVars, vars
  <2> QED
    BY <1>3, <2>1
<1>8. ASSUME NEW i \in 1 .. Len(rtcp), LinkFeedback(i) PROVE CleanInv'
  <2>1. \E m \in BOOLEAN : net' = Missed(m) \/ net' = Untidy(m)
    BY <1>8 DEF LinkFeedback
  <2>2. last' = last
    BY <1>8 DEF LinkFeedback
  <2> QED
    BY <1>4, <1>5, <2>1, <2>2
<1>9. ASSUME NEW i \in 1 .. Len(rtp), NEW elapsed \in BOOLEAN, Arrive(i, elapsed)
      PROVE  CleanInv'
  <2>1. (\E m \in BOOLEAN : net' = Untidy(m)) /\ last' = last
    BY <1>9 DEF Arrive, vars
  <2> QED
    BY <1>4, <2>1
<1>10. CASE LosePacket \/ RestartReceiver \/ LoseMessage
  <2>1. (net' = Untidy(TRUE) \/ net' = Missed(TRUE)) /\ last' = last
    BY <1>10 DEF LosePacket, RestartReceiver, LoseMessage, vars
  <2> QED
    BY <1>4, <1>5, <2>1
<1>11. CASE RestartSender
  <2> DEFINE first == (Session + 1) * SeqNrs
  <2>1. last'.n = first - 1 /\ ~net'.missed
    BY <1>11 DEF RestartSender
  <2>2. Session \in Nat
    <3>1. last.n + 1 \in Nat
      BY <1>1 DEF CleanInv
    <3> QED
      BY <1>1, <3>1 DEF Session
  <2>3. first \in Int /\ first >= SeqNrs
    <3>1. (Session + 1) * SeqNrs = Session * SeqNrs + SeqNrs /\ Session * SeqNrs \in Nat
      BY <1>1, <2>2
    <3> QED
      BY <1>1, <3>1
  <2> HIDE DEF first
  <2> QED
    BY <1>1, <2>1, <2>3 DEF CleanInv
<1> QED
  BY <1>6, <1>7, <1>8, <1>9, <1>10, <1>11 DEF LinkNext

(* On a tidy network the sender and the receiver agree, packet by packet.   *)
THEOREM TidyInvariant == LinkSpec => [](LinkInv /\ TidyInv /\ CleanInv)
<1>1. LinkInit => LinkInv /\ TidyInv /\ CleanInv
  <2> SUFFICES ASSUME LinkInit PROVE LinkInv /\ TidyInv /\ CleanInv
    OBVIOUS
  <2>1. net = [clean |-> TRUE, tidy |-> TRUE, missed |-> FALSE]
    BY DEF LinkInit
  <2>2. last.n = -1
    <3>1. \E start \in Starts : last = [n |-> start - 1, ts |-> 0, mark |-> TRUE]
      BY DEF LinkInit, Init
    <3> QED
      BY <3>1, SessionAssumption
  <2> QED
    BY <2>1, <2>2, LinkInitHolds, TidyInitHolds DEF TidyInv, CleanInv
<1>2. LinkInv /\ TidyInv /\ CleanInv /\ [LinkNext]_linkVars => TidyInv' /\ CleanInv'
  BY TidyKeeps, CleanKeeps
<1> QED
  BY <1>1, <1>2, LinkInvariant, PTL DEF LinkSpec

(* As long as packets come in order and no two messages in a row are lost,  *)
(* late or early, the sender declares none lost: each report repeats enough *)
(* of the one before.                                                       *)
THEOREM NoSpuriousLossCorrect == LinkSpec => []NoSpuriousLoss
<1>1. TidyInv => NoSpuriousLoss
  BY DEF TidyInv, Tidy, SenderTidy, Progress, TxState, NoSpuriousLoss
<1> QED
  BY <1>1, TidyInvariant, PTL

(* In the first session, when everything sent has arrived and has been      *)
(* reported, all is acknowledged and nothing is left in flight.             *)
THEOREM FirstSessionCorrect == LinkSpec => []FirstSessionAcked
<1>1. LinkInv /\ TidyInv /\ CleanInv => FirstSessionAcked
  <2> DEFINE ours == {n \in sent : n \div SeqNrs = Session}
  <2> SUFFICES ASSUME LinkInv, TidyInv, CleanInv, Session = 0, net.clean,
                      sending = <<>>, rtp = <<>>, rtcp = <<>>, nRtpSinceLastRtcp = 0
               PROVE  history.acked = ours /\ bytesInFlight = 0
    BY DEF FirstSessionAcked, AllAcked
  <2>1. SeqNrs \in Nat \ {0} /\ last.n \in Int /\ last.n >= -1 /\ history.edge \in Int
    BY SlotsAssumption, LinkTypes DEF CleanInv
  <2>2. last.n + 1 < SeqNrs
    <3> DEFINE m == last.n + 1
    <3>1. m \in Nat /\ m \div SeqNrs = 0
      BY <2>1 DEF Session
    <3> HIDE DEF m
    <3>2. m < SeqNrs
      BY <2>1, <3>1
    <3> QED
      BY <3>2 DEF m
  <2>3. ~net.missed /\ Tidy
    BY <2>1, <2>2 DEF CleanInv, TidyInv
  <2>4. PICK b \in Int : Chain(b)
    BY <2>3 DEF Tidy
  <2>5. last.n = history.edge
    <3>1. Len(rtp) = 0 /\ Len(rtcp) = 0
      OBVIOUS
    <3> QED
      BY <2>1, <2>3, <2>4, <3>1 DEF Chain, EndOf, Top
  <2>6. Registered = last.n
    BY DEF Registered
  <2>7. /\ sent = 0 .. last.n /\ bytesInFlight = Bytes(txPackets)
        /\ history.acked = 0 .. history.edge
        /\ \A p \in txPackets : history.edge < p.n
    BY <2>3 DEF Tidy, SenderTidy, Progress, TxState
  <2>8. txPackets = {}
    <3>1. \A p \in txPackets : p.n \in Int /\ p.n <= Registered
      BY DEF LinkInv, TableInv, Table, States, Packets, TxState
    <3> QED
      BY <2>1, <2>5, <2>6, <2>7, <3>1
  <2>9. ours = sent
    <3>1. \A n \in 0 .. last.n : n \div SeqNrs = 0
      BY <2>1, <2>2
    <3> QED
      BY <2>7, <3>1
  <2> QED
    BY <2>5, <2>7, <2>8, <2>9, FS_EmptySet, SumChosen
<1> QED
  BY <1>1, TidyInvariant, PTL
=============================================================================
