----------------------------- MODULE FlowsProofs -----------------------------
(***************************************************************************)
(* Proofs about the resequencer and the flows through it, for rings, waits *)
(* and numbers of sessions of any size, any clock and any order of the     *)
(* packets.                                                                *)
(***************************************************************************)
EXTENDS Flows, FiniteSetTheorems, SequenceTheorems, WellFoundedInduction, TLAPS

(* What can be held.                                                       *)
Incomings == [key : Key, counter : Nat, epoch : Nat, sender : Sender, n : Nat]
HeldEntry == [packet : Incomings, arrived : Nat]
Slots == UNION {[D -> HeldEntry] : D \in SUBSET (0 .. RING - 1)}
Rings == [slots : Slots, count : Nat, lo : Nat, hi : Nat, oldest : Nat]
Taken == [ring : Rings, out : Seq(Incomings)]

CounterAt(ring, i) == ring.slots[i].packet.counter
Holds(ring, c) == \E i \in DOMAIN ring.slots : CounterAt(ring, i) = c

(* A ring in order, from which everything before the number from has gone: *)
(* the slots answer for as many numbers as there are slots, so that each   *)
(* number has a slot of its own, and what is kept beside them is true.     *)
RingFits(ring, from) ==
    /\ ring.count = Cardinality(DOMAIN ring.slots)
    /\ \A i \in DOMAIN ring.slots :
          /\ RingIndex(CounterAt(ring, i)) = i
          /\ CounterAt(ring, i) \in ring.lo .. ring.hi
          /\ ring.oldest <= ring.slots[i].arrived
    /\ ring.count # 0 =>
          /\ from <= ring.lo /\ ring.hi < from + RING
          /\ Holds(ring, ring.lo) /\ Holds(ring, ring.hi)

(* The earliest arrival is that of a held packet.                          *)
Exact(ring) == ring.count # 0 => \E i \in DOMAIN ring.slots : ring.slots[i].arrived = ring.oldest

-----------------------------------------------------------------------------
(* Folds over a sequence.  The library's induction takes a predicate as a  *)
(* parameter; here it is about a set.                                      *)

LEMMA SetInduction ==
    ASSUME NEW T \in SUBSET Nat, 0 \in T, \A n \in T : n + 1 \in T
    PROVE  T = Nat
<1> SUFFICES ASSUME Nat \ T # {}
             PROVE  FALSE
  OBVIOUS
<1> DEFINE Less == OpToRel(<, Nat)
<1>1. IsWellFoundedOn(Less, Nat)
  BY NatLessThanWellFounded
<1>2. PICK m \in Nat \ T : \A n \in Nat \ T : <<n, m>> \notin Less
  <2> HIDE DEF Less
  <2> QED
    BY <1>1, WFMin, Nat \ T \subseteq Nat, Zenon
<1>0. m \in Nat /\ m # 0
  BY <1>2
<1>3. m - 1 \in Nat /\ m - 1 < m
  BY <1>0
<1>4. m - 1 \in Nat \ T
  <2>1. ASSUME m - 1 \in T
        PROVE  m \in T
    <3>1. m - 1 + 1 \in T
      BY <2>1
    <3>2. m - 1 + 1 = m
      BY <1>0
    <3> QED
      BY <3>1, <3>2
  <2> QED
    BY <1>2, <1>3, <2>1
<1>5. <<m - 1, m>> \in Less
  BY <1>2, <1>3 DEF OpToRel
<1> QED
  BY <1>2, <1>4, <1>5

HasMax(t) == \E x \in t : \A y \in t : x >= y

LEMMA MaxIs ==
    ASSUME NEW n \in Nat, NEW s \in SUBSET (1 .. n), s # {}
    PROVE  Max(s) \in s /\ \A x \in s : Max(s) >= x
<1> DEFINE T == {m \in Nat : \A t \in SUBSET (1 .. m) : t # {} => HasMax(t)}
<1>1. 0 \in T
  <2>1. 1 .. 0 = {}
    OBVIOUS
  <2> QED
    BY <2>1
<1>2. ASSUME NEW m \in T
      PROVE  m + 1 \in T
  <2>1. m \in Nat /\ m + 1 \in Nat /\ \A t \in SUBSET (1 .. m) : t # {} => HasMax(t)
    OBVIOUS
  <2>2. ASSUME NEW t \in SUBSET (1 .. m + 1), t # {}
        PROVE  HasMax(t)
    <3>1. CASE m + 1 \in t
      BY <2>1, <3>1 DEF HasMax
    <3>2. CASE m + 1 \notin t
      <4>1. t \in SUBSET (1 .. m)
        BY <2>1, <3>2
      <4> QED
        BY <2>1, <2>2, <4>1
    <3> QED
      BY <3>1, <3>2
  <2> QED
    BY <2>1, <2>2
<1>3. T = Nat
  <2>1. T \in SUBSET Nat
    OBVIOUS
  <2> HIDE DEF T
  <2> QED
    BY <1>1, <1>2, <2>1, SetInduction
<1>4. HasMax(s)
  BY <1>3
<1> QED
  BY <1>4 DEF Max, HasMax

(* f is what the fold computes for each part of the places 1 .. n.          *)
FoldOf(f, n, b, Step) ==
    \A s \in SUBSET (1 .. n) :
        f[s] = IF s = {} THEN b ELSE Step[<<f[s \ {Max(s)}], Max(s)>>]

HasFold(n, S, b, Step) == \E f \in [SUBSET (1 .. n) -> S] : FoldOf(f, n, b, Step)

(* A step that stays in a set can be taken once for every place, in order. *)
LEMMA FoldExists ==
    ASSUME NEW n \in Nat, NEW S, NEW b \in S, NEW Step \in [S \X (1 .. n) -> S]
    PROVE  HasFold(n, S, b, Step)
<1> DEFINE T == {m \in Nat : m <= n => HasFold(m, S, b, Step)}
<1>1. 0 \in T
  <2>1. FoldOf([s \in SUBSET (1 .. 0) |-> b], 0, b, Step)
    BY DEF FoldOf
  <2> QED
    BY <2>1 DEF HasFold
<1>2. ASSUME NEW m \in T
      PROVE  m + 1 \in T
  <2>0. m \in Nat /\ m + 1 \in Nat
    OBVIOUS
  <2> SUFFICES ASSUME m + 1 <= n
               PROVE  HasFold(m + 1, S, b, Step)
    BY <2>0
  <2>1. PICK f \in [SUBSET (1 .. m) -> S] : FoldOf(f, m, b, Step)
    <3>1. m <= n
      BY <2>0
    <3>2. HasFold(m, S, b, Step)
      BY <3>1
    <3> QED
      BY <3>2 DEF HasFold
  <2> DEFINE g == [s \in SUBSET (1 .. m + 1) |->
                      IF m + 1 \in s THEN Step[<<f[s \ {m + 1}], m + 1>>] ELSE f[s]]
  <2>2. ASSUME NEW s \in SUBSET (1 .. m + 1), m + 1 \in s
        PROVE  /\ Max(s) = m + 1 /\ s \ {m + 1} \in SUBSET (1 .. m)
               /\ g[s] = Step[<<g[s \ {Max(s)}], Max(s)>>] /\ g[s] \in S
    <3>1. Max(s) \in s /\ Max(s) >= m + 1
      BY <2>0, <2>2, MaxIs
    <3>2. Max(s) = m + 1
      <4>1. Max(s) \in 1 .. m + 1
        BY <3>1
      <4> QED
        BY <2>0, <3>1, <4>1
    <3>3. s \ {m + 1} \in SUBSET (1 .. m)
      BY <2>0
    <3>4. f[s \ {m + 1}] \in S /\ <<f[s \ {m + 1}], m + 1>> \in S \X (1 .. n)
      BY <2>0, <2>1, <3>3
    <3>5. g[s \ {m + 1}] = f[s \ {m + 1}] /\ g[s] = Step[<<f[s \ {m + 1}], m + 1>>]
      BY <2>2, <3>3
    <3> QED
      BY <3>2, <3>3, <3>4, <3>5
  <2>3. ASSUME NEW s \in SUBSET (1 .. m + 1), m + 1 \notin s
        PROVE  /\ s \in SUBSET (1 .. m) /\ g[s] = f[s] /\ g[s] \in S
               /\ g[s] = IF s = {} THEN b ELSE Step[<<g[s \ {Max(s)}], Max(s)>>]
    <3>1. s \in SUBSET (1 .. m)
      BY <2>0, <2>3
    <3>2. g[s] = f[s] /\ g[s \ {Max(s)}] = f[s \ {Max(s)}]
      BY <2>3, <3>1
    <3> QED
      BY <2>1, <3>1, <3>2 DEF FoldOf
  <2>4. g \in [SUBSET (1 .. m + 1) -> S]
    <3> HIDE DEF g
    <3>1. \A s \in SUBSET (1 .. m + 1) : g[s] \in S
      BY <2>2, <2>3
    <3> QED
      BY <3>1 DEF g
  <2>5. FoldOf(g, m + 1, b, Step)
    <3> HIDE DEF g
    <3> QED
      BY <2>2, <2>3 DEF FoldOf
  <2> QED
    BY <2>4, <2>5 DEF HasFold
<1>3. T = Nat
  <2>1. T \in SUBSET Nat
    OBVIOUS
  <2> HIDE DEF T
  <2> QED
    BY <1>1, <1>2, <2>1, SetInduction
<1> QED
  BY <1>3

-----------------------------------------------------------------------------
(* The ring.                                                               *)

LEMMA MinOfIs ==
    ASSUME NEW s \in SUBSET Nat, s # {}
    PROVE  MinOf(s) \in s /\ \A x \in s : MinOf(s) <= x
<1> DEFINE Less == OpToRel(<, Nat)
<1>1. IsWellFoundedOn(Less, Nat)
  BY NatLessThanWellFounded
<1>2. PICK u \in s : \A v \in s : <<v, u>> \notin Less
  <2> HIDE DEF Less
  <2> QED
    BY <1>1, WFMin, Zenon
<1>3. \A v \in s : ~(v < u)
  BY <1>2 DEF OpToRel
<1>4. \A v \in s : u <= v
  BY <1>3
<1> QED
  BY <1>4 DEF MinOf

(* Numbers less than a ring apart have slots of their own.                 *)
LEMMA OwnSlots ==
    ASSUME NEW from \in Nat, NEW c \in from .. from + RING - 1, NEW d \in from .. from + RING - 1,
           RingIndex(c) = RingIndex(d)
    PROVE  c = d
<1>0. RING \in Nat /\ RING > 1
  BY RingAssumption
<1> DEFINE qc == c \div RING
           qd == d \div RING
<1>1. c \in Nat /\ d \in Nat /\ c % RING = d % RING
  BY <1>0 DEF RingIndex
<1>2. c = RING * qc + (c % RING) /\ qc \in Int
  BY <1>0, <1>1
<1>3. d = RING * qd + (d % RING) /\ qd \in Int
  BY <1>0, <1>1
<1> HIDE DEF qc, qd
<1>4. PICK m \in Int : m = c % RING
  BY <1>0, <1>1
<1>5. c - d = RING * (qc - qd)
  BY <1>0, <1>1, <1>2, <1>3, <1>4
<1>6. c - d < RING /\ d - c < RING
  BY <1>0
<1>7. PICK e \in Int : e = qc - qd
  BY <1>2, <1>3
<1>8. ~(e >= 1)
  <2>1. e >= 1 => RING * e >= RING
    BY <1>0, <1>7
  <2> QED
    BY <1>0, <1>5, <1>6, <1>7, <2>1
<1>9. ~(e <= -1)
  <2>1. e <= -1 => RING * e <= -RING
    BY <1>0, <1>7
  <2> QED
    BY <1>0, <1>1, <1>5, <1>6, <1>7, <2>1
<1>10. e = 0
  BY <1>7, <1>8, <1>9
<1> QED
  BY <1>0, <1>1, <1>5, <1>7, <1>10

LEMMA RingIs ==
    ASSUME NEW ring \in Rings, NEW from \in Nat, RingFits(ring, from)
    PROVE  /\ IsFiniteSet(DOMAIN ring.slots) /\ DOMAIN ring.slots \subseteq 0 .. RING - 1
           /\ ring.slots \in [DOMAIN ring.slots -> HeldEntry]
           /\ ring.count = 0 <=> DOMAIN ring.slots = {}
           /\ \A i, j \in DOMAIN ring.slots : CounterAt(ring, i) = CounterAt(ring, j) => i = j
           /\ \A c \in Nat : RingHas(ring, c) <=> Holds(ring, c)
<1>1. PICK D \in SUBSET (0 .. RING - 1) : ring.slots \in [D -> HeldEntry]
  BY DEF Rings, Slots
<1>2. DOMAIN ring.slots = D
  BY <1>1
<1>3. IsFiniteSet(D)
  <2>1. RING - 1 \in Int /\ 0 \in Int
    BY RingAssumption
  <2>2. IsFiniteSet(0 .. RING - 1)
    BY <2>1, FS_Interval
  <2> QED
    BY <2>2, FS_Subset
<1>4. ring.count = 0 <=> D = {}
  BY <1>2, <1>3, FS_EmptySet DEF RingFits
<1>5. \A i, j \in D : CounterAt(ring, i) = CounterAt(ring, j) => i = j
  BY <1>2 DEF RingFits
<1>6. ASSUME NEW c \in Nat
      PROVE  RingHas(ring, c) <=> Holds(ring, c)
  <2>1. ASSUME RingHas(ring, c)
        PROVE  Holds(ring, c)
    <3>1. RingIndex(c) \in D /\ c \in ring.lo .. ring.hi /\ ring.count # 0
      BY <1>2, <2>1 DEF RingHas, Occupied
    <3>2. PICK d \in Nat : d = CounterAt(ring, RingIndex(c))
      BY <1>1, <3>1 DEF CounterAt, HeldEntry, Incomings
    <3>3. RingIndex(d) = RingIndex(c) /\ d \in ring.lo .. ring.hi
      BY <1>2, <3>1, <3>2 DEF RingFits
    <3>4. c \in from .. from + RING - 1 /\ d \in from .. from + RING - 1
      BY <3>1, <3>3, RingAssumption DEF RingFits, Rings
    <3>5. c = d
      BY <3>3, <3>4, OwnSlots
    <3> QED
      BY <1>2, <3>1, <3>2, <3>5 DEF Holds
  <2>2. ASSUME Holds(ring, c)
        PROVE  RingHas(ring, c)
    <3>1. PICK i \in D : CounterAt(ring, i) = c
      BY <1>2, <2>2 DEF Holds
    <3>2. RingIndex(c) = i /\ c \in ring.lo .. ring.hi
      BY <1>2, <3>1 DEF RingFits
    <3>3. ring.count > 0
      BY <1>4, <3>1 DEF Rings
    <3> QED
      BY <1>2, <3>1, <3>2, <3>3 DEF RingHas, Occupied
  <2> QED
    BY <2>1, <2>2
<1> QED
  BY <1>1, <1>2, <1>3, <1>4, <1>5, <1>6

(* HeldRing::remove of the lowest number.                                  *)
LEMMA RemoveIs ==
    ASSUME NEW ring \in Rings, NEW from \in Nat, RingFits(ring, from), ring.count # 0
    PROVE  \E i \in DOMAIN ring.slots, left \in Rings :
              /\ RingIndex(ring.lo) = i /\ CounterAt(ring, i) = ring.lo
              /\ left = RingRemove(ring, ring.lo)
              /\ DOMAIN left.slots = DOMAIN ring.slots \ {i}
              /\ \A j \in DOMAIN left.slots : left.slots[j] = ring.slots[j]
              /\ left.count + 1 = ring.count /\ RingFits(left, from)
              /\ left.count # 0 => left.lo > ring.lo /\ left.hi = ring.hi /\ left.oldest >= ring.oldest
              /\ Exact(ring) => Exact(left)
<1> DEFINE D == DOMAIN ring.slots
<1>1. /\ IsFiniteSet(D) /\ D \subseteq 0 .. RING - 1 /\ ring.slots \in [D -> HeldEntry]
      /\ D # {} /\ Cardinality(D) = ring.count /\ ring.count \in Nat
      /\ ring.lo \in Nat /\ ring.hi \in Nat /\ ring.oldest \in Nat
  <2>1. ring.count = Cardinality(D) /\ ring.count \in Nat
    BY DEF RingFits, Rings
  <2> QED
    BY <2>1, RingIs DEF Rings
<1>2. PICK i \in D : CounterAt(ring, i) = ring.lo
  BY DEF RingFits, Holds
<1>3. RingIndex(ring.lo) = i
  BY <1>2 DEF RingFits
<1>4. \A j \in D : CounterAt(ring, j) \in ring.lo .. ring.hi /\ ring.slots[j].arrived \in Nat
                     /\ (j # i => CounterAt(ring, j) # ring.lo) /\ RingIndex(CounterAt(ring, j)) = j
                     /\ ring.oldest <= ring.slots[j].arrived
  BY <1>1, <1>2, RingIs DEF RingFits, HeldEntry
<1>5. PICK E \in SUBSET D : E = D \ {i}
  OBVIOUS
<1>6. IsFiniteSet(E) /\ Cardinality(E) = ring.count - 1
  BY <1>1, <1>2, <1>5, FS_RemoveElement, FS_Subset
<1>7. PICK slots : slots = [j \in E |-> ring.slots[j]]
  OBVIOUS
<1>8. slots \in Slots /\ DOMAIN slots = E
  BY <1>1, <1>5, <1>7 DEF Slots
<1>9. \A j \in E : slots[j] = ring.slots[j]
  BY <1>7
<1>10. Restrict(ring.slots, D \ {RingIndex(ring.lo)}) = slots
  BY <1>3, <1>5, <1>7 DEF Restrict
<1>11. CASE ring.count = 1
  <2>1. PICK left : left = [ring EXCEPT !.slots = slots, !.count = 0]
    OBVIOUS
  <2>2. left \in Rings /\ left.slots = slots /\ left.count = 0
    BY <1>8, <2>1 DEF Rings
  <2>3. E = {}
    BY <1>6, <1>11, FS_EmptySet
  <2>4. RingFits(left, from) /\ Exact(left)
    BY <1>6, <1>8, <1>11, <2>2, <2>3 DEF RingFits, Exact
  <2>5. left = RingRemove(ring, ring.lo)
    BY <1>10, <1>11, <2>1 DEF RingRemove
  <2> QED
    BY <1>2, <1>3, <1>5, <1>8, <1>9, <1>11, <2>2, <2>4, <2>5
<1>12. CASE ring.count # 1
  <2>1. E # {}
    <3>1. E = {} => Cardinality(E) = 0
      BY FS_EmptySet
    <3>2. ring.count - 1 # 0
      BY <1>1, <1>12
    <3> QED
      BY <1>6, <3>1, <3>2
  <2>2. PICK j \in E : TRUE
    BY <2>1
  <2>3. CounterAt(ring, j) \in Nat /\ CounterAt(ring, j) > ring.lo /\ ring.hi > ring.lo
    BY <1>1, <1>4, <1>5, <2>2
  <2> DEFINE later == {c \in ring.lo + 1 .. ring.hi : RingIndex(c) \in E}
  <2>4. /\ later \in SUBSET Nat
        /\ \A k \in E : CounterAt(ring, k) \in later
    BY <1>1, <1>4, <1>5
  <2>5. PICK lo \in later : lo = MinOf(later) /\ \A c \in later : lo <= c
    <3>1. later # {}
      BY <2>2, <2>4
    <3> HIDE DEF later
    <3> QED
      BY <2>4, <3>1, MinOfIs
  <2>6. \A c \in lo .. ring.hi : RingIndex(c) \in E => c \in later
    BY <1>1, <2>5
  <2>7. ASSUME NEW c \in later
        PROVE  CounterAt(ring, RingIndex(c)) = c
    <3>1. RingHas(ring, c) /\ c \in Nat
      BY <1>1, <1>5 DEF RingHas, Occupied
    <3>2. PICK k \in D : CounterAt(ring, k) = c
      BY <3>1, RingIs DEF Holds
    <3> QED
      BY <1>4, <3>2
  <2> DEFINE arrivals == {slots[RingIndex(c)].arrived : c \in {c \in lo .. ring.hi : RingIndex(c) \in E}}
             oldest == IF ring.oldest = ring.slots[i].arrived THEN MinOf(arrivals) ELSE ring.oldest
  <2>8. arrivals = {ring.slots[k].arrived : k \in E}
    <3>1. \A c \in lo .. ring.hi : RingIndex(c) \in E => slots[RingIndex(c)] = ring.slots[RingIndex(c)]
      BY <1>9
    <3>2. \A k \in E : CounterAt(ring, k) \in lo .. ring.hi /\ RingIndex(CounterAt(ring, k)) = k
      BY <1>1, <1>4, <1>5, <2>4, <2>5
    <3>3. ASSUME NEW a \in arrivals
          PROVE  a \in {ring.slots[k].arrived : k \in E}
      BY <3>1
    <3>4. ASSUME NEW k \in E
          PROVE  ring.slots[k].arrived \in arrivals
      BY <1>9, <3>2
    <3> QED
      BY <3>3, <3>4
  <2>9. /\ oldest \in Nat /\ oldest >= ring.oldest
        /\ \A k \in E : oldest <= ring.slots[k].arrived
        /\ Exact(ring) => \E k \in E : ring.slots[k].arrived = oldest
    <3>1. \A k \in E : ring.slots[k].arrived \in Nat /\ ring.oldest <= ring.slots[k].arrived
      BY <1>4, <1>5
    <3>2. CASE ring.oldest = ring.slots[i].arrived
      <4>1. arrivals \in SUBSET Nat /\ arrivals # {}
        BY <2>1, <2>8, <3>1
      <4> HIDE DEF arrivals
      <4>2. MinOf(arrivals) \in arrivals /\ \A a \in arrivals : MinOf(arrivals) <= a
        BY <4>1, MinOfIs
      <4>3. \E k \in E : ring.slots[k].arrived = MinOf(arrivals)
        BY <2>8, <4>2
      <4>4. \A k \in E : MinOf(arrivals) <= ring.slots[k].arrived
        BY <2>8, <4>2
      <4> QED
        BY <3>1, <3>2, <4>1, <4>2, <4>3, <4>4
    <3>3. CASE ring.oldest # ring.slots[i].arrived
      <4>1. Exact(ring) => \E k \in E : ring.slots[k].arrived = ring.oldest
        BY <1>5, <3>3 DEF Exact
      <4> QED
        BY <1>1, <3>1, <3>3, <4>1
    <3> QED
      BY <3>2, <3>3
  <2>10. PICK old \in Nat : old = oldest
    BY <2>9
  <2>11. PICK left : left = [slots |-> slots, count |-> ring.count - 1, lo |-> lo, hi |-> ring.hi,
                             oldest |-> old]
    OBVIOUS
  <2>12. /\ left \in Rings /\ left.slots = slots /\ left.count = ring.count - 1 /\ left.lo = lo
         /\ left.hi = ring.hi /\ left.oldest = old
    <3>1. lo \in Nat /\ ring.count - 1 \in Nat
      BY <1>1, <2>5, <1>12
    <3> QED
      BY <1>1, <1>8, <2>11, <3>1 DEF Rings
  <2>13. left = RingRemove(ring, ring.lo)
    <3>1. lo = MinOf({c \in ring.lo + 1 .. ring.hi : RingIndex(c) \in DOMAIN slots})
      BY <1>8, <2>5
    <3>2. ring.lo # ring.hi
      BY <1>1, <2>3
    <3>3. old = IF ring.oldest = ring.slots[RingIndex(ring.lo)].arrived
                THEN MinOf({slots[RingIndex(c)].arrived :
                               c \in {c \in lo .. ring.hi : RingIndex(c) \in DOMAIN slots}})
                ELSE ring.oldest
      BY <1>3, <1>8, <2>10
    <3> HIDE DEF later, arrivals, oldest
    <3> QED
      BY <1>10, <1>12, <2>11, <3>1, <3>2, <3>3 DEF RingRemove
  <2>14. CounterAt(left, RingIndex(lo)) = lo /\ RingIndex(lo) \in E
    BY <1>9, <2>5, <2>7, <2>12 DEF CounterAt
  <2>15. Holds(left, lo) /\ Holds(left, ring.hi)
    <3>1. PICK k \in D : CounterAt(ring, k) = ring.hi
      BY DEF RingFits, Holds
    <3>2. k \in E
      BY <1>1, <1>2, <1>5, <2>3, <3>1
    <3>3. CounterAt(left, k) = ring.hi
      BY <1>9, <2>12, <3>1, <3>2 DEF CounterAt
    <3> QED
      BY <1>8, <2>12, <2>14, <3>2, <3>3 DEF Holds
  <2>16. \A k \in E : /\ RingIndex(CounterAt(left, k)) = k
                      /\ CounterAt(left, k) \in lo .. ring.hi
                      /\ old <= slots[k].arrived
    <3>1. \A k \in E : CounterAt(left, k) = CounterAt(ring, k)
      BY <1>9, <2>12 DEF CounterAt
    <3>2. \A k \in E : CounterAt(ring, k) \in lo .. ring.hi
      BY <1>1, <1>4, <1>5, <2>4, <2>5
    <3>3. \A k \in E : RingIndex(CounterAt(ring, k)) = k
      BY <1>4, <1>5
    <3>4. \A k \in E : old <= slots[k].arrived
      BY <1>9, <2>9, <2>10
    <3> QED
      BY <3>1, <3>2, <3>3, <3>4
  <2>17. RingFits(left, from)
    <3>1. from <= lo /\ ring.hi < from + RING /\ lo > ring.lo
      <4>1. from <= ring.lo /\ ring.hi < from + RING
        BY DEF RingFits
      <4> QED
        BY <1>1, <2>5, <4>1
    <3> QED
      BY <1>6, <1>8, <2>12, <2>15, <2>16, <3>1 DEF RingFits
  <2>18. Exact(ring) => Exact(left)
    BY <1>8, <1>9, <2>9, <2>10, <2>12 DEF Exact
  <2>19. left.lo > ring.lo /\ left.oldest >= ring.oldest /\ left.count + 1 = ring.count
    BY <1>1, <2>5, <2>9, <2>10, <2>12
  <2> QED
    BY <1>2, <1>3, <1>5, <1>8, <1>9, <2>12, <2>13, <2>17, <2>18, <2>19
<1> QED
  BY <1>11, <1>12

LEMMA OfTwo ==
    ASSUME NEW a \in Nat, NEW b \in Nat
    PROVE  /\ MinOf({a, b}) = (IF a <= b THEN a ELSE b)
           /\ MaxOf({a, b}) = (IF a >= b THEN a ELSE b)
<1>1. PICK low \in {a, b} : low = IF a <= b THEN a ELSE b
  OBVIOUS
<1>2. PICK high \in {a, b} : high = IF a >= b THEN a ELSE b
  OBVIOUS
<1>3. /\ \A y \in {a, b} : low <= y
      /\ \A x \in {a, b} : (\A y \in {a, b} : x <= y) => x = low
  BY <1>1
<1>4. /\ \A y \in {a, b} : high >= y
      /\ \A x \in {a, b} : (\A y \in {a, b} : x >= y) => x = high
  BY <1>2
<1>5. MinOf({a, b}) = low
  BY <1>3 DEF MinOf
<1>6. MaxOf({a, b}) = high
  BY <1>4 DEF MaxOf
<1> QED
  BY <1>1, <1>2, <1>5, <1>6

(* HeldRing::insert of a number after from: what has the slot, if anything *)
(* does, has the same number.                                              *)
LEMMA InsertIs ==
    ASSUME NEW ring \in Rings, NEW from \in Nat, RingFits(ring, from),
           NEW c \in from .. from + RING - 1,
           NEW held \in HeldEntry, held.packet.counter = c
    PROVE  \E i \in 0 .. RING - 1, new \in Rings :
              /\ i = RingIndex(c) /\ new = RingInsert(ring, c, held)
              /\ DOMAIN new.slots = DOMAIN ring.slots \cup {i} /\ new.slots[i] = held
              /\ \A j \in DOMAIN ring.slots \ {i} : new.slots[j] = ring.slots[j]
              /\ i \in DOMAIN ring.slots => CounterAt(ring, i) = c
              /\ RingFits(new, from) /\ new.count # 0
              /\ new.oldest >= held.arrived \/ (ring.count # 0 /\ new.oldest >= ring.oldest)
              /\ i \notin DOMAIN ring.slots /\ Exact(ring) => Exact(new)
<1>0. RING \in Nat /\ RING > 1 /\ c \in Nat /\ held.arrived \in Nat
  BY RingAssumption DEF HeldEntry
<1>1. PICK D : D = DOMAIN ring.slots
  OBVIOUS
<1>2. /\ IsFiniteSet(D) /\ D \subseteq 0 .. RING - 1 /\ ring.slots \in [D -> HeldEntry]
      /\ ring.count = 0 <=> D = {}
      /\ Cardinality(D) = ring.count /\ ring.count \in Nat
      /\ ring.lo \in Nat /\ ring.hi \in Nat /\ ring.oldest \in Nat
  <2>1. ring.count = Cardinality(D) /\ ring.count \in Nat
    BY <1>1 DEF RingFits, Rings
  <2> QED
    BY <1>1, <2>1, RingIs DEF Rings
<1>3. PICK i \in 0 .. RING - 1 : i = RingIndex(c)
  BY <1>0 DEF RingIndex
<1>4. \A j \in D : /\ CounterAt(ring, j) \in ring.lo .. ring.hi /\ CounterAt(ring, j) \in Nat
                   /\ RingIndex(CounterAt(ring, j)) = j /\ ring.oldest <= ring.slots[j].arrived
                   /\ CounterAt(ring, j) \in from .. from + RING - 1
  <2>1. ASSUME NEW j \in D
        PROVE  /\ CounterAt(ring, j) \in ring.lo .. ring.hi /\ CounterAt(ring, j) \in Nat
               /\ RingIndex(CounterAt(ring, j)) = j /\ ring.oldest <= ring.slots[j].arrived
    BY <1>1, <1>2 DEF RingFits
  <2>2. D # {} => from <= ring.lo /\ ring.hi < from + RING
    BY <1>2 DEF RingFits
  <2> QED
    BY <1>0, <1>2, <2>1, <2>2
<1>5. i \in D => CounterAt(ring, i) = c
  BY <1>3, <1>4, OwnSlots
<1>6. PICK E : E = D \cup {i}
  OBVIOUS
<1>7. PICK count : count = ring.count + (IF i \in D THEN 0 ELSE 1)
  OBVIOUS
<1>8. IsFiniteSet(E) /\ Cardinality(E) = count /\ count \in Nat /\ count # 0
  <2>1. IsFiniteSet(E) /\ Cardinality(E) = IF i \in D THEN Cardinality(D) ELSE Cardinality(D) + 1
    BY <1>2, <1>6, FS_AddElement
  <2>2. i \in D => ring.count # 0
    BY <1>2
  <2> QED
    BY <1>2, <1>7, <2>1, <2>2
<1>9. PICK slots : slots = [j \in E |-> IF j = i THEN held ELSE ring.slots[j]]
  OBVIOUS
<1>10. /\ slots \in Slots /\ DOMAIN slots = E /\ slots[i] = held
       /\ \A j \in D \ {i} : slots[j] = ring.slots[j]
       /\ slots = Put(ring.slots, i, held)
  <2>1. slots \in [E -> HeldEntry] /\ E \in SUBSET (0 .. RING - 1)
    BY <1>2, <1>6, <1>9
  <2> QED
    BY <1>1, <1>6, <1>9, <2>1 DEF Slots, Put
<1>11. PICK lo \in Nat : lo = IF count = 1 THEN c ELSE IF ring.lo <= c THEN ring.lo ELSE c
  BY <1>0, <1>2
<1>12. PICK hi \in Nat : hi = IF count = 1 THEN c ELSE IF ring.hi >= c THEN ring.hi ELSE c
  BY <1>0, <1>2
<1>13. PICK oldest \in Nat :
          oldest = IF ring.count = 0 THEN held.arrived
                   ELSE IF ring.oldest <= held.arrived THEN ring.oldest ELSE held.arrived
  BY <1>0, <1>2
<1>14. PICK new : new = [slots |-> slots, count |-> count, lo |-> lo, hi |-> hi, oldest |-> oldest]
  OBVIOUS
<1>15. /\ new \in Rings /\ new.slots = slots /\ new.count = count /\ new.lo = lo /\ new.hi = hi
       /\ new.oldest = oldest
  BY <1>8, <1>10, <1>14 DEF Rings
<1>16. new = RingInsert(ring, c, held)
  <2>1. /\ lo = IF count = 1 THEN c ELSE MinOf({ring.lo, c})
        /\ hi = IF count = 1 THEN c ELSE MaxOf({ring.hi, c})
        /\ oldest = IF ring.count = 0 THEN held.arrived ELSE MinOf({ring.oldest, held.arrived})
    BY <1>0, <1>2, <1>11, <1>12, <1>13, OfTwo
  <2>2. count = ring.count + (IF Occupied(ring, c) THEN 0 ELSE 1)
    BY <1>1, <1>3, <1>7 DEF Occupied
  <2> QED
    BY <1>3, <1>10, <1>14, <2>1, <2>2 DEF RingInsert
<1>17. CounterAt(new, i) = c /\ \A j \in D \ {i} : CounterAt(new, j) = CounterAt(ring, j)
  BY <1>10, <1>15 DEF CounterAt
<1>18. CASE count = 1
  <2>1. D \subseteq {i}
    <3>1. CASE i \in D
      <4>1. IsFiniteSet(D \ {i}) /\ Cardinality(D \ {i}) = 0
        <5>1. IsFiniteSet(D \ {i}) /\ Cardinality(D \ {i}) = Cardinality(D) - 1
          BY <1>2, <3>1, FS_RemoveElement
        <5>2. Cardinality(D) = 1
          BY <1>2, <1>7, <1>18, <3>1
        <5> QED
          BY <5>1, <5>2
      <4>2. D \ {i} = {}
        BY <4>1, FS_EmptySet
      <4> QED
        BY <4>2
    <3>2. CASE i \notin D
      BY <1>2, <1>7, <1>18, <3>2
    <3> QED
      BY <3>1, <3>2
  <2>2. E = {i} /\ lo = c /\ hi = c /\ oldest <= held.arrived
    BY <1>0, <1>2, <1>6, <1>11, <1>12, <1>13, <1>18, <2>1
  <2>3. Holds(new, c)
    BY <1>10, <1>15, <1>17, <2>2 DEF Holds
  <2>4. RingFits(new, from)
    BY <1>0, <1>3, <1>8, <1>10, <1>15, <1>17, <2>2, <2>3 DEF RingFits
  <2>5. i \notin D /\ Exact(ring) => Exact(new)
    <3>1. i \notin D => oldest = held.arrived
      BY <1>2, <1>7, <1>13, <1>18
    <3> QED
      BY <1>10, <1>15, <2>2, <3>1 DEF Exact
  <2>6. oldest >= held.arrived \/ (ring.count # 0 /\ oldest >= ring.oldest)
    BY <1>0, <1>2, <1>13
  <2> QED
    BY <1>1, <1>3, <1>5, <1>6, <1>8, <1>10, <1>15, <1>16, <2>4, <2>5, <2>6
<1>19. CASE count # 1
  <2>1. ring.count # 0
    BY <1>2, <1>7, <1>8, <1>19
  <2>2. /\ lo <= c /\ lo <= ring.lo /\ lo \in {c, ring.lo} /\ hi >= c /\ hi >= ring.hi
        /\ hi \in {c, ring.hi} /\ oldest <= held.arrived /\ oldest <= ring.oldest
        /\ oldest \in {held.arrived, ring.oldest}
    BY <1>0, <1>2, <1>11, <1>12, <1>13, <1>19, <2>1
  <2>3. Holds(new, c)
    BY <1>6, <1>10, <1>15, <1>17 DEF Holds
  <2>4. ASSUME NEW d, Holds(ring, d)
        PROVE  Holds(new, d)
    <3>1. PICK j \in D : CounterAt(ring, j) = d
      BY <1>1, <2>4 DEF Holds
    <3>2. CounterAt(new, j) = d /\ j \in E
      BY <1>5, <1>6, <1>17, <3>1
    <3> QED
      BY <1>10, <1>15, <3>2 DEF Holds
  <2>5. Holds(new, lo) /\ Holds(new, hi)
    BY <2>1, <2>2, <2>3, <2>4 DEF RingFits
  <2>6. ASSUME NEW j \in E
        PROVE  /\ RingIndex(CounterAt(new, j)) = j /\ CounterAt(new, j) \in lo .. hi
               /\ oldest <= slots[j].arrived
    <3>1. CASE j = i
      BY <1>0, <1>3, <1>10, <1>17, <2>2, <3>1
    <3>2. CASE j # i
      <4>1. j \in D \ {i}
        BY <1>6, <3>2
      <4>2. slots[j].arrived \in Nat /\ ring.oldest <= slots[j].arrived
        BY <1>2, <1>4, <1>10, <4>1 DEF HeldEntry
      <4>3. oldest <= slots[j].arrived
        BY <1>2, <2>2, <4>2
      <4>4. CounterAt(new, j) \in lo .. hi
        BY <1>2, <1>4, <1>17, <2>2, <4>1
      <4> QED
        BY <1>4, <1>17, <4>1, <4>3, <4>4
    <3> QED
      BY <3>1, <3>2
  <2>7. from <= lo /\ hi < from + RING
    <3>1. from <= ring.lo /\ ring.hi < from + RING
      BY <2>1 DEF RingFits
    <3> QED
      BY <1>0, <2>2, <3>1
  <2>8. RingFits(new, from)
    BY <1>8, <1>10, <1>15, <2>5, <2>6, <2>7 DEF RingFits
  <2>9. i \notin D /\ Exact(ring) => Exact(new)
    <3> SUFFICES ASSUME i \notin D, Exact(ring)
                 PROVE  \E j \in E : slots[j].arrived = oldest
      BY <1>10, <1>15 DEF Exact
    <3>1. PICK j \in D : ring.slots[j].arrived = ring.oldest
      BY <1>1, <2>1 DEF Exact
    <3>2. slots[j].arrived = ring.oldest /\ slots[i].arrived = held.arrived
      BY <1>10, <3>1
    <3> QED
      BY <1>6, <2>2, <3>1, <3>2
  <2>10. oldest >= held.arrived \/ oldest >= ring.oldest
    BY <1>0, <1>2, <2>2
  <2> QED
    BY <1>1, <1>3, <1>5, <1>6, <1>8, <1>10, <1>15, <1>16, <2>1, <2>8, <2>9, <2>10
<1> QED
  BY <1>18, <1>19

-----------------------------------------------------------------------------
(* Handing over.                                                           *)

(* Some of the packets of ring have been handed over in the order of their *)
(* numbers, and the others are still held.                                 *)
Handed(ring, acc) ==
    LET gone == DOMAIN ring.slots \ DOMAIN acc.ring.slots
    IN  /\ DOMAIN acc.ring.slots \subseteq DOMAIN ring.slots
        /\ \A i \in DOMAIN acc.ring.slots : acc.ring.slots[i] = ring.slots[i]
        /\ ToSet(acc.out) = {ring.slots[i].packet : i \in gone}
        /\ acc.ring.count + Len(acc.out) = ring.count
        /\ \A i, j \in DOMAIN acc.out : i < j => acc.out[i].counter < acc.out[j].counter
        /\ \A i \in DOMAIN acc.out, j \in DOMAIN acc.ring.slots :
              acc.out[i].counter < CounterAt(acc.ring, j)
        /\ acc.ring.count # 0 => acc.ring.oldest >= ring.oldest
        /\ Exact(ring) => Exact(acc.ring)

(* The lowest packet goes: it was below all the others.                    *)
LEMMA TakeIs ==
    ASSUME NEW ring \in Rings, NEW from \in Nat, NEW acc \in Taken, RingFits(acc.ring, from),
           Handed(ring, acc), acc.ring.count # 0
    PROVE  \E got \in Taken :
              /\ got = TakeLowest(acc) /\ RingFits(got.ring, from) /\ Handed(ring, got)
              /\ Len(got.out) = Len(acc.out) + 1
              /\ \A i \in 1 .. Len(acc.out) : got.out[i] = acc.out[i]
              /\ got.out[Len(acc.out) + 1].counter = acc.ring.lo
              /\ DOMAIN got.ring.slots \subseteq DOMAIN acc.ring.slots
              /\ \A j \in DOMAIN got.ring.slots : CounterAt(got.ring, j) > acc.ring.lo
<1>1. PICK old \in Rings : old = acc.ring
  BY DEF Taken
<1>2. PICK i \in DOMAIN old.slots, left \in Rings :
              /\ RingIndex(old.lo) = i /\ CounterAt(old, i) = old.lo
              /\ left = RingRemove(old, old.lo)
              /\ DOMAIN left.slots = DOMAIN old.slots \ {i}
              /\ \A j \in DOMAIN left.slots : left.slots[j] = old.slots[j]
              /\ left.count + 1 = old.count /\ RingFits(left, from)
              /\ left.count # 0 => left.lo > old.lo /\ left.hi = old.hi /\ left.oldest >= old.oldest
              /\ Exact(old) => Exact(left)
  BY <1>1, RemoveIs
<1>3. PICK p \in Incomings : p = old.slots[i].packet
  BY <1>2 DEF Rings, Slots, HeldEntry
<1>4. PICK list \in Seq(Incomings) : list = Append(acc.out, p)
  <2>1. acc.out \in Seq(Incomings)
    BY DEF Taken
  <2>2. Append(acc.out, p) \in Seq(Incomings)
    BY <2>1
  <2> QED
    BY <2>2
<1>5. PICK got \in Taken : got.ring = left /\ got.out = list /\ got = TakeLowest(acc)
  <2>1. [ring |-> left, out |-> list] \in Taken
    BY DEF Taken
  <2>2. TakeLowest(acc) = [ring |-> left, out |-> list]
    BY <1>1, <1>2, <1>3, <1>4 DEF TakeLowest
  <2> QED
    BY <2>1, <2>2
<1>6. /\ Len(list) = Len(acc.out) + 1 /\ list[Len(acc.out) + 1] = p /\ p.counter = old.lo
      /\ \A k \in 1 .. Len(acc.out) : list[k] = acc.out[k]
      /\ acc.out \in Seq(Incomings) /\ Len(acc.out) \in Nat
  BY <1>2, <1>3, <1>4 DEF Taken, CounterAt
<1>7. \A j \in DOMAIN left.slots : CounterAt(left, j) = CounterAt(old, j)
  BY <1>2 DEF CounterAt
<1>8. ASSUME NEW j \in DOMAIN left.slots
      PROVE  CounterAt(left, j) > old.lo
  <2>1. left.count # 0
    BY <1>2, RingIs
  <2>2. PICK lo, hi, low \in Nat : lo = left.lo /\ hi = left.hi /\ low = old.lo
    BY DEF Rings
  <2>3. CounterAt(left, j) \in lo .. hi /\ lo > low
    BY <1>2, <2>1, <2>2 DEF RingFits
  <2>4. CounterAt(left, j) > low
    BY <2>3
  <2> QED
    BY <2>2, <2>4
<1>9. Handed(ring, got)
  <2>1. /\ DOMAIN left.slots \subseteq DOMAIN ring.slots
        /\ \A j \in DOMAIN left.slots : left.slots[j] = ring.slots[j]
    BY <1>1, <1>2 DEF Handed
  <2>2. ToSet(list) = {ring.slots[j].packet : j \in DOMAIN ring.slots \ DOMAIN left.slots}
    <3>1. ToSet(list) = ToSet(acc.out) \cup {p}
      <4>1. DOMAIN list = (DOMAIN acc.out) \cup {Len(acc.out) + 1}
        <5>1. PICK n \in Nat : n = Len(acc.out)
          BY <1>6
        <5>2. DOMAIN acc.out = 1 .. n /\ DOMAIN list = 1 .. n + 1
          BY <1>6, <5>1
        <5> QED
          BY <5>1, <5>2
      <4>2. \A k \in DOMAIN acc.out : list[k] = acc.out[k]
        BY <1>6
      <4> QED
        BY <1>6, <4>1, <4>2 DEF ToSet
    <3>2. ToSet(acc.out) = {ring.slots[j].packet : j \in DOMAIN ring.slots \ DOMAIN old.slots}
      BY <1>1 DEF Handed
    <3>3. p = ring.slots[i].packet /\ i \in DOMAIN ring.slots
      BY <1>1, <1>2, <1>3 DEF Handed
    <3>4. DOMAIN ring.slots \ DOMAIN left.slots = (DOMAIN ring.slots \ DOMAIN old.slots) \cup {i}
      BY <1>2, <3>3
    <3> QED
      BY <3>1, <3>2, <3>3, <3>4
  <2>3. left.count + Len(list) = ring.count
    <3>1. old.count + Len(acc.out) = ring.count
      BY <1>1 DEF Handed
    <3>2. PICK n \in Nat : n = Len(acc.out)
      BY <1>6
    <3>3. PICK k \in Nat : k = left.count
      BY DEF Rings
    <3>4. old.count = k + 1 /\ ring.count = old.count + n /\ Len(list) = n + 1
      <4>1. old.count \in Nat
        BY DEF Rings
      <4>2. k + 1 = old.count
        BY <1>2, <3>3, <4>1
      <4> QED
        BY <1>6, <3>1, <3>2, <4>2
    <3>5. ring.count = k + 1 + n /\ Len(list) = n + 1
      BY <3>4
    <3>6. k + (n + 1) = k + 1 + n
      OBVIOUS
    <3> QED
      BY <3>3, <3>5, <3>6
  <2>4. \A k \in DOMAIN acc.out : acc.out[k].counter < old.lo /\ acc.out[k] \in Incomings
    BY <1>1, <1>2, <1>6 DEF Handed
  <2>5. \A k, l \in DOMAIN list : k < l => list[k].counter < list[l].counter
    <3>1. \A k, l \in DOMAIN acc.out : k < l => acc.out[k].counter < acc.out[l].counter
      BY DEF Handed
    <3> SUFFICES ASSUME NEW k \in DOMAIN list, NEW l \in DOMAIN list, k < l
                 PROVE  list[k].counter < list[l].counter
      OBVIOUS
    <3>2. k \in 1 .. Len(acc.out) /\ k \in DOMAIN acc.out /\ list[k] = acc.out[k]
      BY <1>6
    <3>3. CASE l = Len(acc.out) + 1
      BY <1>6, <2>4, <3>2, <3>3
    <3>4. CASE l # Len(acc.out) + 1
      <4>1. l \in DOMAIN acc.out /\ list[l] = acc.out[l]
        BY <1>6, <3>4
      <4> QED
        BY <3>1, <3>2, <4>1
    <3> QED
      BY <3>3, <3>4
  <2>6. ASSUME NEW k \in DOMAIN list, NEW j \in DOMAIN left.slots
        PROVE  list[k].counter < CounterAt(left, j)
    <3>1. j \in DOMAIN old.slots /\ CounterAt(left, j) = CounterAt(old, j)
      BY <1>2, <1>7
    <3>2. CASE k = Len(acc.out) + 1
      <4>1. CounterAt(left, j) > old.lo /\ list[k].counter = old.lo
        BY <1>6, <1>8, <3>2
      <4>2. CounterAt(left, j) \in Nat /\ old.lo \in Nat
        <5>1. left.slots[j] \in HeldEntry /\ old.lo \in Nat
          BY DEF Rings, Slots
        <5> QED
          BY <5>1 DEF CounterAt, HeldEntry, Incomings
      <4> QED
        BY <4>1, <4>2
    <3>3. CASE k # Len(acc.out) + 1
      <4>1. k \in DOMAIN acc.out /\ list[k] = acc.out[k]
        BY <1>6, <3>3
      <4> QED
        BY <1>1, <3>1, <4>1 DEF Handed
    <3> QED
      BY <3>2, <3>3
  <2>7. left.count # 0 => left.oldest >= ring.oldest
    <3>1. old.oldest >= ring.oldest /\ old.oldest \in Nat /\ ring.oldest \in Nat /\ left.oldest \in Nat
      BY <1>1 DEF Handed, Rings
    <3> QED
      BY <1>2, <3>1
  <2>8. Exact(ring) => Exact(left)
    BY <1>1, <1>2 DEF Handed
  <2> QED
    BY <1>5, <2>1, <2>2, <2>3, <2>5, <2>6, <2>7, <2>8 DEF Handed
<1>10. DOMAIN left.slots \subseteq DOMAIN old.slots
  BY <1>2
<1> QED
  BY <1>1, <1>2, <1>5, <1>6, <1>8, <1>9, <1>10

(* What a fold has come to after each place, from what one place does.     *)
LEMMA AlongPlaces ==
    ASSUME NEW n \in Nat, NEW f, NEW P, f[{}] \in P[0],
           \A m \in 0 .. n - 1 : f[1 .. m] \in P[m] => f[1 .. m + 1] \in P[m + 1]
    PROVE  f[1 .. n] \in P[n]
<1> DEFINE T == {m \in Nat : m <= n => f[1 .. m] \in P[m]}
<1>1. 0 \in T
  <2>1. 1 .. 0 = {}
    OBVIOUS
  <2> QED
    BY <2>1
<1>2. \A m \in T : m + 1 \in T
  OBVIOUS
<1>3. T = Nat
  <2>1. T \in SUBSET Nat
    OBVIOUS
  <2> HIDE DEF T
  <2> QED
    BY <1>1, <1>2, <2>1, SetInduction
<1> QED
  BY <1>3

(* The places up to the next one.                                          *)
LEMMA NextPlace ==
    ASSUME NEW n \in Nat, NEW m \in 0 .. n - 1
    PROVE  /\ 1 .. m + 1 \in SUBSET (1 .. n) /\ 1 .. m + 1 # {}
           /\ Max(1 .. m + 1) = m + 1 /\ (1 .. m + 1) \ {m + 1} = 1 .. m
<1>1. PICK s : s = 1 .. m + 1
  OBVIOUS
<1>2. s \in SUBSET (1 .. n) /\ m + 1 \in s /\ s # {} /\ m + 1 \in Nat
  BY <1>1
<1>3. Max(s) \in s /\ Max(s) >= m + 1
  BY <1>1, <1>2, MaxIs
<1>4. Max(s) = m + 1
  BY <1>1, <1>2, <1>3
<1> QED
  BY <1>1, <1>2, <1>4

LEMMA TakeFits ==
    ASSUME NEW from \in Nat, NEW acc \in Taken, RingFits(acc.ring, from)
    PROVE  TakeLowest(acc) \in Taken /\ RingFits(TakeLowest(acc).ring, from)
<1>1. CASE acc.ring.count = 0
  BY <1>1 DEF TakeLowest
<1>2. CASE acc.ring.count # 0
  <2>1. PICK fresh : fresh = [acc EXCEPT !.out = <<>>]
    OBVIOUS
  <2>2. fresh \in Taken /\ fresh.ring = acc.ring /\ fresh.out = <<>>
    <3>1. <<>> \in Seq(Incomings)
      OBVIOUS
    <3> QED
      BY <2>1, <3>1 DEF Taken
  <2>3. Handed(acc.ring, fresh)
    <3>1. ToSet(fresh.out) = {} /\ Len(fresh.out) = 0 /\ DOMAIN fresh.out = {}
      BY <2>2 DEF ToSet
    <3> QED
      BY <2>2, <3>1 DEF Handed, Taken, Rings
  <2>4. acc.ring \in Rings
    BY DEF Taken
  <2>5. PICK got \in Taken : got = TakeLowest(fresh) /\ RingFits(got.ring, from)
    BY <1>2, <2>2, <2>3, <2>4, TakeIs
  <2>6. PICK p : p = acc.ring.slots[RingIndex(acc.ring.lo)].packet
    OBVIOUS
  <2>7. TakeLowest(acc) = [ring |-> RingRemove(acc.ring, acc.ring.lo), out |-> Append(acc.out, p)]
    BY <1>2, <2>6 DEF TakeLowest
  <2>8. got = [ring |-> RingRemove(acc.ring, acc.ring.lo), out |-> Append(<<>>, p)]
    BY <1>2, <2>2, <2>5, <2>6 DEF TakeLowest
  <2>9. p \in Incomings
    <3>1. got.out = Append(<<>>, p) /\ got.out \in Seq(Incomings)
      BY <2>8 DEF Taken
    <3>2. got.out = <<p>>
      BY <3>1
    <3> QED
      BY <3>1, <3>2
  <2>10. Append(acc.out, p) \in Seq(Incomings) /\ got.ring \in Rings
    BY <2>9 DEF Taken
  <2> QED
    BY <2>5, <2>7, <2>8, <2>10 DEF Taken
<1> QED
  BY <1>1, <1>2

(* The lowest goes n times over.                                           *)
LEMMA ReleaseIs ==
    ASSUME NEW ring \in Rings, NEW from \in Nat, RingFits(ring, from), NEW n \in Nat
    PROVE  \E f : /\ f[{}] = [ring |-> ring, out |-> <<>>]
                  /\ \A m \in 0 .. n - 1 : f[1 .. m + 1] = TakeLowest(f[1 .. m])
                  /\ f[1 .. n] = Release(ring, n)
<1> DEFINE S == {acc \in Taken : RingFits(acc.ring, from)}
           Step == [x \in S \X (1 .. n) |-> TakeLowest(x[1])]
<1>1. PICK base : base = [ring |-> ring, out |-> <<>>]
  OBVIOUS
<1> DEFINE Folds(f) == f = [s \in SUBSET (1 .. n) |->
                               IF s = {} THEN base ELSE TakeLowest(f[s \ {Max(s)}])]
<1>2. base \in S
  <2>1. <<>> \in Seq(Incomings)
    OBVIOUS
  <2>2. base \in Taken /\ base.ring = ring
    BY <1>1, <2>1 DEF Taken
  <2> QED
    BY <2>2
<1>3. ASSUME NEW acc \in S, NEW i \in 1 .. n
      PROVE  TakeLowest(acc) \in S /\ Step[<<acc, i>>] = TakeLowest(acc)
  <2>1. TakeLowest(acc) \in S
    BY TakeFits
  <2>2. Step[<<acc, i>>] = TakeLowest(acc)
    <3>1. <<acc, i>> \in S \X (1 .. n)
      OBVIOUS
    <3> HIDE DEF S
    <3> QED
      BY <3>1
  <2> QED
    BY <2>1, <2>2
<1>4. Step \in [S \X (1 .. n) -> S]
  <2> HIDE DEF S, Step
  <2>1. \A x \in S \X (1 .. n) : Step[x] \in S
    BY <1>3
  <2> QED
    BY <2>1 DEF Step
<1>5. \E f : Folds(f)
  <2> HIDE DEF S
  <2>1. PICK f \in [SUBSET (1 .. n) -> S] : FoldOf(f, n, base, Step)
    <3> HIDE DEF Step
    <3> QED
      BY <1>2, <1>4, FoldExists DEF HasFold
  <2>2. ASSUME NEW s \in SUBSET (1 .. n), s # {}
        PROVE  f[s] = TakeLowest(f[s \ {Max(s)}])
    <3>1. Max(s) \in 1 .. n /\ f[s \ {Max(s)}] \in S
      BY <2>1, <2>2, MaxIs
    <3> HIDE DEF Step
    <3> QED
      BY <1>3, <2>1, <2>2, <3>1 DEF FoldOf
  <2>3. \A s \in SUBSET (1 .. n) : s = {} => f[s] = base
    BY <2>1 DEF FoldOf
  <2>4. Folds(f)
    <3> HIDE DEF Step
    <3> QED
      BY <2>1, <2>2, <2>3
  <2> QED
    BY <2>4
<1>6. PICK f : f = CHOOSE g : Folds(g)
  OBVIOUS
<1>7. Folds(f)
  <2> HIDE DEF Folds
  <2> QED
    BY <1>5, <1>6
<1>8. \A s \in SUBSET (1 .. n) :
           f[s] = IF s = {} THEN base ELSE TakeLowest(f[s \ {Max(s)}])
  BY <1>7
<1>9. f[1 .. n] = Release(ring, n)
  <2>1. PICK places : places = [i \in 1 .. n |-> i]
    OBVIOUS
  <2>2. DOMAIN places = 1 .. n
    BY <2>1
  <2>3. FoldLeft(LAMBDA acc, i : TakeLowest(acc), base, places) = f[1 .. n]
    BY <1>6, <2>2 DEF FoldLeft, MapThenFoldSet
  <2> QED
    BY <1>1, <2>1, <2>3 DEF Release
<1>10. ASSUME NEW m \in 0 .. n - 1
       PROVE  f[1 .. m + 1] = TakeLowest(f[1 .. m])
  <2>1. PICK s \in SUBSET (1 .. n) : s = 1 .. m + 1
    BY NextPlace
  <2>2. s # {} /\ Max(s) = m + 1 /\ s \ {m + 1} = 1 .. m
    BY <2>1, NextPlace
  <2>3. f[s] = TakeLowest(f[s \ {Max(s)}])
    BY <1>8, <2>2
  <2> QED
    BY <2>1, <2>2, <2>3
<1> QED
  BY <1>1, <1>8, <1>9, <1>10

LEMMA NothingHanded ==
    ASSUME NEW ring \in Rings
    PROVE  \E acc \in Taken : /\ acc = [ring |-> ring, out |-> <<>>]
                              /\ acc.ring = ring /\ acc.out = <<>> /\ Len(acc.out) = 0
                              /\ Handed(ring, acc)
<1>1. PICK acc : acc = [ring |-> ring, out |-> <<>>]
  OBVIOUS
<1>2. <<>> \in Seq(Incomings)
  OBVIOUS
<1>3. acc \in Taken /\ acc.ring = ring /\ acc.out = <<>>
  BY <1>1, <1>2 DEF Taken
<1>4. ToSet(acc.out) = {} /\ Len(acc.out) = 0 /\ DOMAIN acc.out = {}
  BY <1>3 DEF ToSet
<1>5. Handed(ring, acc)
  BY <1>3, <1>4 DEF Handed, Rings
<1> QED
  BY <1>1, <1>3, <1>4, <1>5

(* flush: nothing is left.                                                 *)
LEMMA AllIs ==
    ASSUME NEW ring \in Rings, NEW from \in Nat, RingFits(ring, from)
    PROVE  \E acc \in Taken : /\ acc = ReleaseAll(ring) /\ Handed(ring, acc)
                              /\ acc.ring.count = 0
                              /\ \A to \in Nat : RingFits(acc.ring, to)
<1>1. PICK n \in Nat : n = ring.count
  BY DEF Rings
<1>2. PICK f : /\ f[{}] = [ring |-> ring, out |-> <<>>]
               /\ \A m \in 0 .. n - 1 : f[1 .. m + 1] = TakeLowest(f[1 .. m])
               /\ f[1 .. n] = Release(ring, n)
  BY ReleaseIs
<1> DEFINE P == [m \in 0 .. n |-> {acc \in Taken : /\ Handed(ring, acc) /\ RingFits(acc.ring, from)
                                                   /\ Len(acc.out) = m}]
<1>3. f[{}] \in P[0]
  <2>1. 0 \in 0 .. n
    BY <1>1
  <2> QED
    BY <1>2, <2>1, NothingHanded
<1>4. ASSUME NEW m \in 0 .. n - 1, f[1 .. m] \in P[m]
      PROVE  f[1 .. m + 1] \in P[m + 1]
  <2>1. m \in 0 .. n /\ m + 1 \in 0 .. n /\ m \in Nat
    BY <1>1
  <2>2. PICK acc \in Taken : /\ acc = f[1 .. m] /\ Handed(ring, acc) /\ RingFits(acc.ring, from)
                             /\ Len(acc.out) = m
    BY <1>4, <2>1
  <2>3. acc.ring.count # 0
    <3>1. acc.ring.count + m = n /\ acc.ring.count \in Nat
      BY <1>1, <2>2 DEF Handed, Taken, Rings
    <3> QED
      BY <2>1, <3>1
  <2>4. PICK got \in Taken : /\ got = TakeLowest(acc) /\ RingFits(got.ring, from) /\ Handed(ring, got)
                             /\ Len(got.out) = Len(acc.out) + 1
    BY <2>2, <2>3, TakeIs
  <2> QED
    BY <1>2, <2>1, <2>2, <2>4
<1>5. f[1 .. n] \in P[n]
  <2> HIDE DEF P
  <2> QED
    BY <1>3, <1>4, AlongPlaces
<1>6. PICK acc \in Taken : /\ acc = Release(ring, n) /\ Handed(ring, acc)
                           /\ RingFits(acc.ring, from) /\ Len(acc.out) = n
  BY <1>2, <1>5
<1>7. acc.ring.count = 0
  <2>1. acc.ring.count + n = n /\ acc.ring.count \in Nat
    BY <1>1, <1>6 DEF Handed, Taken, Rings
  <2> QED
    BY <2>1
<1>8. ASSUME NEW to \in Nat
      PROVE  RingFits(acc.ring, to)
  BY <1>6, <1>7 DEF RingFits
<1> QED
  BY <1>1, <1>6, <1>7, <1>8 DEF ReleaseAll

(* drain: what is held from the number from on without a gap goes, up to a *)
(* number that is not held.                                                *)
LEMMA RunIs ==
    ASSUME NEW ring \in Rings, NEW from \in Nat, RingFits(ring, from)
    PROVE  \E acc \in Taken, n \in Nat :
              /\ acc = ReleaseRun(ring, from) /\ Handed(ring, acc) /\ n = Len(acc.out)
              /\ RingFits(acc.ring, from + n + 1)
              /\ \A i \in 1 .. n : acc.out[i].counter = from + i - 1
              /\ Holds(ring, from) => n # 0
<1> DEFINE Ends == {c \in from .. from + RING : ~RingHas(ring, c)}
<1>1. RING \in Nat /\ RING > 1 /\ ring.lo \in Nat /\ ring.hi \in Nat /\ ring.count \in Nat
  BY RingAssumption DEF Rings
<1>2. PICK end \in Ends : end = RunEnd(ring, from) /\ \A c \in Ends : end <= c
  <2>1. ~RingHas(ring, from + RING)
    <3>1. ring.count # 0 => ring.hi < from + RING
      BY DEF RingFits
    <3> QED
      BY <1>1, <3>1 DEF RingHas
  <2>2. from + RING \in Ends /\ Ends \in SUBSET Nat
    BY <1>1, <2>1
  <2> HIDE DEF Ends
  <2>3. MinOf(Ends) \in Ends /\ \A c \in Ends : MinOf(Ends) <= c
    BY <2>2, MinOfIs
  <2> QED
    BY <2>3 DEF RunEnd, Ends
<1>3. PICK n \in Nat : n = end - from
  BY <1>1
<1>4. \A c \in from .. from + n - 1 : Holds(ring, c)
  <2>1. ASSUME NEW c \in from .. from + n - 1
        PROVE  Holds(ring, c)
    <3>1. c \in Nat /\ c \notin Ends /\ c \in from .. from + RING
      BY <1>1, <1>2, <1>3
    <3> QED
      BY <3>1, RingIs
  <2> QED
    BY <2>1
<1>5. ~Holds(ring, from + n) /\ from + n \in Nat
  <2>1. from + n = end /\ end \in Nat
    BY <1>1, <1>2, <1>3
  <2> QED
    BY <1>2, <2>1, RingIs
<1>6. Holds(ring, from) => n # 0
  BY <1>5
<1>7. PICK f : /\ f[{}] = [ring |-> ring, out |-> <<>>]
               /\ \A m \in 0 .. n - 1 : f[1 .. m + 1] = TakeLowest(f[1 .. m])
               /\ f[1 .. n] = Release(ring, n)
  BY ReleaseIs
<1> DEFINE P == [m \in 0 .. n |->
                    {acc \in Taken : /\ Handed(ring, acc) /\ RingFits(acc.ring, from)
                                     /\ Len(acc.out) = m
                                     /\ \A i \in 1 .. m : acc.out[i].counter = from + i - 1
                                     /\ \A j \in DOMAIN acc.ring.slots :
                                           CounterAt(acc.ring, j) >= from + m}]
<1>8. f[{}] \in P[0]
  <2>1. 0 \in 0 .. n /\ 1 .. 0 = {}
    BY <1>3
  <2>2. ASSUME NEW j \in DOMAIN ring.slots
        PROVE  CounterAt(ring, j) >= from + 0
    <3>1. CounterAt(ring, j) \in ring.lo .. ring.hi /\ ring.count # 0
      BY RingIs DEF RingFits
    <3>2. from <= ring.lo
      BY <3>1 DEF RingFits
    <3> QED
      BY <1>1, <3>1, <3>2
  <2>3. PICK acc \in Taken : /\ acc = [ring |-> ring, out |-> <<>>] /\ acc.ring = ring
                             /\ Len(acc.out) = 0 /\ Handed(ring, acc)
    BY NothingHanded
  <2>4. acc \in P[0]
    BY <2>1, <2>2, <2>3
  <2> HIDE DEF P
  <2> QED
    BY <1>7, <2>3, <2>4
<1>9. ASSUME NEW m \in 0 .. n - 1, f[1 .. m] \in P[m]
      PROVE  f[1 .. m + 1] \in P[m + 1]
  <2>1. m \in 0 .. n /\ m + 1 \in 0 .. n /\ m \in Nat
    BY <1>3
  <2>2. PICK acc \in Taken : /\ acc = f[1 .. m] /\ Handed(ring, acc) /\ RingFits(acc.ring, from)
                             /\ Len(acc.out) = m
                             /\ \A i \in 1 .. m : acc.out[i].counter = from + i - 1
                             /\ \A j \in DOMAIN acc.ring.slots : CounterAt(acc.ring, j) >= from + m
    BY <1>9, <2>1
  <2>3. PICK j \in DOMAIN ring.slots : CounterAt(ring, j) = from + m
    BY <1>4, <2>1 DEF Holds
  <2>4. j \in DOMAIN acc.ring.slots
    <3> SUFFICES ASSUME j \notin DOMAIN acc.ring.slots
                 PROVE  FALSE
      OBVIOUS
    <3>1. ring.slots[j].packet \in ToSet(acc.out)
      BY <2>2 DEF Handed
    <3>2. PICK i \in DOMAIN acc.out : acc.out[i] = ring.slots[j].packet
      BY <3>1 DEF ToSet
    <3>3. i \in 1 .. m
      BY <2>2 DEF Taken
    <3>4. from + i - 1 = from + m
      BY <2>2, <2>3, <3>2, <3>3 DEF CounterAt
    <3> QED
      BY <2>1, <3>3, <3>4
  <2>5. acc.ring \in Rings
    BY DEF Taken
  <2>6. acc.ring.count # 0
    BY <2>2, <2>4, <2>5, RingIs
  <2>7. acc.ring.lo = from + m
    <3>1. CounterAt(acc.ring, j) = from + m
      BY <2>2, <2>3, <2>4 DEF CounterAt, Handed
    <3>2. from + m \in acc.ring.lo .. acc.ring.hi
      BY <2>2, <2>4, <3>1 DEF RingFits
    <3>3. acc.ring.lo >= from + m /\ acc.ring.lo \in Nat
      BY <2>2, <2>5, <2>6 DEF RingFits, Holds, Rings
    <3> QED
      BY <2>1, <3>2, <3>3
  <2>8. PICK got \in Taken :
              /\ got = TakeLowest(acc) /\ RingFits(got.ring, from) /\ Handed(ring, got)
              /\ Len(got.out) = Len(acc.out) + 1
              /\ \A i \in 1 .. Len(acc.out) : got.out[i] = acc.out[i]
              /\ got.out[Len(acc.out) + 1].counter = acc.ring.lo
              /\ DOMAIN got.ring.slots \subseteq DOMAIN acc.ring.slots
              /\ \A k \in DOMAIN got.ring.slots : CounterAt(got.ring, k) > acc.ring.lo
    <3>1. Handed(ring, acc) /\ RingFits(acc.ring, from) /\ acc.ring.count # 0
      BY <2>2, <2>6
    <3> HIDE DEF P, Ends
    <3> QED
      BY <3>1, TakeIs, Zenon
  <2>9. ASSUME NEW i \in 1 .. m + 1
        PROVE  got.out[i].counter = from + i - 1
    <3>1. CASE i = m + 1
      BY <2>1, <2>2, <2>7, <2>8, <3>1
    <3>2. CASE i # m + 1
      <4>1. i \in 1 .. m
        BY <2>1, <3>2
      <4> QED
        BY <2>2, <2>8, <4>1
    <3> QED
      BY <3>1, <3>2
  <2>10. ASSUME NEW k \in DOMAIN got.ring.slots
         PROVE  CounterAt(got.ring, k) >= from + (m + 1)
    <3>1. CounterAt(got.ring, k) > from + m
      <4>1. CounterAt(got.ring, k) > acc.ring.lo
        BY <2>8
      <4> QED
        BY <2>7, <4>1
    <3>2. got.ring.slots[k] \in HeldEntry
      <4>1. got.ring \in Rings
        BY DEF Taken
      <4>2. got.ring.slots \in Slots
        BY <4>1 DEF Rings
      <4> QED
        BY <4>2 DEF Slots
    <3>3. PICK c \in Nat : c = CounterAt(got.ring, k)
      BY <3>2 DEF CounterAt, HeldEntry, Incomings
    <3>4. c > from + m => c >= from + (m + 1)
      BY <2>1
    <3> QED
      BY <3>1, <3>3, <3>4
  <2>11. got \in P[m + 1]
    BY <2>1, <2>2, <2>8, <2>9, <2>10
  <2> HIDE DEF P
  <2> QED
    BY <1>7, <2>2, <2>8, <2>11
<1>10. f[1 .. n] \in P[n]
  <2> HIDE DEF P
  <2> QED
    BY <1>8, <1>9, AlongPlaces
<1>11. PICK acc \in Taken :
          /\ acc = ReleaseRun(ring, from) /\ Handed(ring, acc) /\ RingFits(acc.ring, from)
          /\ Len(acc.out) = n
          /\ \A i \in 1 .. n : acc.out[i].counter = from + i - 1
          /\ \A j \in DOMAIN acc.ring.slots : CounterAt(acc.ring, j) >= from + n
  <2>1. n \in 0 .. n /\ f[1 .. n] = ReleaseRun(ring, from)
    BY <1>2, <1>3, <1>7 DEF ReleaseRun
  <2> QED
    BY <1>10, <2>1
<1>12. \A j \in DOMAIN acc.ring.slots : CounterAt(acc.ring, j) >= from + n + 1
  <2>1. ASSUME NEW j \in DOMAIN acc.ring.slots
        PROVE  CounterAt(acc.ring, j) >= from + n + 1
    <3>1. CounterAt(acc.ring, j) = CounterAt(ring, j) /\ j \in DOMAIN ring.slots
      BY <1>11 DEF Handed, CounterAt
    <3>2. CounterAt(ring, j) # from + n
      BY <1>5, <3>1 DEF Holds
    <3>3. ring.slots[j] \in HeldEntry
      BY <3>1 DEF Rings, Slots
    <3>4. CounterAt(ring, j) \in Nat
      BY <3>3 DEF CounterAt, HeldEntry, Incomings
    <3>5. CounterAt(acc.ring, j) >= from + n
      BY <1>11
    <3>6. PICK c \in Nat : c = CounterAt(acc.ring, j) /\ c >= from + n /\ c # from + n
      BY <3>1, <3>2, <3>4, <3>5
    <3> QED
      BY <3>6
  <2> QED
    BY <2>1
<1>13. RingFits(acc.ring, from + n + 1)
  <2>1. acc.ring.count # 0 => from + n + 1 <= acc.ring.lo /\ acc.ring.hi < (from + n + 1) + RING
    <3> SUFFICES ASSUME acc.ring.count # 0
                 PROVE  from + n + 1 <= acc.ring.lo /\ acc.ring.hi < (from + n + 1) + RING
      OBVIOUS
    <3>1. acc.ring.hi < from + RING /\ acc.ring.hi \in Nat /\ Holds(acc.ring, acc.ring.lo)
      BY <1>11 DEF RingFits, Taken, Rings
    <3> QED
      BY <1>1, <1>12, <3>1 DEF Holds
  <2> QED
    BY <1>11, <2>1 DEF RingFits
<1> QED
  BY <1>6, <1>11, <1>13

-----------------------------------------------------------------------------
(* Sessions.                                                               *)

SessionIs(s) ==
    /\ s \in [next : Nat, held : Rings, lastSeen : Nat, skipped : SUBSET Nat]
    /\ RingFits(s.held, s.next + 1)

(* list was handed over of what ring held, and left is what remains.       *)
Left(ring, left, list) ==
    /\ DOMAIN left.slots \subseteq DOMAIN ring.slots
    /\ \A i \in DOMAIN left.slots : left.slots[i] = ring.slots[i]
    /\ ToSet(list) = {ring.slots[i].packet : i \in DOMAIN ring.slots \ DOMAIN left.slots}
    /\ left.count # 0 => ring.count # 0 /\ left.oldest >= ring.oldest
    /\ Exact(ring) => Exact(left)

(* The session expects the number after one that it held.                  *)
Follows(ring, n) == \E i \in DOMAIN ring.slots : n = CounterAt(ring, i) + 1

LEMMA HandedIsLeft ==
    ASSUME NEW ring \in Rings, NEW acc \in Taken, Handed(ring, acc)
    PROVE  Left(ring, acc.ring, acc.out)
<1>1. PICK n \in Nat : n = Len(acc.out)
  BY DEF Taken
<1>2. acc.ring.count \in Nat /\ ring.count \in Nat /\ acc.ring.count + n = ring.count
  BY <1>1 DEF Handed, Taken, Rings
<1>3. acc.ring.count # 0 => ring.count # 0
  BY <1>2
<1> QED
  BY <1>3 DEF Handed, Left

LEMMA LeftJoins ==
    ASSUME NEW r0 \in Rings, NEW r1 \in Rings, NEW r2 \in Rings,
           NEW l1 \in Seq(Incomings), NEW l2 \in Seq(Incomings),
           Left(r0, r1, l1), Left(r1, r2, l2)
    PROVE  Left(r0, r2, l1 \o l2)
<1>1. /\ DOMAIN r2.slots \subseteq DOMAIN r0.slots
      /\ \A i \in DOMAIN r2.slots : r2.slots[i] = r0.slots[i]
      /\ Exact(r0) => Exact(r2)
  BY DEF Left
<1>2. ToSet(l1 \o l2) = ToSet(l1) \cup ToSet(l2)
  <2>1. PICK n \in Nat, m \in Nat : n = Len(l1) /\ m = Len(l2)
    OBVIOUS
  <2>2. /\ DOMAIN (l1 \o l2) = 1 .. n + m /\ DOMAIN l1 = 1 .. n /\ DOMAIN l2 = 1 .. m
        /\ \A i \in 1 .. n : (l1 \o l2)[i] = l1[i]
        /\ \A i \in n + 1 .. n + m : (l1 \o l2)[i] = l2[i - n]
    BY <2>1
  <2>3. ASSUME NEW p \in ToSet(l1 \o l2)
        PROVE  p \in ToSet(l1) \cup ToSet(l2)
    <3>1. PICK i \in 1 .. n + m : (l1 \o l2)[i] = p
      BY <2>2, <2>3 DEF ToSet
    <3>2. CASE i <= n
      <4>1. i \in 1 .. n
        BY <3>2
      <4> QED
        BY <2>2, <3>1, <4>1 DEF ToSet
    <3>3. CASE i > n
      <4>1. i \in n + 1 .. n + m /\ i - n \in 1 .. m
        BY <3>3
      <4> QED
        BY <2>2, <3>1, <4>1 DEF ToSet
    <3> QED
      BY <3>2, <3>3
  <2>4. ASSUME NEW p \in ToSet(l1)
        PROVE  p \in ToSet(l1 \o l2)
    <3>1. PICK i \in 1 .. n : l1[i] = p
      BY <2>2, <2>4 DEF ToSet
    <3>2. i \in 1 .. n + m /\ (l1 \o l2)[i] = p
      BY <2>2, <3>1
    <3> QED
      BY <2>2, <3>2 DEF ToSet
  <2>5. ASSUME NEW p \in ToSet(l2)
        PROVE  p \in ToSet(l1 \o l2)
    <3>1. PICK i \in 1 .. m : l2[i] = p
      BY <2>2, <2>5 DEF ToSet
    <3>2. i + n \in n + 1 .. n + m /\ i + n \in 1 .. n + m /\ (i + n) - n = i
      OBVIOUS
    <3>3. (l1 \o l2)[i + n] = p
      BY <2>2, <3>1, <3>2
    <3> QED
      BY <2>2, <3>2, <3>3 DEF ToSet
  <2> QED
    BY <2>3, <2>4, <2>5
<1>3. ToSet(l1 \o l2) = {r0.slots[i].packet : i \in DOMAIN r0.slots \ DOMAIN r2.slots}
  <2>1. ToSet(l2) = {r0.slots[i].packet : i \in DOMAIN r1.slots \ DOMAIN r2.slots}
    BY DEF Left
  <2>2. DOMAIN r0.slots \ DOMAIN r2.slots
            = (DOMAIN r0.slots \ DOMAIN r1.slots) \cup (DOMAIN r1.slots \ DOMAIN r2.slots)
    BY DEF Left
  <2>3. ToSet(l1) = {r0.slots[i].packet : i \in DOMAIN r0.slots \ DOMAIN r1.slots}
    BY DEF Left
  <2> QED
    BY <1>2, <2>1, <2>2, <2>3
<1>4. r2.count # 0 => r0.count # 0 /\ r2.oldest >= r0.oldest
  <2>1. r0.oldest \in Nat /\ r1.oldest \in Nat /\ r2.oldest \in Nat
    BY DEF Rings
  <2> QED
    BY <2>1 DEF Left
<1> QED
  BY <1>1, <1>3, <1>4 DEF Left

(* One turn of expire_into: something goes.                                *)
LEMMA SkipIs ==
    ASSUME NEW s, SessionIs(s), s.held.count # 0
    PROVE  \E t, list :
              /\ list \in Seq(Incomings)
              /\ SkipGap(s) = [session |-> t, out |-> list] /\ SessionIs(t)
              /\ Left(s.held, t.held, list) /\ Follows(s.held, t.next)
              /\ t.held.count < s.held.count
<1>1. PICK ring \in Rings, from \in Nat : ring = s.held /\ from = s.next
  BY DEF SessionIs
<1>2. ring.lo \in Nat /\ RingFits(ring, from + 1) /\ ring.hi \in Nat
  BY <1>1 DEF SessionIs, Rings
<1>3. RingFits(ring, ring.lo)
  <2>1. from + 1 <= ring.lo /\ ring.hi < from + 1 + RING
    BY <1>1, <1>2 DEF RingFits
  <2>2. ring.hi < ring.lo + RING
    BY <1>2, <2>1, RingAssumption
  <2> QED
    BY <1>2, <2>2 DEF RingFits
<1>4. PICK acc \in Taken, n \in Nat :
              /\ acc = ReleaseRun(ring, ring.lo) /\ Handed(ring, acc) /\ n = Len(acc.out)
              /\ RingFits(acc.ring, ring.lo + n + 1)
              /\ \A i \in 1 .. n : acc.out[i].counter = ring.lo + i - 1
              /\ Holds(ring, ring.lo) => n # 0
  BY <1>2, <1>3, RunIs
<1>5. n # 0
  BY <1>1, <1>2, <1>4 DEF RingFits
<1>6. PICK skipped : skipped = SkippedNow(s, s.held.lo)
  OBVIOUS
<1>7. skipped \in SUBSET Nat
  <2>1. MinOf({s.held.lo, s.next + MAX_SKIPPED}) \in Nat
    BY <1>1, <1>2, OfTwo, ReorderAssumption
  <2>2. PICK a \in Nat : a = MinOf({s.held.lo, s.next + MAX_SKIPPED})
    BY <2>1
  <2>3. (s.next .. a - 1) \subseteq Nat
    BY <1>1
  <2> QED
    BY <1>6, <2>2, <2>3 DEF SkippedNow, SessionIs
<1>8. PICK t : t = [s EXCEPT !.skipped = skipped, !.next = ring.lo + n, !.held = acc.ring]
  OBVIOUS
<1>9. /\ t \in [next : Nat, held : Rings, lastSeen : Nat, skipped : SUBSET Nat]
      /\ t.next = ring.lo + n /\ t.held = acc.ring
  <2>1. ring.lo + n \in Nat /\ acc.ring \in Rings
    BY <1>2 DEF Taken
  <2> QED
    BY <1>7, <1>8, <2>1 DEF SessionIs
<1>10. SessionIs(t)
  BY <1>4, <1>9 DEF SessionIs
<1>11. SkipGap(s) = [session |-> t, out |-> acc.out] /\ acc.out \in Seq(Incomings)
  BY <1>1, <1>4, <1>6, <1>8 DEF SkipGap, Taken
<1>12. Follows(ring, t.next)
  <2>1. n \in DOMAIN acc.out /\ acc.out[n].counter = ring.lo + n - 1
    BY <1>4, <1>5, <1>11
  <2>2. acc.out[n] \in ToSet(acc.out)
    BY <2>1 DEF ToSet
  <2>3. PICK i \in DOMAIN ring.slots : ring.slots[i].packet = acc.out[n]
    BY <1>4, <2>2 DEF Handed
  <2>4. CounterAt(ring, i) + 1 = t.next
    BY <1>2, <1>9, <2>1, <2>3 DEF CounterAt
  <2> QED
    BY <2>4 DEF Follows
<1>13. t.held.count < s.held.count
  <2>1. acc.ring.count + n = ring.count /\ acc.ring.count \in Nat
    BY <1>4 DEF Handed, Taken, Rings
  <2> QED
    BY <1>1, <1>5, <1>9, <2>1
<1>14. Left(s.held, t.held, acc.out)
  BY <1>1, <1>4, <1>9, HandedIsLeft
<1>15. Follows(s.held, t.next)
  BY <1>1, <1>12
<1> QED
  BY <1>10, <1>11, <1>13, <1>14, <1>15

LEMMA SkipIfDueFits ==
    ASSUME NEW acc, SessionIs(acc.session), acc.out \in Seq(Incomings),
           acc = [session |-> acc.session, out |-> acc.out]
    PROVE  \E t, list :
              /\ list \in Seq(Incomings)
              /\ SkipIfDue(acc) = [session |-> t, out |-> acc.out \o list] /\ SessionIs(t)
              /\ Left(acc.session.held, t.held, list)
              /\ ~Due(acc.session) => t = acc.session /\ list = <<>>
              /\ Due(acc.session) => /\ Follows(acc.session.held, t.next)
                                     /\ t.held.count < acc.session.held.count
<1>1. CASE Due(acc.session)
  <2>1. acc.session.held.count # 0
    BY <1>1 DEF Due
  <2>2. PICK t, list :
              /\ list \in Seq(Incomings)
              /\ SkipGap(acc.session) = [session |-> t, out |-> list] /\ SessionIs(t)
              /\ Left(acc.session.held, t.held, list) /\ Follows(acc.session.held, t.next)
              /\ t.held.count < acc.session.held.count
    BY <2>1, SkipIs
  <2>3. SkipIfDue(acc) = [session |-> t, out |-> acc.out \o list]
    BY <1>1, <2>2 DEF SkipIfDue
  <2> QED
    BY <1>1, <2>2, <2>3
<1>2. CASE ~Due(acc.session)
  <2>1. <<>> \in Seq(Incomings) /\ acc.out \o <<>> = acc.out
    OBVIOUS
  <2>2. SkipIfDue(acc) = [session |-> acc.session, out |-> acc.out \o <<>>]
    BY <1>2, <2>1 DEF SkipIfDue
  <2>3. Left(acc.session.held, acc.session.held, <<>>)
    <3>1. ToSet(<<>>) = {}
      BY DEF ToSet
    <3> QED
      BY <3>1 DEF Left, SessionIs, Rings
  <2> QED
    BY <1>2, <2>1, <2>2, <2>3
<1> QED
  BY <1>1, <1>2

(* expire_into: a turn for each slot of the ring.                          *)
LEMMA ExpireTurns ==
    ASSUME NEW s, SessionIs(s)
    PROVE  \E f : /\ f[{}] = [session |-> s, out |-> <<>>]
                  /\ \A m \in 0 .. RING - 1 : f[1 .. m + 1] = SkipIfDue(f[1 .. m])
                  /\ f[1 .. RING] = ExpireSession(s)
<1>0. RING \in Nat
  BY RingAssumption
<1> DEFINE Session == {t \in [next : Nat, held : Rings, lastSeen : Nat, skipped : SUBSET Nat] :
                          SessionIs(t)}
           S == [session : Session, out : Seq(Incomings)]
           Step == [x \in S \X (1 .. RING) |-> SkipIfDue(x[1])]
<1>1. PICK base : base = [session |-> s, out |-> <<>>]
  OBVIOUS
<1> DEFINE Folds(f) == f = [places \in SUBSET (1 .. RING) |->
                               IF places = {} THEN base
                               ELSE SkipIfDue(f[places \ {Max(places)}])]
<1>2. base \in S
  <2>1. <<>> \in Seq(Incomings) /\ s \in Session
    BY DEF SessionIs
  <2> QED
    BY <1>1, <2>1
<1>3. ASSUME NEW acc \in S, NEW i \in 1 .. RING
      PROVE  SkipIfDue(acc) \in S /\ Step[<<acc, i>>] = SkipIfDue(acc)
  <2>1. SkipIfDue(acc) \in S
    <3>1. SessionIs(acc.session) /\ acc.out \in Seq(Incomings)
          /\ acc = [session |-> acc.session, out |-> acc.out]
      OBVIOUS
    <3>2. PICK t, list :
              /\ list \in Seq(Incomings) /\ SessionIs(t)
              /\ SkipIfDue(acc) = [session |-> t, out |-> acc.out \o list]
      BY <3>1, SkipIfDueFits
    <3>3. acc.out \o list \in Seq(Incomings) /\ t \in Session
      BY <3>1, <3>2 DEF SessionIs
    <3> QED
      BY <3>2, <3>3
  <2>2. Step[<<acc, i>>] = SkipIfDue(acc)
    <3>1. <<acc, i>> \in S \X (1 .. RING)
      OBVIOUS
    <3> HIDE DEF S
    <3> QED
      BY <3>1
  <2> QED
    BY <2>1, <2>2
<1>4. Step \in [S \X (1 .. RING) -> S]
  <2> HIDE DEF S, Step
  <2>1. \A x \in S \X (1 .. RING) : Step[x] \in S
    BY <1>3
  <2> QED
    BY <2>1 DEF Step
<1>5. \E f : Folds(f)
  <2> HIDE DEF S
  <2>1. PICK f \in [SUBSET (1 .. RING) -> S] : FoldOf(f, RING, base, Step)
    <3> HIDE DEF Step
    <3> QED
      BY <1>0, <1>2, <1>4, FoldExists DEF HasFold
  <2>2. ASSUME NEW places \in SUBSET (1 .. RING), places # {}
        PROVE  f[places] = SkipIfDue(f[places \ {Max(places)}])
    <3>1. Max(places) \in 1 .. RING /\ f[places \ {Max(places)}] \in S
      BY <1>0, <2>1, <2>2, MaxIs
    <3> HIDE DEF Step
    <3> QED
      BY <1>3, <2>1, <2>2, <3>1 DEF FoldOf
  <2>3. \A places \in SUBSET (1 .. RING) : places = {} => f[places] = base
    BY <2>1 DEF FoldOf
  <2>4. Folds(f)
    <3> HIDE DEF Step
    <3> QED
      BY <2>1, <2>2, <2>3
  <2> QED
    BY <2>4
<1>6. PICK f : f = CHOOSE g : Folds(g)
  OBVIOUS
<1>7. Folds(f)
  <2> HIDE DEF Folds
  <2> QED
    BY <1>5, <1>6
<1>8. \A places \in SUBSET (1 .. RING) :
           f[places] = IF places = {} THEN base ELSE SkipIfDue(f[places \ {Max(places)}])
  BY <1>7
<1>9. f[1 .. RING] = ExpireSession(s)
  <2>1. PICK turns : turns = [i \in 1 .. RING |-> i]
    OBVIOUS
  <2>2. DOMAIN turns = 1 .. RING
    BY <2>1
  <2>3. FoldLeft(LAMBDA acc, i : SkipIfDue(acc), base, turns) = f[1 .. RING]
    BY <1>6, <2>2 DEF FoldLeft, MapThenFoldSet
  <2> QED
    BY <1>1, <2>1, <2>3 DEF ExpireSession
<1>10. ASSUME NEW m \in 0 .. RING - 1
       PROVE  f[1 .. m + 1] = SkipIfDue(f[1 .. m])
  <2>1. PICK places \in SUBSET (1 .. RING) : places = 1 .. m + 1
    BY <1>0, NextPlace
  <2>2. places # {} /\ Max(places) = m + 1 /\ places \ {m + 1} = 1 .. m
    BY <1>0, <2>1, NextPlace
  <2>3. f[places] = SkipIfDue(f[places \ {Max(places)}])
    BY <1>8, <2>2
  <2> QED
    BY <2>1, <2>2, <2>3
<1> QED
  BY <1>1, <1>8, <1>9, <1>10

(* What the timer does to a session that is due: it follows something it   *)
(* held, and a packet that has waited the whole wait goes.                 *)
LEMMA ExpireIs ==
    ASSUME NEW s, SessionIs(s), now \in Nat, wait \in Nat
    PROVE  \E t, list :
              /\ list \in Seq(Incomings)
              /\ ExpireSession(s) = [session |-> t, out |-> list] /\ SessionIs(t)
              /\ Left(s.held, t.held, list)
              /\ t.next = s.next \/ Follows(s.held, t.next)
              /\ ~Due(s) => list = <<>>
              /\ Due(s) /\ Exact(s.held) =>
                    \E i \in DOMAIN s.held.slots :
                       s.held.slots[i].packet \in ToSet(list) /\ now - s.held.slots[i].arrived >= wait
<1>0. RING \in Nat
  BY RingAssumption
<1>1. PICK f : /\ f[{}] = [session |-> s, out |-> <<>>]
               /\ \A m \in 0 .. RING - 1 : f[1 .. m + 1] = SkipIfDue(f[1 .. m])
               /\ f[1 .. RING] = ExpireSession(s)
  BY ExpireTurns
<1> DEFINE Good(acc, m) ==
              /\ acc = [session |-> acc.session, out |-> acc.out]
              /\ SessionIs(acc.session) /\ acc.out \in Seq(Incomings)
              /\ Left(s.held, acc.session.held, acc.out)
              /\ acc.session.next = s.next \/ Follows(s.held, acc.session.next)
              /\ Due(acc.session) => acc.session.held.count + m <= s.held.count
              /\ ~Due(s) => acc.out = <<>> /\ ~Due(acc.session)
           P == [m \in 0 .. RING |-> {acc \in {f[1 .. m], f[{}]} : Good(acc, m)}]
<1>2. f[{}] \in P[0]
  <2>1. PICK base : base = [session |-> s, out |-> <<>>]
    OBVIOUS
  <2>2. Left(s.held, s.held, <<>>)
    <3>1. ToSet(<<>>) = {}
      BY DEF ToSet
    <3> QED
      BY <3>1 DEF Left, SessionIs, Rings
  <2>3. Good(base, 0)
    <3>1. <<>> \in Seq(Incomings)
      OBVIOUS
    <3>2. s.held.count + 0 <= s.held.count
      BY DEF SessionIs, Rings
    <3> QED
      BY <2>1, <2>2, <3>1, <3>2
  <2>4. 0 \in 0 .. RING
    BY <1>0
  <2> HIDE DEF Good
  <2> QED
    BY <1>1, <2>1, <2>3, <2>4
<1>3. ASSUME NEW m \in 0 .. RING - 1, f[1 .. m] \in P[m]
      PROVE  f[1 .. m + 1] \in P[m + 1]
  <2>1. m \in 0 .. RING /\ m + 1 \in 0 .. RING /\ m \in Nat
    BY <1>0
  <2>2. PICK acc : acc = f[1 .. m] /\ Good(acc, m)
    <3> HIDE DEF Good
    <3> QED
      BY <1>3, <2>1
  <2>3. PICK t, list :
              /\ list \in Seq(Incomings)
              /\ SkipIfDue(acc) = [session |-> t, out |-> acc.out \o list] /\ SessionIs(t)
              /\ Left(acc.session.held, t.held, list)
              /\ ~Due(acc.session) => t = acc.session /\ list = <<>>
              /\ Due(acc.session) => /\ Follows(acc.session.held, t.next)
                                     /\ t.held.count < acc.session.held.count
    <3>1. SessionIs(acc.session) /\ acc.out \in Seq(Incomings)
          /\ acc = [session |-> acc.session, out |-> acc.out]
      BY <2>2
    <3> HIDE DEF P, Good
    <3> QED
      BY <3>1, SkipIfDueFits, Zenon
  <2>4. PICK got : got = [session |-> t, out |-> acc.out \o list]
    OBVIOUS
  <2>5. got.session = t /\ got.out = acc.out \o list
    BY <2>4
  <2>6. s.held \in Rings /\ acc.session.held \in Rings /\ t.held \in Rings
    BY <2>2, <2>3 DEF SessionIs
  <2>7. Left(s.held, t.held, acc.out \o list)
    BY <2>2, <2>3, <2>6, LeftJoins
  <2>8. t.next = s.next \/ Follows(s.held, t.next)
    <3>1. CASE ~Due(acc.session)
      BY <2>2, <2>3, <3>1
    <3>2. CASE Due(acc.session)
      <4>1. Left(s.held, acc.session.held, acc.out) /\ Follows(acc.session.held, t.next)
        BY <2>2, <2>3, <3>2
      <4> QED
        BY <4>1 DEF Left, Follows, CounterAt
    <3> QED
      BY <3>1, <3>2
  <2>9. Due(t) => t.held.count + (m + 1) <= s.held.count
    <3> SUFFICES ASSUME Due(t)
                 PROVE  t.held.count + (m + 1) <= s.held.count
      OBVIOUS
    <3>1. Due(acc.session)
      BY <2>3
    <3>2. t.held.count < acc.session.held.count /\ acc.session.held.count + m <= s.held.count
      BY <2>2, <2>3, <3>1
    <3>3. t.held.count \in Nat /\ acc.session.held.count \in Nat /\ s.held.count \in Nat
      BY <2>6 DEF Rings
    <3> QED
      BY <2>1, <3>2, <3>3
  <2>10. ~Due(s) => acc.out \o list = <<>> /\ ~Due(t)
    <3> SUFFICES ASSUME ~Due(s)
                 PROVE  acc.out \o list = <<>> /\ ~Due(t)
      OBVIOUS
    <3>1. acc.out = <<>> /\ ~Due(acc.session)
      BY <2>2
    <3>2. list = <<>> /\ t = acc.session
      BY <2>3, <3>1
    <3> QED
      BY <3>1, <3>2
  <2>11. Good(got, m + 1)
    <3>1. acc.out \o list \in Seq(Incomings)
      BY <2>2, <2>3
    <3> QED
      BY <2>3, <2>4, <2>5, <2>7, <2>8, <2>9, <2>10, <3>1
  <2>12. f[1 .. m + 1] = got
    BY <1>1, <2>2, <2>3, <2>4
  <2> HIDE DEF Good
  <2> QED
    BY <2>1, <2>11, <2>12
<1>4. f[1 .. RING] \in P[RING]
  <2> HIDE DEF P
  <2> QED
    BY <1>0, <1>2, <1>3, AlongPlaces
<1>5. PICK acc : acc = ExpireSession(s) /\ Good(acc, RING)
  <2> HIDE DEF Good
  <2>1. RING \in 0 .. RING
    BY <1>0
  <2> QED
    BY <1>1, <1>4, <2>1
<1>6. PICK t, list : t = acc.session /\ list = acc.out
  BY <1>5
<1>7. s.held \in Rings /\ t.held \in Rings
  BY <1>5, <1>6 DEF SessionIs
<1>8. ~Due(t)
  <2> SUFFICES ASSUME Due(t)
               PROVE  FALSE
    OBVIOUS
  <2>1. PICK D : D = DOMAIN s.held.slots
    OBVIOUS
  <2>2. D \subseteq 0 .. RING - 1 /\ Cardinality(D) = s.held.count
    BY <1>7, <2>1, RingIs DEF SessionIs, RingFits
  <2>3. Cardinality(D) <= RING
    <3>1. RING - 1 \in Int /\ 0 \in Int
      BY <1>0
    <3>2. IsFiniteSet(0 .. RING - 1)
      BY <3>1, FS_Interval
    <3>3. Cardinality(0 .. RING - 1) = RING
      <4>1. Cardinality(0 .. RING - 1) = IF 0 > RING - 1 THEN 0 ELSE (RING - 1) - 0 + 1
        BY <3>1, FS_Interval
      <4> QED
        BY <4>1, RingAssumption
    <3>4. Cardinality(D) <= Cardinality(0 .. RING - 1)
      BY <2>2, <3>2, FS_Subset
    <3> QED
      BY <3>3, <3>4
  <2>4. t.held.count + RING <= s.held.count /\ t.held.count > 0
    BY <1>5, <1>6 DEF Due
  <2>5. t.held.count \in Nat /\ s.held.count \in Nat
    BY <1>7 DEF Rings
  <2> QED
    BY <1>0, <2>2, <2>3, <2>4, <2>5
<1>9. ASSUME Due(s), Exact(s.held)
      PROVE  \E i \in DOMAIN s.held.slots :
                s.held.slots[i].packet \in ToSet(list) /\ now - s.held.slots[i].arrived >= wait
  <2>1. s.held.count # 0 /\ now >= s.held.oldest + wait
    BY <1>9 DEF Due
  <2>2. PICK i \in DOMAIN s.held.slots : s.held.slots[i].arrived = s.held.oldest
    BY <1>9, <2>1 DEF Exact
  <2>3. s.held.oldest \in Nat /\ t.held.oldest \in Nat /\ t.held.count \in Nat
    BY <1>7 DEF Rings
  <2>4. now - s.held.slots[i].arrived >= wait
    BY <2>1, <2>2, <2>3
  <2>5. i \notin DOMAIN t.held.slots
    <3> SUFFICES ASSUME i \in DOMAIN t.held.slots
                 PROVE  FALSE
      OBVIOUS
    <3>1. t.held.slots[i] = s.held.slots[i]
      BY <1>5, <1>6 DEF Left
    <3>2. RingFits(t.held, t.next + 1) /\ t.next + 1 \in Nat
      BY <1>5, <1>6 DEF SessionIs
    <3>3. t.held.count # 0
      BY <1>7, <3>2, RingIs
    <3>4. t.held.oldest <= s.held.oldest
      BY <2>2, <3>1, <3>2 DEF RingFits
    <3>5. Due(t)
      BY <2>1, <2>3, <3>3, <3>4 DEF Due
    <3> QED
      BY <1>8, <3>5
  <2>6. s.held.slots[i].packet \in ToSet(list)
    BY <1>5, <1>6, <2>5 DEF Left
  <2> QED
    BY <2>4, <2>6
<1> QED
  BY <1>5, <1>6, <1>9

(* t is the session s after the packet p came, and list what was handed    *)
(* over: all there was is in them, but for a held packet with p's number.  *)
Accounted(s, p, t, list) ==
    /\ HeldPackets(t) \cup ToSet(list) \subseteq HeldPackets(s) \cup {p}
    /\ \A q \in HeldPackets(s) \cup {p} :
          \/ q \in HeldPackets(t) \cup ToSet(list)
          \/ q \in HeldPackets(s) /\ q.counter = p.counter
    /\ t.held.count # 0 =>
          \/ t.held.oldest >= now
          \/ s.held.count # 0 /\ t.held.oldest >= s.held.oldest
    /\ Exact(s.held) => \/ Exact(t.held)
                        \/ \E q \in HeldPackets(s) : q.counter = p.counter
    /\ t.next = s.next \/ t.next = p.counter + 1 \/ Follows(s.held, t.next)

(* What is handed over overtakes only numbers before the expected one, or  *)
(* ones that have come, unless the gap was too large or the sender began   *)
(* anew.                                                                   *)
GoneInOrder(s, p, t, list) ==
    \A i \in DOMAIN list :
       /\ \A j \in DOMAIN list :
             i < j /\ list[j].counter < list[i].counter => list[j].counter < s.next
       /\ \A q \in HeldPackets(t) : q.counter < list[i].counter => q.counter < s.next
       /\ \A n \in Nat : n < list[i].counter =>
             \/ n < s.next
             \/ p.counter - s.next > MAX_GAP
             \/ NumberingRestarted(s, p)
             \/ \E y \in HeldPackets(s) \cup {p} : y.counter = n

IsPushed(s, p, t, list) ==
    /\ list \in Seq(Incomings) /\ SessionIs(t)
    /\ Pushed(s, p).session = t /\ Pushed(s, p).out = list
    /\ Accounted(s, p, t, list) /\ GoneInOrder(s, p, t, list)

LEMMA HeldAre ==
    ASSUME NEW s, SessionIs(s)
    PROVE  /\ HeldPackets(s) \subseteq Incomings
           /\ \A q \in HeldPackets(s) : q.counter > s.next /\ q.counter <= s.next + RING
           /\ s.held.count = 0 => HeldPackets(s) = {}
           /\ s.next \in Nat /\ s.held \in Rings
<1>1. s.held \in Rings /\ s.next \in Nat /\ RingFits(s.held, s.next + 1) /\ s.next + 1 \in Nat
  BY DEF SessionIs
<1>2. ASSUME NEW i \in DOMAIN s.held.slots
      PROVE  /\ s.held.slots[i].packet \in Incomings
             /\ CounterAt(s.held, i) > s.next /\ CounterAt(s.held, i) <= s.next + RING
  <2>1. s.held.slots[i] \in HeldEntry
    BY <1>1 DEF Rings, Slots
  <2>2. s.held.count # 0
    BY <1>1, RingIs
  <2>3. /\ CounterAt(s.held, i) \in s.held.lo .. s.held.hi /\ s.held.lo \in Nat /\ s.held.hi \in Nat
        /\ s.next + 1 <= s.held.lo /\ s.held.hi < s.next + 1 + RING
    BY <1>1, <2>2 DEF RingFits, Rings
  <2> QED
    BY <1>1, <2>1, <2>3, RingAssumption DEF HeldEntry
<1>3. s.held.count = 0 => DOMAIN s.held.slots = {}
  BY <1>1, RingIs
<1> QED
  BY <1>1, <1>2, <1>3 DEF HeldPackets, CounterAt

(* Everything that is held goes, and then the packet.                      *)
LEMMA PushedAfterAll ==
    ASSUME NEW s, SessionIs(s), NEW p \in Incomings, now \in Nat,
           NumberingRestarted(s, p) \/ p.counter - s.next > MAX_GAP
    PROVE  \E t, list : IsPushed(s, p, t, list)
<1>1. PICK ring \in Rings : ring = s.held
  BY DEF SessionIs
<1>2. s.next + 1 \in Nat /\ RingFits(ring, s.next + 1) /\ p.counter \in Nat /\ s.next \in Nat
      /\ RING \in Nat /\ RING > 1
  BY <1>1, RingAssumption DEF SessionIs, Incomings
<1>3. PICK acc \in Taken : /\ acc = ReleaseAll(ring) /\ Handed(ring, acc)
                           /\ acc.ring.count = 0
                           /\ \A to \in Nat : RingFits(acc.ring, to)
  BY <1>2, AllIs
<1>4. PICK list \in Seq(Incomings) : list = Append(acc.out, p)
  <2>1. acc.out \in Seq(Incomings)
    BY DEF Taken
  <2>2. Append(acc.out, p) \in Seq(Incomings)
    BY <2>1
  <2> QED
    BY <2>2
<1>5. PICK n \in Nat : n = Len(acc.out) /\ DOMAIN acc.out = 1 .. n
  BY DEF Taken
<1>6. /\ DOMAIN list = 1 .. n + 1 /\ list[n + 1] = p
      /\ \A i \in 1 .. n : list[i] = acc.out[i] /\ i \in DOMAIN acc.out
  BY <1>4, <1>5 DEF Taken
<1>7. ToSet(acc.out) = HeldPackets(s)
  <2>1. acc.ring \in Rings
    BY DEF Taken
  <2>2. DOMAIN acc.ring.slots = {}
    BY <1>2, <1>3, <2>1, RingIs
  <2>3. DOMAIN ring.slots \ DOMAIN acc.ring.slots = DOMAIN ring.slots
    BY <2>2
  <2> QED
    BY <1>1, <1>3, <2>3 DEF Handed, HeldPackets
<1>8. ToSet(list) = HeldPackets(s) \cup {p}
  <2>1. DOMAIN list = DOMAIN acc.out \cup {n + 1}
    BY <1>5, <1>6
  <2>2. ToSet(list) = ToSet(acc.out) \cup {p}
    BY <1>5, <1>6, <2>1 DEF ToSet
  <2> QED
    BY <1>7, <2>2
<1>9. PICK t : t = IF NumberingRestarted(s, p)
                   THEN [s EXCEPT !.held = acc.ring, !.next = p.counter + 1, !.skipped = {},
                                  !.lastSeen = now]
                   ELSE [s EXCEPT !.held = acc.ring, !.next = p.counter + 1, !.lastSeen = now]
  OBVIOUS
<1>10. /\ t \in [next : Nat, held : Rings, lastSeen : Nat, skipped : SUBSET Nat]
       /\ t.next = p.counter + 1 /\ t.held = acc.ring
  <2>1. p.counter + 1 \in Nat /\ acc.ring \in Rings
    BY <1>2 DEF Taken
  <2> QED
    BY <1>9, <2>1 DEF SessionIs
<1>11. SessionIs(t)
  BY <1>3, <1>10 DEF SessionIs
<1>12. Pushed(s, p).session = t /\ Pushed(s, p).out = list
  <2>1. CASE NumberingRestarted(s, p)
    <3>1. ~(p.counter = s.next) /\ ~(p.counter - s.next > MAX_GAP)
      BY <1>2, <2>1 DEF NumberingRestarted, MAX_GAP
    <3>2. t = [[s EXCEPT !.held = acc.ring, !.next = p.counter + 1, !.skipped = {}]
                  EXCEPT !.lastSeen = now]
      BY <1>9, <2>1 DEF SessionIs
    <3>3. Pushed(s, p) = [session |-> t, out |-> list, measured |-> FALSE]
      BY <1>1, <1>3, <1>4, <2>1, <3>1, <3>2 DEF Pushed
    <3> QED
      BY <3>3
  <2>2. CASE ~NumberingRestarted(s, p)
    <3>1. p.counter - s.next > MAX_GAP /\ ~(p.counter < s.next) /\ ~(p.counter = s.next)
      BY <1>2, <2>2 DEF MAX_GAP
    <3>2. t = [[s EXCEPT !.held = acc.ring, !.next = p.counter + 1] EXCEPT !.lastSeen = now]
      BY <1>9, <2>2 DEF SessionIs
    <3>3. Pushed(s, p) = [session |-> t, out |-> list, measured |-> FALSE]
      BY <1>1, <1>3, <1>4, <2>2, <3>1, <3>2 DEF Pushed
    <3> QED
      BY <3>3
  <2> QED
    BY <2>1, <2>2
<1>13. HeldPackets(t) = {}
  BY <1>3, <1>10, <1>11, HeldAre
<1>14. Accounted(s, p, t, list)
  BY <1>3, <1>8, <1>10, <1>13 DEF Accounted, Exact
<1>15. GoneInOrder(s, p, t, list)
  <2>1. ASSUME NEW i \in DOMAIN list, NEW j \in DOMAIN list, i < j,
               list[j].counter < list[i].counter
        PROVE  list[j].counter < s.next
    <3>1. i \in 1 .. n
      BY <1>6, <2>1
    <3>2. j = n + 1
      <4> SUFFICES ASSUME j # n + 1
                   PROVE  FALSE
        OBVIOUS
      <4>1. j \in 1 .. n
        BY <1>6
      <4>2. acc.out[i].counter < acc.out[j].counter
        BY <1>3, <1>6, <2>1, <3>1, <4>1 DEF Handed
      <4>3. acc.out[i] \in Incomings /\ acc.out[j] \in Incomings
        BY <1>5, <3>1, <4>1 DEF Taken
      <4>4. PICK a, b \in Nat : a = acc.out[i].counter /\ b = acc.out[j].counter
        BY <4>3 DEF Incomings
      <4>5. list[i] = acc.out[i] /\ list[j] = acc.out[j]
        BY <1>6, <3>1, <4>1
      <4>6. b < a
        BY <2>1, <4>4, <4>5
      <4> QED
        BY <4>2, <4>4, <4>6
    <3>3. list[j] = p /\ list[i] \in HeldPackets(s)
      BY <1>6, <1>7, <3>1, <3>2 DEF ToSet
    <3>4. list[i].counter <= s.next + RING /\ list[i] \in Incomings
      BY <3>3, HeldAre
    <3>5. ~(p.counter - s.next > MAX_GAP)
      <4>1. PICK c \in Nat : c = list[i].counter
        BY <3>4 DEF Incomings
      <4>2. p.counter < c /\ c <= s.next + RING
        BY <2>1, <3>3, <3>4, <4>1
      <4> QED
        BY <1>2, <4>2 DEF MAX_GAP
    <3> QED
      BY <3>3, <3>5 DEF NumberingRestarted
  <2> QED
    BY <1>13, <2>1 DEF GoneInOrder
<1> QED
  BY <1>11, <1>12, <1>14, <1>15 DEF IsPushed

(* A packet that comes late goes at once.                                  *)
LEMMA PushedLate ==
    ASSUME NEW s, SessionIs(s), NEW p \in Incomings, now \in Nat,
           p.counter < s.next, ~NumberingRestarted(s, p)
    PROVE  \E t, list : IsPushed(s, p, t, list)
<1>1. p.counter \in Nat /\ s.next \in Nat /\ s.held \in Rings
  BY DEF SessionIs, Incomings
<1>2. PICK list : list = <<p>>
  OBVIOUS
<1>3. list \in Seq(Incomings) /\ ToSet(list) = {p} /\ DOMAIN list = {1} /\ list[1] = p
  BY <1>2 DEF ToSet
<1>4. PICK t : t = [[s EXCEPT !.skipped = @ \ {p.counter}] EXCEPT !.lastSeen = now]
  OBVIOUS
<1>5. SessionIs(t) /\ t.next = s.next /\ t.held = s.held
  BY <1>4 DEF SessionIs
<1>6. Pushed(s, p).session = t /\ Pushed(s, p).out = list
  <2>1. ~(p.counter = s.next) /\ ~(p.counter - s.next > MAX_GAP)
    BY <1>1, RingAssumption DEF MAX_GAP
  <2>2. Pushed(s, p) = [session |-> t, out |-> list, measured |-> p.counter \in s.skipped]
    BY <1>2, <1>4, <2>1 DEF Pushed
  <2> QED
    BY <2>2
<1>7. HeldPackets(t) = HeldPackets(s)
  BY <1>5 DEF HeldPackets
<1>8. Accounted(s, p, t, list)
  <2>1. t.held.count # 0 => s.held.count # 0 /\ t.held.oldest >= s.held.oldest
    BY <1>1, <1>5 DEF Rings
  <2> QED
    BY <1>3, <1>5, <1>7, <2>1 DEF Accounted
<1>9. GoneInOrder(s, p, t, list)
  <2>1. \A q \in HeldPackets(t) : q.counter > s.next /\ q \in Incomings
    BY <1>7, HeldAre
  <2>2. \A n \in Nat : n < p.counter => n < s.next
    BY <1>1
  <2>3. \A q \in HeldPackets(t) : ~(q.counter < p.counter)
    BY <1>1, <2>1 DEF Incomings
  <2> QED
    BY <1>3, <2>2, <2>3 DEF GoneInOrder
<1> QED
  BY <1>3, <1>5, <1>6, <1>8, <1>9 DEF IsPushed

(* The expected packet goes, and the run that waited for it.               *)
LEMMA PushedInTurn ==
    ASSUME NEW s, SessionIs(s), NEW p \in Incomings, now \in Nat, p.counter = s.next
    PROVE  \E t, list : IsPushed(s, p, t, list)
<1>1. PICK ring \in Rings, c \in Nat : ring = s.held /\ c = s.next /\ p.counter = c
  BY DEF SessionIs
<1>2. RingFits(ring, c + 1) /\ c + 1 \in Nat
  BY <1>1 DEF SessionIs
<1>3. PICK acc \in Taken, n \in Nat :
              /\ acc = ReleaseRun(ring, c + 1) /\ Handed(ring, acc) /\ n = Len(acc.out)
              /\ RingFits(acc.ring, (c + 1) + n + 1)
              /\ \A i \in 1 .. n : acc.out[i].counter = (c + 1) + i - 1
  BY <1>2, RunIs
<1>4. PICK list : list = <<p>> \o acc.out
  OBVIOUS
<1>5. acc.out \in Seq(Incomings) /\ <<p>> \in Seq(Incomings) /\ acc.ring \in Rings
  BY DEF Taken
<1>6. /\ list \in Seq(Incomings) /\ DOMAIN list = 1 .. n + 1 /\ list[1] = p
      /\ \A i \in 2 .. n + 1 : list[i] = acc.out[i - 1] /\ i - 1 \in 1 .. n
      /\ DOMAIN acc.out = 1 .. n
  BY <1>3, <1>4, <1>5
<1>7. PICK t : t = [[s EXCEPT !.held = acc.ring, !.next = c + 1 + n] EXCEPT !.lastSeen = now]
  OBVIOUS
<1>8. SessionIs(t) /\ t.next = c + 1 + n /\ t.held = acc.ring
  <2>1. c + 1 + n \in Nat /\ (c + 1) + n + 1 = (c + 1 + n) + 1
    OBVIOUS
  <2>2. /\ t \in [next : Nat, held : Rings, lastSeen : Nat, skipped : SUBSET Nat]
        /\ t.next = c + 1 + n /\ t.held = acc.ring
    BY <1>5, <1>7, <2>1 DEF SessionIs
  <2> QED
    BY <1>3, <2>1, <2>2 DEF SessionIs
<1>9. Pushed(s, p).session = t /\ Pushed(s, p).out = list
  <2>1. ~NumberingRestarted(s, p) /\ ~(p.counter < s.next) /\ ~(p.counter - s.next > MAX_GAP)
    BY <1>1, RingAssumption DEF NumberingRestarted, MAX_GAP
  <2>2. Pushed(s, p) = [session |-> t, out |-> list, measured |-> s.held.count > 0]
    BY <1>1, <1>3, <1>4, <1>7, <2>1 DEF Pushed
  <2> QED
    BY <2>2
<1>10. Left(ring, acc.ring, acc.out)
  BY <1>3, HandedIsLeft
<1>11. ToSet(list) = ToSet(acc.out) \cup {p}
  <2>1. \A i \in 1 .. n : i + 1 \in 2 .. n + 1 /\ (i + 1) - 1 = i /\ i + 1 \in 1 .. n + 1
    OBVIOUS
  <2>2. \A i \in 1 .. n : acc.out[i] = list[i + 1] /\ i + 1 \in DOMAIN list
    BY <1>6, <2>1
  <2>3. \A i \in 1 .. n + 1 : i = 1 \/ i \in 2 .. n + 1
    OBVIOUS
  <2>4. 1 \in 1 .. n + 1
    OBVIOUS
  <2>5. ASSUME NEW q \in ToSet(list)
        PROVE  q \in ToSet(acc.out) \cup {p}
    <3>1. PICK i \in 1 .. n + 1 : q = list[i]
      BY <1>6 DEF ToSet
    <3>2. CASE i = 1
      BY <1>6, <3>1, <3>2
    <3>3. CASE i \in 2 .. n + 1
      <4>1. i - 1 \in 1 .. n
        BY <3>3
      <4>2. q = acc.out[i - 1] /\ i - 1 \in DOMAIN acc.out
        BY <1>6, <3>1, <3>3, <4>1
      <4> QED
        BY <4>2 DEF ToSet
    <3> QED
      BY <2>3, <3>1, <3>2, <3>3
  <2>6. ASSUME NEW q \in ToSet(acc.out)
        PROVE  q \in ToSet(list)
    BY <1>6, <2>2 DEF ToSet
  <2>7. p \in ToSet(list)
    BY <1>6, <2>4 DEF ToSet
  <2> QED
    BY <2>5, <2>6, <2>7
<1>12. /\ HeldPackets(t) \subseteq HeldPackets(s) /\ ToSet(acc.out) \subseteq HeldPackets(s)
       /\ HeldPackets(s) \subseteq HeldPackets(t) \cup ToSet(acc.out)
  BY <1>1, <1>8, <1>10 DEF HeldPackets, Left
<1>13. t.next = p.counter + 1 \/ Follows(ring, t.next)
  <2>1. CASE n = 0
    BY <1>1, <1>8, <2>1
  <2>2. CASE n # 0
    <3>1. acc.out[n].counter = c + n /\ n \in DOMAIN acc.out
      <4>1. n \in 1 .. n /\ (c + 1) + n - 1 = c + n
        BY <2>2
      <4> QED
        BY <1>3, <1>6, <4>1
    <3>2. acc.out[n] \in ToSet(acc.out)
      BY <3>1 DEF ToSet
    <3>3. PICK i \in DOMAIN ring.slots : ring.slots[i].packet = acc.out[n]
      BY <1>10, <3>2 DEF Left
    <3>4. t.next = CounterAt(ring, i) + 1
      BY <1>8, <3>1, <3>3 DEF CounterAt
    <3> QED
      BY <3>4 DEF Follows
  <2> QED
    BY <2>1, <2>2
<1>14. Accounted(s, p, t, list)
  <2>1. HeldPackets(t) \cup ToSet(list) = HeldPackets(s) \cup {p}
    BY <1>11, <1>12
  <2>2. t.held.count # 0 => s.held.count # 0 /\ t.held.oldest >= s.held.oldest
    BY <1>1, <1>8, <1>10 DEF Left
  <2>3. Exact(s.held) => Exact(t.held)
    BY <1>1, <1>8, <1>10 DEF Left
  <2> QED
    BY <1>1, <1>13, <2>1, <2>2, <2>3 DEF Accounted
<1>15. \A i \in 1 .. n + 1 : list[i].counter = c + i - 1
  <2>1. ASSUME NEW i \in 1 .. n + 1
        PROVE  list[i].counter = c + i - 1
    <3>1. CASE i = 1
      BY <1>1, <1>6, <3>1
    <3>2. CASE i # 1
      <4>1. i \in 2 .. n + 1
        BY <3>2
      <4>2. list[i].counter = (c + 1) + (i - 1) - 1
        BY <1>3, <1>6, <4>1
      <4> QED
        BY <4>1, <4>2
    <3> QED
      BY <3>1, <3>2
  <2> QED
    BY <2>1
<1>16. GoneInOrder(s, p, t, list)
  <2>1. \A i, j \in 1 .. n + 1 : i < j => ~(c + j - 1 < c + i - 1)
    OBVIOUS
  <2>2. ASSUME NEW i \in 1 .. n + 1, NEW q \in HeldPackets(t)
        PROVE  ~(q.counter < list[i].counter)
    <3>1. q.counter > c + 1 + n /\ q \in Incomings
      BY <1>8, HeldAre
    <3> QED
      BY <1>15, <3>1 DEF Incomings
  <2>3. ASSUME NEW i \in 1 .. n + 1, NEW m \in Nat, m < list[i].counter
        PROVE  m < s.next \/ \E y \in HeldPackets(s) \cup {p} : y.counter = m
    <3>1. m < c + i - 1
      BY <1>15, <2>3
    <3>2. CASE m < c
      BY <1>1, <3>2
    <3>3. CASE m >= c
      <4>1. m - c + 1 \in 1 .. n + 1 /\ c + (m - c + 1) - 1 = m
        BY <3>1, <3>3
      <4>2. PICK j \in 1 .. n + 1 : j = m - c + 1 /\ c + j - 1 = m
        BY <4>1
      <4>3. list[j].counter = m /\ list[j] \in ToSet(list)
        BY <1>6, <1>15, <4>2 DEF ToSet
      <4>4. list[j] \in HeldPackets(s) \cup {p}
        BY <1>11, <1>12, <4>3
      <4> QED
        BY <4>3, <4>4
    <3> QED
      BY <3>2, <3>3
  <2>4. \A i, j \in 1 .. n + 1 : i < j => ~(list[j].counter < list[i].counter)
    BY <1>15, <2>1
  <2> QED
    BY <1>6, <2>2, <2>3, <2>4 DEF GoneInOrder
<1> QED
  BY <1>6, <1>8, <1>9, <1>14, <1>16 DEF IsPushed

(* A packet that comes early is held.                                      *)
LEMMA PushedEarly ==
    ASSUME NEW s, SessionIs(s), NEW p \in Incomings, now \in Nat,
           p.counter > s.next, p.counter - s.next <= MAX_GAP
    PROVE  \E t, list : IsPushed(s, p, t, list)
<1>1. PICK ring \in Rings, c \in Nat : ring = s.held /\ c = p.counter
  BY DEF SessionIs, Incomings
<1>2. RingFits(ring, s.next + 1) /\ s.next + 1 \in Nat /\ s.next \in Nat
  BY <1>1 DEF SessionIs
<1>3. c \in s.next + 1 .. (s.next + 1) + RING - 1
  BY <1>1, <1>2, RingAssumption DEF MAX_GAP
<1>4. PICK entry \in HeldEntry : entry = [packet |-> p, arrived |-> now]
  BY DEF HeldEntry
<1>5. entry.packet = p /\ entry.arrived = now
  BY <1>4
<1>6. PICK i \in 0 .. RING - 1, new \in Rings :
              /\ i = RingIndex(c) /\ new = RingInsert(ring, c, entry)
              /\ DOMAIN new.slots = DOMAIN ring.slots \cup {i} /\ new.slots[i] = entry
              /\ \A j \in DOMAIN ring.slots \ {i} : new.slots[j] = ring.slots[j]
              /\ i \in DOMAIN ring.slots => CounterAt(ring, i) = c
              /\ RingFits(new, s.next + 1) /\ new.count # 0
              /\ new.oldest >= entry.arrived \/ (ring.count # 0 /\ new.oldest >= ring.oldest)
              /\ i \notin DOMAIN ring.slots /\ Exact(ring) => Exact(new)
  BY <1>1, <1>2, <1>3, <1>5, InsertIs
<1>7. PICK t : t = [[s EXCEPT !.held = new] EXCEPT !.lastSeen = now]
  OBVIOUS
<1>8. SessionIs(t) /\ t.next = s.next /\ t.held = new
  <2>1. /\ t \in [next : Nat, held : Rings, lastSeen : Nat, skipped : SUBSET Nat]
        /\ t.next = s.next /\ t.held = new
    BY <1>7 DEF SessionIs
  <2> QED
    BY <1>6, <2>1 DEF SessionIs
<1>9. Pushed(s, p).session = t /\ Pushed(s, p).out = <<>>
  <2>1. /\ ~(p.counter < s.next) /\ ~(p.counter = s.next) /\ ~(p.counter - s.next > MAX_GAP)
        /\ ~NumberingRestarted(s, p)
    BY <1>1, <1>2, RingAssumption DEF NumberingRestarted, MAX_GAP
  <2>2. new = RingInsert(s.held, p.counter, [packet |-> p, arrived |-> now])
    BY <1>1, <1>4, <1>6
  <2>3. Pushed(s, p) = [session |-> t, out |-> <<>>, measured |-> FALSE]
    BY <1>7, <2>1, <2>2 DEF Pushed
  <2> QED
    BY <2>3
<1>10. ToSet(<<>>) = {} /\ <<>> \in Seq(Incomings)
  BY DEF ToSet
<1>11. /\ HeldPackets(t) \subseteq HeldPackets(s) \cup {p} /\ p \in HeldPackets(t)
       /\ \A q \in HeldPackets(s) : q \in HeldPackets(t) \/ q.counter = c
  BY <1>1, <1>5, <1>6, <1>8 DEF HeldPackets, CounterAt
<1>12. Exact(s.held) => Exact(t.held) \/ \E q \in HeldPackets(s) : q.counter = c
  BY <1>1, <1>6, <1>8 DEF HeldPackets, CounterAt
<1>13. Accounted(s, p, t, <<>>)
  BY <1>1, <1>5, <1>6, <1>8, <1>10, <1>11, <1>12 DEF Accounted
<1>14. GoneInOrder(s, p, t, <<>>)
  BY DEF GoneInOrder
<1> QED
  BY <1>8, <1>9, <1>10, <1>13, <1>14 DEF IsPushed

LEMMA PushedIs ==
    ASSUME NEW s, SessionIs(s), NEW p \in Incomings, now \in Nat
    PROVE  \E t, list : IsPushed(s, p, t, list)
<1>1. p.counter \in Nat /\ s.next \in Nat /\ MAX_GAP \in Int
  BY RingAssumption DEF SessionIs, Incomings, MAX_GAP
<1>2. CASE NumberingRestarted(s, p) \/ p.counter - s.next > MAX_GAP
  BY <1>2, PushedAfterAll
<1>3. CASE ~NumberingRestarted(s, p) /\ p.counter < s.next
  BY <1>3, PushedLate
<1>4. CASE p.counter = s.next
  BY <1>4, PushedInTurn
<1>5. CASE p.counter > s.next /\ p.counter - s.next <= MAX_GAP
  BY <1>5, PushedEarly
<1> QED
  BY <1>1, <1>2, <1>3, <1>4, <1>5

-----------------------------------------------------------------------------
(* The packets on their way.                                               *)

KeyOf(s) == [client |-> IF s = "phone" THEN client ELSE None, flow |-> bucket]

MessageOf(s, n) == IF s = "hub" THEN Wrapped(client, bucket, n) ELSE Ordered(bucket, n)

(* A number that the sender has given out.                                 *)
Numbered(s, epoch, n) ==
    epoch <= numbering[s] /\ (epoch = numbering[s] => n < next[s][bucket])

Origin(p) ==
    /\ p \in Incomings /\ p.sender \in Senders /\ p.key = KeyOf(p.sender) /\ p.n = p.counter
    /\ Numbered(p.sender, p.epoch, p.n)

FlightFits(x) ==
    /\ x = [sender |-> x.sender, numbering |-> x.numbering, n |-> x.n,
            message |-> MessageOf(x.sender, x.n)]
    /\ x.sender \in Senders /\ x.numbering \in Nat /\ x.n \in Nat
    /\ Numbered(x.sender, x.numbering, x.n)
    /\ Packet(x, KeyOf(x.sender), x.n) \notin arrived

CountersTyped ==
    /\ way \in {"up", "down"}
    /\ next \in [Sender -> [Bucket -> Nat]] /\ numbering \in [Sender -> Nat]

LEMMA Constants ==
    /\ client \in Nat /\ client # None /\ bucket \in Bucket /\ bucket \in Nat
    /\ Key = [client : Client \cup {None}, flow : Bucket] /\ client \in Client
<1>1. client \in Client /\ bucket \in Bucket /\ Key = SessionKey
  BY FlowsAssumption
<1>2. client \in Nat /\ bucket \in Nat /\ None \notin Nat
  BY <1>1, DataPathAssumption
<1>3. client # None
  BY <1>2
<1> QED
  BY <1>1, <1>2, <1>3 DEF SessionKey

LEMMA KeysAre ==
    ASSUME way \in {"up", "down"}, NEW s \in Senders
    PROVE  KeyOf(s) \in Key /\ OwnerOf(KeyOf(s)) = s /\ s \in Sender /\ KeyOf(s).flow = bucket
<1>1. KeyOf(s) \in Key /\ s \in Sender /\ KeyOf(s).flow = bucket
  BY Constants DEF KeyOf, Senders, Sender
<1>2. KeyOf(s).client = IF s = "phone" THEN client ELSE None
  BY DEF KeyOf
<1>3. CASE way = "down"
  BY <1>1, <1>3 DEF Senders, OwnerOf
<1>4. CASE way = "up"
  <2>1. s = "router" \/ s = "phone"
    BY <1>4 DEF Senders
  <2>2. CASE s = "router"
    BY <1>1, <1>2, <1>4, <2>2 DEF OwnerOf
  <2>3. CASE s = "phone"
    BY <1>1, <1>2, <1>4, <2>3, Constants DEF OwnerOf
  <2> QED
    BY <1>1, <2>1, <2>2, <2>3
<1> QED
  BY <1>3, <1>4

(* Packets of a session with one number differ by the numbering.           *)
LEMMA OneOfANumber ==
    ASSUME way \in {"up", "down"}, NEW p, NEW q, Origin(p), Origin(q),
           p.key = q.key, p.counter = q.counter, p.epoch = q.epoch
    PROVE  p = q
<1>1. p.sender = OwnerOf(p.key) /\ q.sender = OwnerOf(q.key)
  BY KeysAre DEF Origin
<1>2. p.sender = q.sender /\ p.n = q.n /\ p \in Incomings /\ q \in Incomings
  BY <1>1 DEF Origin
<1> QED
  BY <1>2 DEF Incomings

(* What is written and read again.                                         *)
LEMMA OrderedIsCarried ==
    ASSUME NEW n \in Nat
    PROVE  Received(Ordered(bucket, n)) = [wrapped |-> None, order |-> [flow |-> bucket, seq |-> n]]
<1>1. PICK fields : fields = Fields([flow |-> bucket, seq |-> n], <<>>)
  OBVIOUS
<1>2. /\ Field(fields, "flow", 0) = bucket
      /\ Field(fields, "seq", 0) = n
  BY <1>1 DEF Field, Fields
<1>3. Carried(Ordered(bucket, n)) = Ordered(bucket, n)
  BY <1>1, <1>2 DEF Carried, Parsed, Encoded, Ordered
<1> QED
  BY <1>3 DEF Received, Incoming, Ordered

LEMMA WrappedIsCarried ==
    ASSUME NEW n \in Nat
    PROVE  Received(Wrapped(client, bucket, n))
               = [wrapped |-> client, order |-> [flow |-> bucket, seq |-> n]]
<1>0. bucket # None
  BY Constants, DataPathAssumption
<1>1. PICK fields : fields = Fields([client |-> client, seq |-> n], [flow |-> bucket])
  OBVIOUS
<1>2. /\ Field(fields, "client", 0) = client
      /\ Field(fields, "seq", 0) = n
      /\ Field(fields, "flow", None) = bucket
  BY <1>0, <1>1 DEF Field, Fields
<1>3. Carried(Wrapped(client, bucket, n)) = Wrapped(client, bucket, n)
  BY <1>1, <1>2 DEF Carried, Parsed, Encoded, Wrapped
<1> QED
  BY <1>0, <1>3 DEF Received, Incoming, Wrapped

(* A phone's packet comes to the server with its client and its number, a  *)
(* packet to the phone comes to it with its number.                        *)
LEMMA ReceiverIs ==
    ASSUME NEW x, FlightFits(x)
    PROVE  AtReceiver(x) = [wrapped |-> IF x.sender = "phone" THEN client ELSE None,
                            order |-> [flow |-> bucket, seq |-> x.n]]
<1>0. /\ x.n \in Nat /\ x.message = MessageOf(x.sender, x.n)
      /\ x.sender \in {"router", "phone", "hub"}
  BY DEF FlightFits, Senders
<1>1. [flow |-> bucket, seq |-> x.n] # None
  <2>1. [flow |-> bucket, seq |-> x.n] \in [flow : Bucket, seq : Nat]
    BY <1>0, Constants
  <2> QED
    BY <2>1, DataPathAssumption
<1>2. CASE x.sender = "router"
  BY <1>0, <1>2, OrderedIsCarried DEF AtReceiver, MessageOf
<1>3. CASE x.sender = "phone"
  <2>1. PICK packet : packet = Received(x.message)
    OBVIOUS
  <2>2. packet.order = [flow |-> bucket, seq |-> x.n]
    BY <1>0, <1>3, <2>1, OrderedIsCarried DEF MessageOf
  <2>3. PhoneToVps(client, packet, 0) = Wrapped(client, bucket, x.n)
    BY <1>1, <2>2 DEF PhoneToVps, SentToClient
  <2>4. AtReceiver(x) = Received(PhoneToVps(client, packet, 0))
    BY <1>3, <2>1 DEF AtReceiver
  <2> QED
    BY <1>0, <1>3, <2>3, <2>4, WrappedIsCarried
<1>4. CASE x.sender = "hub"
  <2>1. PICK packet : packet = Received(x.message)
    OBVIOUS
  <2>2. packet.order = [flow |-> bucket, seq |-> x.n]
    BY <1>0, <1>4, <2>1, WrappedIsCarried DEF MessageOf
  <2>3. VpsToPhone(packet) = Ordered(bucket, x.n)
    BY <1>1, <2>2 DEF VpsToPhone
  <2>4. AtReceiver(x) = Received(VpsToPhone(packet))
    BY <1>4, <2>1 DEF AtReceiver
  <2> QED
    BY <1>0, <1>4, <2>3, <2>4, OrderedIsCarried
<1> QED
  BY <1>0, <1>2, <1>3, <1>4

(* What a sender makes of a packet that it numbers.                        *)
LEMMA SentIs ==
    ASSUME CountersTyped, NEW s \in Senders, NEW packet \in TunPacket, packet.flow = bucket,
           Route(next[s], packet).kind = "ordered"
    PROVE  /\ SentRouted(TargetClient(s), Route(next[s], packet), 0) = MessageOf(s, next[s][bucket])
           /\ Advanced(next[s], packet) = [next[s] EXCEPT ![bucket] = @ + 1]
<1>0. PICK n \in Nat : n = next[s][bucket]
  BY Constants DEF CountersTyped, Senders, Sender
<1>1. PICK info : info = Inspected(packet)
  OBVIOUS
<1>2. ~packet.long /\ info # None /\ info.tcp
  <2>1. (packet.long \/ info = None) => FALSE
    BY <1>1 DEF Route
  <2>2. ~info.tcp => FALSE
    BY <1>1, <2>1 DEF Route
  <2> QED
    BY <2>1, <2>2
<1>3. info.flow = bucket
  BY <1>1, <1>2 DEF Inspected
<1>4. Route(next[s], packet) = [kind |-> "ordered", flow |-> bucket, seq |-> n]
  BY <1>0, <1>1, <1>2, <1>3 DEF Route
<1>5. [flow |-> bucket, seq |-> n] # None
  <2>1. [flow |-> bucket, seq |-> n] \in [flow : Bucket, seq : Nat]
    BY Constants
  <2> QED
    BY <2>1, DataPathAssumption
<1>6. PICK route : route = [kind |-> "ordered", flow |-> bucket, seq |-> n]
  OBVIOUS
<1>7. route.kind = "ordered" /\ route.flow = bucket /\ route.seq = n
  BY <1>6
<1>8. SentRouted(TargetClient(s), route, 0) = MessageOf(s, n)
  <2>1. CASE s = "hub"
    <3>1. TargetClient(s) # None /\ TargetClient(s) = client
      BY <2>1, Constants DEF TargetClient
    <3>2. SentRouted(client, route, 0) = SentToClient(client, [flow |-> bucket, seq |-> n], 0)
      BY <1>7, <3>1 DEF SentRouted
    <3>3. SentToClient(client, [flow |-> bucket, seq |-> n], 0) = Wrapped(client, bucket, n)
      BY <1>5 DEF SentToClient
    <3> QED
      BY <2>1, <3>1, <3>2, <3>3 DEF MessageOf
  <2>2. CASE s # "hub"
    <3>1. TargetClient(s) = None
      BY <2>2 DEF TargetClient
    <3>2. SentRouted(None, route, 0) = Ordered(bucket, n)
      BY <1>7 DEF SentRouted
    <3> QED
      BY <2>2, <3>1, <3>2 DEF MessageOf
  <2> QED
    BY <2>1, <2>2
<1> QED
  BY <1>0, <1>4, <1>6, <1>8 DEF Advanced

-----------------------------------------------------------------------------
(* The inductive invariant.                                                *)

(* What the timer owes a session: it is not yet later than it may be.      *)
Timely(ring) == ring.count # 0 => now <= ring.oldest + MAX_WAIT + Lateness

SessionFits(k, s) ==
    /\ SessionIs(s)
    /\ OwnerOf(k) \in Senders /\ k = KeyOf(OwnerOf(k))
    /\ \A q \in HeldPackets(s) : q \in arrived /\ q.key = k
    /\ Timely(s.held)
    /\ Exact(s.held) \/ NumberRepeated(k)
    /\ numbering[OwnerOf(k)] = 0 => s.next <= next[OwnerOf(k)][bucket]

Typed ==
    /\ CountersTyped /\ now \in Nat /\ wait \in Nat /\ wait <= MAX_WAIT
    /\ DOMAIN sessions \subseteq Key

SessionsFit == \A k \in DOMAIN sessions : SessionFits(k, sessions[k])

ArrivedFit == \A p \in arrived : Origin(p)

FlightFit == \A x \in flight : FlightFits(x)

NothingLost == \A p \in arrived \ (delivered \cup Held \cup pruned) : NumberRepeated(p.key)

IInv == Typed /\ SessionsFit /\ ArrivedFit /\ FlightFit /\ NothingLost

(* The packet p comes, and list is handed over of its session, which was s *)
(* and is t.                                                               *)
ArrivesAs(p, s, t, list, evicted) ==
    /\ Origin(p) /\ p \notin arrived
    /\ s = SessionOf(p) /\ SessionFits(p.key, s) /\ IsPushed(s, p, t, list)
    /\ evicted \subseteq DOMAIN sessions /\ p.key \notin evicted
    /\ DOMAIN sessions' = (DOMAIN sessions \ evicted) \cup {p.key}
    /\ \A k \in DOMAIN sessions' : sessions'[k] = IF k = p.key THEN t ELSE sessions[k]
    /\ pruned' = pruned \cup UNION {HeldPackets(sessions[k]) : k \in evicted}
    /\ delivered' = delivered \cup ToSet(list)
    /\ out' = [Silent EXCEPT ![p.key] = list]
    /\ arrived' = arrived \cup {p}
    /\ wait' \in Nat /\ wait' <= MAX_WAIT
    /\ UNCHANGED <<now, way, next, numbering>>

LEMMA RepeatedStays ==
    ASSUME arrived \subseteq arrived', NEW k, NumberRepeated(k)
    PROVE  NumberRepeated(k)'
BY DEF NumberRepeated

(* The session of a packet fits, if it is a new one too.                   *)
LEMMA SessionOfFits ==
    ASSUME Typed, SessionsFit, NEW p, Origin(p)
    PROVE  SessionFits(p.key, SessionOf(p))
<1>1. CASE p.key \in DOMAIN sessions
  BY <1>1 DEF SessionOf, SessionsFit
<1>2. CASE p.key \notin DOMAIN sessions
  <2>1. PICK s : s = SessionOf(p)
    OBVIOUS
  <2>2. s = [next |-> p.counter, held |-> EmptyRing, lastSeen |-> now, skipped |-> {}]
    BY <1>2, <2>1 DEF SessionOf, NewSession
  <2>3. EmptyRing \in Rings /\ EmptyRing.count = 0 /\ DOMAIN EmptyRing.slots = {}
    <3>1. <<>> \in [{} -> HeldEntry] /\ {} \in SUBSET (0 .. RING - 1) /\ DOMAIN <<>> = {}
      OBVIOUS
    <3>2. <<>> \in Slots
      BY <3>1 DEF Slots
    <3> QED
      BY <3>1, <3>2 DEF EmptyRing, Rings
  <2>4. RingFits(EmptyRing, p.counter + 1) /\ Exact(EmptyRing) /\ Timely(EmptyRing)
    <3>1. Cardinality({}) = 0
      BY FS_EmptySet
    <3> QED
      BY <2>3, <3>1 DEF RingFits, Exact, Timely
  <2>5. p.counter \in Nat /\ now \in Nat
    BY DEF Origin, Incomings, Typed
  <2>6. SessionIs(s) /\ s.next = p.counter /\ s.held = EmptyRing
    BY <2>2, <2>3, <2>4, <2>5 DEF SessionIs
  <2>7. HeldPackets(s) = {}
    BY <2>3, <2>6 DEF HeldPackets
  <2>8. OwnerOf(p.key) = p.sender /\ p.sender \in Senders /\ p.key = KeyOf(p.sender)
        /\ p.sender \in Sender
    BY KeysAre DEF Origin, Typed, CountersTyped
  <2>9. numbering[p.sender] = 0 => p.counter <= next[p.sender][bucket]
    <3>1. p.epoch \in Nat /\ p.n = p.counter /\ Numbered(p.sender, p.epoch, p.n)
      BY DEF Origin, Incomings
    <3>2. next[p.sender][bucket] \in Nat
      BY <2>8, Constants DEF Typed, CountersTyped
    <3> QED
      BY <2>5, <3>1, <3>2 DEF Numbered
  <2> QED
    BY <2>1, <2>4, <2>6, <2>7, <2>8, <2>9 DEF SessionFits
<1> QED
  BY <1>1, <1>2

LEMMA ComeIs ==
    ASSUME IInv, NEW x \in flight, Come(x)
    PROVE  \E p, s, t, list, evicted :
              /\ p = Packet(x, KeyOf(x.sender), x.n) /\ ArrivesAs(p, s, t, list, evicted)
              /\ flight' = flight \ {x}
<1>1. FlightFits(x)
  BY DEF IInv, FlightFit
<1>2. PICK p : p = Packet(x, KeyOf(x.sender), x.n)
  OBVIOUS
<1>3. Origin(p) /\ p \notin arrived
  <2>1. x.sender \in Senders /\ x.numbering \in Nat /\ x.n \in Nat
    BY <1>1 DEF FlightFits
  <2>2. KeyOf(x.sender) \in Key /\ x.sender \in Sender
    BY <2>1, KeysAre DEF IInv, Typed, CountersTyped
  <2>3. p = [key |-> KeyOf(x.sender), counter |-> x.n, epoch |-> x.numbering,
             sender |-> x.sender, n |-> x.n]
    BY <1>2 DEF Packet
  <2>4. p \in Incomings
    BY <2>1, <2>2, <2>3 DEF Incomings
  <2> QED
    BY <1>1, <1>2, <2>1, <2>3, <2>4 DEF FlightFits, Origin
<1>4. Arrive(p) /\ flight' = flight \ {x} /\ UNCHANGED <<way, next, numbering>>
  <2>1. PICK packet : packet = AtReceiver(x)
    OBVIOUS
  <2>2. packet = [wrapped |-> IF x.sender = "phone" THEN client ELSE None,
                  order |-> [flow |-> bucket, seq |-> x.n]]
    BY <1>1, <2>1, ReceiverIs
  <2>3. packet.order # None
    <3>1. [flow |-> bucket, seq |-> x.n] \in [flow : Bucket, seq : Nat]
      BY <1>1, Constants DEF FlightFits
    <3> QED
      BY <2>2, <3>1, DataPathAssumption
  <2>4. SessionOfPacket(packet) = KeyOf(x.sender) /\ packet.order.seq = x.n
    BY <2>2 DEF SessionOfPacket, KeyOf
  <2>5. Arrive(Packet(x, SessionOfPacket(packet), packet.order.seq))
    BY <2>1, <2>3 DEF Come
  <2>6. Arrive(p)
    BY <1>2, <2>4, <2>5
  <2> QED
    BY <2>6 DEF Come
<1>5. PICK s : s = SessionOf(p)
  OBVIOUS
<1>6. SessionFits(p.key, s) /\ p \in Incomings /\ now \in Nat
  BY <1>3, <1>5, SessionOfFits DEF IInv, Typed, Origin
<1>7. PICK t, list : IsPushed(s, p, t, list)
  BY <1>6, PushedIs DEF SessionFits
<1>8. PICK evicted \in Evicted(p) :
         /\ sessions' = [k \in (DOMAIN sessions \ evicted) \cup {p.key} |->
                            IF k = p.key THEN t ELSE sessions[k]]
         /\ pruned' = pruned \cup UNION {HeldPackets(sessions[k]) : k \in evicted}
  BY <1>4, <1>5, <1>7 DEF Arrive, IsPushed
<1>9. evicted \subseteq DOMAIN sessions /\ p.key \notin evicted
  BY <1>8 DEF Evicted
<1>10. wait' \in Nat /\ wait' <= MAX_WAIT
  <2>1. RecordLateness(Pushed(s, p).measured)
    BY <1>4, <1>5 DEF Arrive
  <2> QED
    BY <2>1, ReorderAssumption DEF RecordLateness, IInv, Typed
<1>11. /\ out' = [Silent EXCEPT ![p.key] = list] /\ delivered' = delivered \cup ToSet(list)
       /\ arrived' = arrived \cup {p} /\ UNCHANGED now
  BY <1>4, <1>5, <1>7 DEF Arrive, IsPushed
<1> QED
  BY <1>2, <1>3, <1>4, <1>5, <1>6, <1>7, <1>8, <1>9, <1>10, <1>11 DEF ArrivesAs

LEMMA ArriveKeeps ==
    ASSUME IInv, NEW x \in flight, NEW p, NEW s, NEW t, NEW list, NEW evicted,
           p = Packet(x, KeyOf(x.sender), x.n), ArrivesAs(p, s, t, list, evicted),
           flight' = flight \ {x}
    PROVE  IInv'
<1>1. /\ arrived' = arrived \cup {p} /\ UNCHANGED <<now, way, next, numbering>>
      /\ Origin(p) /\ p \notin arrived
      /\ SessionFits(p.key, s) /\ IsPushed(s, p, t, list)
      /\ evicted \subseteq DOMAIN sessions /\ p.key \notin evicted
      /\ DOMAIN sessions' = (DOMAIN sessions \ evicted) \cup {p.key}
      /\ \A k \in DOMAIN sessions' : sessions'[k] = IF k = p.key THEN t ELSE sessions[k]
  BY DEF ArrivesAs
<1>2. arrived \subseteq arrived'
  BY <1>1
<1>3. Typed'
  <2>1. p.key \in Key
    BY <1>1 DEF Origin, Incomings
  <2> QED
    BY <1>1, <2>1 DEF IInv, Typed, CountersTyped, ArrivesAs
<1>4. ASSUME NEW q
      PROVE  Origin(q) => Origin(q)'
  BY <1>1 DEF Origin, Numbered, KeyOf, Senders
<1>5. ArrivedFit'
  BY <1>1, <1>4 DEF IInv, ArrivedFit
<1>6. ASSUME NEW y \in flight'
      PROVE  FlightFits(y)'
  <2>1. FlightFits(y) /\ FlightFits(x) /\ y # x
    BY <1>6 DEF IInv, FlightFit
  <2>2. Packet(y, KeyOf(y.sender), y.n) # p
    <3> SUFFICES ASSUME Packet(y, KeyOf(y.sender), y.n) = p
                 PROVE  FALSE
      OBVIOUS
    <3>1. y.sender = x.sender /\ y.numbering = x.numbering /\ y.n = x.n
      <4>1. /\ p.sender = x.sender /\ p.epoch = x.numbering /\ p.n = x.n
            /\ p.sender = y.sender /\ p.epoch = y.numbering /\ p.n = y.n
        BY DEF Packet
      <4> QED
        BY <4>1
    <3> QED
      BY <2>1, <3>1 DEF FlightFits
  <2> QED
    BY <1>1, <2>1, <2>2 DEF FlightFits, Numbered, KeyOf, Senders
<1>7. \A q \in HeldPackets(s) : Origin(q) /\ q.key = p.key /\ q \in arrived
  BY <1>1 DEF SessionFits, IInv, ArrivedFit
<1>8. ASSUME NEW q \in HeldPackets(s), q.counter = p.counter
      PROVE  NumberRepeated(p.key)'
  <2>1. q # p /\ q.key = p.key /\ q \in arrived' /\ p \in arrived' /\ Origin(q)
    BY <1>1, <1>7
  <2>2. q.epoch # p.epoch
    BY <1>1, <1>8, <2>1, OneOfANumber DEF IInv, Typed, CountersTyped
  <2> QED
    BY <1>8, <2>1, <2>2 DEF NumberRepeated
<1>9. ASSUME NEW k \in DOMAIN sessions'
      PROVE  SessionFits(k, sessions[k])'
  <2>1. CASE k # p.key
    <3>1. k \in DOMAIN sessions /\ sessions'[k] = sessions[k]
      BY <1>1, <1>9, <2>1
    <3>2. PICK u : u = sessions[k] /\ u = sessions'[k]
      BY <3>1
    <3>3. SessionFits(k, u)
      BY <3>1, <3>2 DEF IInv, SessionsFit
    <3>4. SessionFits(k, u)'
      <4>1. Exact(u.held) \/ NumberRepeated(k)'
        BY <1>2, <3>3, RepeatedStays DEF SessionFits
      <4> QED
        BY <1>1, <3>3, <4>1 DEF SessionFits, OwnerOf, KeyOf, Senders, Timely
    <3> QED
      BY <3>2, <3>4
  <2>2. CASE k = p.key
    <3>1. sessions'[k] = t
      BY <1>1, <1>9, <2>2
    <3>2. SessionIs(t) /\ Accounted(s, p, t, list)
      BY <1>1 DEF IsPushed
    <3>3. OwnerOf(k) \in Senders /\ k = KeyOf(OwnerOf(k))
      BY <1>1, <2>2 DEF SessionFits
    <3>4. \A q \in HeldPackets(t) : q \in arrived' /\ q.key = k
      BY <1>1, <1>7, <2>2, <3>2 DEF Accounted
    <3>5. Timely(t.held)
      <4>1. /\ s.held \in Rings /\ t.held \in Rings
            /\ s.held.oldest \in Nat /\ t.held.oldest \in Nat /\ now \in Nat
        BY <1>1, <3>2 DEF SessionFits, SessionIs, Rings, IInv, Typed
      <4>2. MAX_WAIT \in Nat /\ Lateness \in Nat
        BY ReorderAssumption
      <4>3. s.held.count # 0 => now <= s.held.oldest + MAX_WAIT + Lateness
        BY <1>1 DEF SessionFits, Timely
      <4>4. t.held.count # 0 => t.held.oldest >= now
                                \/ (s.held.count # 0 /\ t.held.oldest >= s.held.oldest)
        BY <3>2 DEF Accounted
      <4> QED
        BY <4>1, <4>2, <4>3, <4>4 DEF Timely
    <3>6. Exact(t.held) \/ NumberRepeated(k)'
      <4>1. Exact(s.held) \/ NumberRepeated(k)
        BY <1>1, <2>2 DEF SessionFits
      <4>2. CASE NumberRepeated(k)
        BY <1>2, <4>2, RepeatedStays
      <4>3. CASE Exact(s.held)
        BY <1>8, <2>2, <3>2, <4>3 DEF Accounted
      <4> QED
        BY <4>1, <4>2, <4>3
    <3>7. ASSUME numbering[OwnerOf(k)] = 0
          PROVE  t.next <= next[OwnerOf(k)][bucket]
      <4>1. PICK o \in Senders : o = OwnerOf(k)
        BY <3>3
      <4>2. PICK top \in Nat : top = next[o][bucket]
        BY Constants DEF Senders, Sender, IInv, Typed, CountersTyped
      <4>3. ASSUME NEW q, Origin(q), q.key = k
            PROVE  q.counter + 1 <= top
        <5>1. q.sender = o
          BY <4>1, <4>3, KeysAre DEF Origin, IInv, Typed, CountersTyped
        <5>2. q.counter \in Nat /\ q.epoch \in Nat /\ q.n = q.counter
          BY <4>3 DEF Origin, Incomings
        <5>3. q.n < top
          BY <3>7, <4>1, <4>2, <4>3, <5>1, <5>2 DEF Origin, Numbered
        <5> QED
          BY <5>2, <5>3
      <4>4. s.next <= top
        BY <1>1, <2>2, <3>7, <4>1, <4>2 DEF SessionFits
      <4>5. ASSUME Follows(s.held, t.next)
            PROVE  t.next <= top
        <5>1. PICK i \in DOMAIN s.held.slots : t.next = CounterAt(s.held, i) + 1
          BY <4>5 DEF Follows
        <5>2. PICK q \in HeldPackets(s) : q = s.held.slots[i].packet
          BY DEF HeldPackets
        <5>3. t.next = q.counter + 1
          BY <5>1, <5>2 DEF CounterAt
        <5> QED
          BY <1>7, <2>2, <4>3, <5>3
      <4>6. p.counter + 1 <= top
        BY <1>1, <2>2, <4>3
      <4> QED
        BY <3>2, <4>1, <4>2, <4>4, <4>5, <4>6 DEF Accounted
    <3>8. SessionFits(k, t)'
      BY <1>1, <3>2, <3>3, <3>4, <3>5, <3>6, <3>7
         DEF SessionFits, OwnerOf, KeyOf, Senders, Timely
    <3> QED
      BY <3>1, <3>8
  <2> QED
    BY <2>1, <2>2
<1>10. NothingLost'
  <2>1. /\ pruned' = pruned \cup UNION {HeldPackets(sessions[k]) : k \in evicted}
        /\ delivered' = delivered \cup ToSet(list)
        /\ s = SessionOf(p) /\ Accounted(s, p, t, list)
    BY DEF ArrivesAs, IsPushed
  <2>2. p.key \in DOMAIN sessions' /\ sessions'[p.key] = t
    BY <1>1
  <2>3. HeldPackets(t) \subseteq Held'
    <3>1. HeldPackets(sessions'[p.key]) \subseteq Held'
      BY <2>2 DEF Held, HeldPackets
    <3> QED
      BY <2>2, <3>1
  <2>4. ASSUME NEW q \in arrived', q \notin delivered', q \notin Held', q \notin pruned'
        PROVE  NumberRepeated(q.key)'
    <3>1. CASE q = p
      BY <1>1, <1>7, <2>1, <2>3, <2>4, <3>1 DEF Accounted
    <3>2. CASE q \in arrived /\ q \notin Held
      <4>1. NumberRepeated(q.key)
        BY <2>1, <2>4, <3>2 DEF IInv, NothingLost
      <4> QED
        BY <1>2, <4>1, RepeatedStays
    <3>3. CASE q \in Held
      <4>1. PICK k \in DOMAIN sessions : q \in HeldPackets(sessions[k])
        BY <3>3 DEF Held
      <4>2. CASE k \in evicted
        BY <2>1, <2>4, <4>1, <4>2
      <4>3. CASE k = p.key
        <5>1. s = sessions[k]
          BY <2>1, <4>3 DEF SessionOf
        <5>2. q \in HeldPackets(s) /\ q.counter = p.counter
          BY <2>1, <2>3, <2>4, <4>1, <5>1 DEF Accounted
        <5>3. q.key = p.key
          BY <1>7, <5>2
        <5> QED
          BY <1>8, <5>2, <5>3
      <4>4. CASE k \notin evicted /\ k # p.key
        <5>1. k \in DOMAIN sessions' /\ sessions'[k] = sessions[k]
          BY <1>1, <4>4
        <5>2. HeldPackets(sessions'[k]) \subseteq Held'
          BY <5>1 DEF Held, HeldPackets
        <5> QED
          BY <2>4, <4>1, <5>1, <5>2
      <4> QED
        BY <4>2, <4>3, <4>4
    <3> QED
      BY <1>1, <2>4, <3>1, <3>2, <3>3
  <2> QED
    BY <2>4 DEF NothingLost
<1>11. SessionsFit' /\ FlightFit'
  BY <1>6, <1>9 DEF SessionsFit, FlightFit
<1> QED
  BY <1>3, <1>5, <1>10, <1>11 DEF IInv

(* What the timer does to each session.                                    *)
ExpiresAs(k, t, list) ==
    /\ SessionIs(t) /\ list \in Seq(Incomings) /\ sessions'[k] = t /\ out'[k] = list
    /\ ToSet(list) \subseteq delivered'
    /\ Left(sessions[k].held, t.held, list)
    /\ t.next = sessions[k].next \/ Follows(sessions[k].held, t.next)
    /\ ~Due(sessions[k]) => list = <<>>
    /\ Due(sessions[k]) /\ Exact(sessions[k].held) =>
          \E i \in DOMAIN sessions[k].held.slots :
             /\ sessions[k].held.slots[i].packet \in ToSet(list)
             /\ now - sessions[k].held.slots[i].arrived >= wait

LEMMA ExpiresIs ==
    ASSUME IInv, Expire
    PROVE  /\ DOMAIN sessions' = DOMAIN sessions /\ delivered \subseteq delivered'
           /\ \A k \in DOMAIN sessions : \E t, list : ExpiresAs(k, t, list)
           /\ \A k \in Key \ DOMAIN sessions : out'[k] = <<>>
<1>1. PICK done : done = [k \in DOMAIN sessions |-> ExpireSession(sessions[k])]
  OBVIOUS
<1>2. /\ sessions' = [k \in DOMAIN sessions |-> done[k].session]
      /\ out' = [k \in Key |-> IF k \in DOMAIN sessions THEN done[k].out ELSE <<>>]
      /\ delivered' = delivered \cup UNION {ToSet(done[k].out) : k \in DOMAIN sessions}
  BY <1>1 DEF Expire
<1>3. ASSUME NEW k \in DOMAIN sessions
      PROVE  \E t, list : ExpiresAs(k, t, list)
  <2>1. PICK s : s = sessions[k]
    OBVIOUS
  <2>2. SessionIs(s) /\ now \in Nat /\ wait \in Nat /\ k \in Key
    BY <2>1 DEF IInv, Typed, SessionsFit, SessionFits
  <2>3. PICK t, list :
              /\ list \in Seq(Incomings)
              /\ ExpireSession(s) = [session |-> t, out |-> list] /\ SessionIs(t)
              /\ Left(s.held, t.held, list)
              /\ t.next = s.next \/ Follows(s.held, t.next)
              /\ ~Due(s) => list = <<>>
              /\ Due(s) /\ Exact(s.held) =>
                    \E i \in DOMAIN s.held.slots :
                       s.held.slots[i].packet \in ToSet(list) /\ now - s.held.slots[i].arrived >= wait
    BY <2>2, ExpireIs
  <2>4. done[k].session = t /\ done[k].out = list
    BY <1>1, <2>1, <2>3
  <2>5. ToSet(list) \subseteq delivered'
    BY <1>2, <2>4
  <2> QED
    BY <1>2, <2>1, <2>2, <2>3, <2>4, <2>5 DEF ExpiresAs
<1> QED
  BY <1>2, <1>3

LEMMA ExpireKeeps ==
    ASSUME IInv, Expire, UNCHANGED flowVars
    PROVE  IInv'
<1>1. /\ UNCHANGED <<way, next, numbering, flight, now, wait, arrived, pruned>>
      /\ DOMAIN sessions' = DOMAIN sessions /\ delivered \subseteq delivered'
      /\ \A k \in DOMAIN sessions : \E t, list : ExpiresAs(k, t, list)
  BY ExpiresIs DEF Expire, flowVars
<1>2. Typed' /\ ArrivedFit' /\ FlightFit'
  BY <1>1 DEF IInv, Typed, CountersTyped, ArrivedFit, FlightFit, Origin, FlightFits, Numbered,
              KeyOf, Senders
<1>3. ASSUME NEW k \in DOMAIN sessions
      PROVE  /\ SessionFits(k, sessions[k])'
             /\ HeldPackets(sessions[k]) \subseteq HeldPackets(sessions'[k]) \cup delivered'
  <2>1. PICK s, t, list : s = sessions[k] /\ ExpiresAs(k, t, list)
    BY <1>1
  <2>2. /\ SessionIs(t) /\ sessions'[k] = t /\ Left(s.held, t.held, list)
        /\ t.next = s.next \/ Follows(s.held, t.next)
        /\ ToSet(list) \subseteq delivered'
    BY <2>1 DEF ExpiresAs
  <2>3. SessionFits(k, s)
    BY <2>1 DEF IInv, SessionsFit
  <2>4. /\ HeldPackets(t) \subseteq HeldPackets(s)
        /\ HeldPackets(s) \subseteq HeldPackets(t) \cup ToSet(list)
    BY <2>2 DEF Left, HeldPackets
  <2>5. Timely(t.held)
    <3>1. /\ s.held.oldest \in Nat /\ t.held.oldest \in Nat /\ now \in Nat
          /\ MAX_WAIT \in Nat /\ Lateness \in Nat
      BY <2>2, <2>3, ReorderAssumption DEF SessionFits, SessionIs, Rings, IInv, Typed
    <3> QED
      BY <2>2, <2>3, <3>1 DEF Left, SessionFits, Timely
  <2>6. Exact(t.held) \/ NumberRepeated(k)
    BY <2>2, <2>3 DEF SessionFits, Left
  <2>7. ASSUME numbering[OwnerOf(k)] = 0
        PROVE  t.next <= next[OwnerOf(k)][bucket]
    <3>1. PICK o \in Senders : o = OwnerOf(k)
      BY <2>3 DEF SessionFits
    <3>2. PICK top \in Nat : top = next[o][bucket]
      BY Constants DEF Senders, Sender, IInv, Typed, CountersTyped
    <3>3. s.next <= top
      BY <2>3, <2>7, <3>1, <3>2 DEF SessionFits
    <3>4. ASSUME Follows(s.held, t.next)
          PROVE  t.next <= top
      <4>1. PICK i \in DOMAIN s.held.slots : t.next = CounterAt(s.held, i) + 1
        BY <3>4 DEF Follows
      <4>2. PICK q \in HeldPackets(s) : q = s.held.slots[i].packet
        BY DEF HeldPackets
      <4>3. Origin(q) /\ q.key = k
        BY <2>3 DEF SessionFits, IInv, ArrivedFit
      <4>4. q.sender = o
        BY <3>1, <4>3, KeysAre DEF Origin, IInv, Typed, CountersTyped
      <4>5. q.counter \in Nat /\ q.epoch \in Nat /\ q.n = q.counter
        BY <4>3 DEF Origin, Incomings
      <4>6. q.n < top
        BY <2>7, <3>1, <3>2, <4>3, <4>4, <4>5 DEF Origin, Numbered
      <4>7. t.next = q.counter + 1
        BY <4>1, <4>2 DEF CounterAt
      <4> QED
        BY <4>5, <4>6, <4>7
    <3> QED
      BY <2>2, <3>1, <3>2, <3>3, <3>4
  <2>8. SessionFits(k, t)'
    <3>1. \A q \in HeldPackets(t) : q \in arrived /\ q.key = k
      BY <2>3, <2>4 DEF SessionFits
    <3>2. (Exact(t.held) \/ NumberRepeated(k))'
      BY <1>1, <2>6 DEF NumberRepeated
    <3> QED
      BY <1>1, <2>2, <2>3, <2>5, <2>7, <3>1, <3>2
         DEF SessionFits, OwnerOf, KeyOf, Senders, Timely
  <2> QED
    BY <2>1, <2>2, <2>4, <2>8
<1>4. SessionsFit'
  BY <1>1, <1>3 DEF SessionsFit
<1>5. NothingLost'
  <2>1. Held \subseteq Held' \cup delivered'
    <3>1. ASSUME NEW q \in Held
          PROVE  q \in Held' \cup delivered'
      <4>1. PICK k \in DOMAIN sessions : q \in HeldPackets(sessions[k])
        BY DEF Held
      <4>2. k \in DOMAIN sessions' /\ q \in HeldPackets(sessions'[k]) \cup delivered'
        BY <1>1, <1>3, <4>1
      <4>3. HeldPackets(sessions'[k]) \subseteq Held'
        BY <4>2 DEF Held, HeldPackets
      <4> QED
        BY <4>2, <4>3
    <3> QED
      BY <3>1
  <2>2. \A k : NumberRepeated(k) => NumberRepeated(k)'
    BY <1>1 DEF NumberRepeated
  <2> QED
    BY <1>1, <2>1, <2>2 DEF IInv, NothingLost
<1> QED
  BY <1>2, <1>4, <1>5 DEF IInv

LEMMA TickKeeps ==
    ASSUME IInv, Tick, UNCHANGED flowVars
    PROVE  IInv'
<1>1. /\ UNCHANGED <<way, next, numbering, flight, sessions, wait, arrived, delivered, pruned>>
      /\ now' = now + 1
  BY DEF Tick, flowVars
<1>2. Typed' /\ ArrivedFit' /\ FlightFit'
  BY <1>1 DEF IInv, Typed, CountersTyped, ArrivedFit, FlightFit, Origin, FlightFits, Numbered,
              KeyOf, Senders
<1>3. ASSUME NEW k \in DOMAIN sessions
      PROVE  SessionFits(k, sessions[k])'
  <2>1. PICK s : s = sessions[k]
    OBVIOUS
  <2>2. SessionFits(k, s)
    BY <2>1 DEF IInv, SessionsFit
  <2>3. Timely(s.held)'
    <3>1. s.held.count > 0 => now < s.held.oldest + wait + Lateness
      BY <2>1 DEF Tick
    <3>2. /\ s.held.oldest \in Nat /\ s.held.count \in Nat /\ now \in Nat /\ wait \in Nat
          /\ wait <= MAX_WAIT /\ MAX_WAIT \in Nat /\ Lateness \in Nat
      BY <2>2, ReorderAssumption DEF SessionFits, SessionIs, Rings, IInv, Typed
    <3> QED
      BY <1>1, <3>1, <3>2 DEF Timely
  <2>4. NumberRepeated(k)' <=> NumberRepeated(k)
    BY <1>1 DEF NumberRepeated
  <2>5. SessionFits(k, s)'
    BY <1>1, <2>2, <2>3, <2>4 DEF SessionFits, OwnerOf, KeyOf, Senders
  <2> QED
    BY <1>1, <2>1, <2>5
<1>4. SessionsFit'
  BY <1>1, <1>3 DEF SessionsFit
<1>5. NothingLost'
  <2>1. \A k : NumberRepeated(k)' <=> NumberRepeated(k)
    BY <1>1 DEF NumberRepeated
  <2>2. Held' = Held
    BY <1>1 DEF Held, HeldPackets
  <2> QED
    BY <1>1, <2>1, <2>2 DEF IInv, NothingLost
<1> QED
  BY <1>2, <1>4, <1>5 DEF IInv

(* A sender's counters move on, or begin anew under another numbering; the *)
(* receiver does not notice.                                               *)
LEMMA SendersKeep ==
    ASSUME IInv, UNCHANGED <<vars, way>>, CountersTyped', FlightFit',
           \A s \in Sender : \A epoch, n \in Nat : Numbered(s, epoch, n) => Numbered(s, epoch, n)',
           \A s \in Sender : numbering'[s] = 0 =>
              numbering[s] = 0 /\ next[s][bucket] <= next'[s][bucket]
    PROVE  IInv'
<1>1. UNCHANGED <<now, sessions, wait, arrived, delivered, pruned, way>>
  BY DEF vars
<1>2. Typed'
  BY <1>1 DEF IInv, Typed
<1>3. ArrivedFit'
  <2>1. ASSUME NEW p \in arrived
        PROVE  Origin(p)'
    <3>1. Origin(p) /\ p.sender \in Sender /\ p.epoch \in Nat /\ p.n \in Nat
      BY DEF IInv, ArrivedFit, Origin, Incomings
    <3>2. Numbered(p.sender, p.epoch, p.n)'
      BY <3>1 DEF Origin
    <3> QED
      BY <1>1, <3>1, <3>2 DEF Origin, KeyOf, Senders
  <2> QED
    BY <1>1, <2>1 DEF ArrivedFit
<1>4. ASSUME NEW k \in DOMAIN sessions
      PROVE  SessionFits(k, sessions[k])'
  <2>1. PICK s : s = sessions[k]
    OBVIOUS
  <2>2. SessionFits(k, s)
    BY <2>1 DEF IInv, SessionsFit
  <2>3. PICK o \in Senders : o = OwnerOf(k)
    BY <2>2 DEF SessionFits
  <2>4. o \in Sender
    BY DEF Senders, Sender
  <2>5. numbering'[o] = 0 => s.next <= next'[o][bucket]
    <3>1. next[o][bucket] \in Nat /\ next'[o][bucket] \in Nat /\ s.next \in Nat
      BY <2>2, <2>4, Constants DEF CountersTyped, IInv, Typed, SessionFits, SessionIs
    <3>2. numbering'[o] = 0 => numbering[o] = 0 /\ next[o][bucket] <= next'[o][bucket]
      BY <2>4
    <3>3. numbering[o] = 0 => s.next <= next[o][bucket]
      BY <2>2, <2>3 DEF SessionFits
    <3> QED
      BY <3>1, <3>2, <3>3
  <2>6. NumberRepeated(k)' <=> NumberRepeated(k)
    BY <1>1 DEF NumberRepeated
  <2>7. SessionFits(k, s)'
    BY <1>1, <2>2, <2>3, <2>5, <2>6 DEF SessionFits, OwnerOf, KeyOf, Senders, Timely
  <2> QED
    BY <1>1, <2>1, <2>7
<1>5. SessionsFit'
  BY <1>1, <1>4 DEF SessionsFit
<1>6. NothingLost'
  <2>1. \A k : NumberRepeated(k)' <=> NumberRepeated(k)
    BY <1>1 DEF NumberRepeated
  <2>2. Held' = Held
    BY <1>1 DEF Held, HeldPackets
  <2> QED
    BY <1>1, <2>1, <2>2 DEF IInv, NothingLost
<1> QED
  BY <1>2, <1>3, <1>5, <1>6 DEF IInv

LEMMA ReadTunKeeps ==
    ASSUME IInv, NEW s \in Sender, NEW packet \in TunPacket, ReadTun(s, packet)
    PROVE  IInv'
<1>1. /\ s \in Senders /\ packet.flow = bucket /\ UNCHANGED <<vars, way, numbering>>
      /\ Route(next[s], packet).kind = "ordered"
      /\ next' = [next EXCEPT ![s] = Advanced(next[s], packet)]
      /\ flight' = flight \cup {[sender |-> s, numbering |-> numbering[s], n |-> next[s][bucket],
             message |-> SentRouted(TargetClient(s), Route(next[s], packet), 0)]}
  BY DEF ReadTun
<1>2. PICK n \in Nat, e \in Nat : n = next[s][bucket] /\ e = numbering[s]
  BY Constants DEF IInv, Typed, CountersTyped
<1>3. PICK x : x = [sender |-> s, numbering |-> e, n |-> n, message |-> MessageOf(s, n)]
  OBVIOUS
<1>4. /\ flight' = flight \cup {x}
      /\ next' = [next EXCEPT ![s] = [next[s] EXCEPT ![bucket] = n + 1]]
  BY <1>1, <1>2, <1>3, SentIs DEF IInv, Typed
<1>5. CountersTyped' /\ next'[s][bucket] = n + 1
  BY <1>1, <1>4, Constants DEF IInv, Typed, CountersTyped, vars
<1>6. \A r \in Sender \ {s} : next'[r] = next[r]
  BY <1>4 DEF IInv, Typed, CountersTyped
<1>7. ASSUME NEW r \in Sender, NEW epoch \in Nat, NEW m \in Nat, Numbered(r, epoch, m)
      PROVE  Numbered(r, epoch, m)'
  <2>1. CASE r = s
    BY <1>1, <1>2, <1>5, <1>7, <2>1 DEF Numbered, vars
  <2>2. CASE r # s
    BY <1>1, <1>6, <1>7, <2>2 DEF Numbered, vars
  <2> QED
    BY <2>1, <2>2
<1>8. ASSUME NEW y \in flight
      PROVE  FlightFits(y)'
  <2>1. FlightFits(y) /\ y.sender \in Sender
    BY DEF IInv, FlightFit, FlightFits, Senders, Sender
  <2>2. Numbered(y.sender, y.numbering, y.n)'
    BY <1>7, <2>1 DEF FlightFits
  <2> QED
    BY <1>1, <2>1, <2>2 DEF FlightFits, KeyOf, Senders, vars
<1>9. FlightFits(x)'
  <2>1. x.sender = s /\ x.numbering = e /\ x.n = n /\ x.message = MessageOf(s, n)
    BY <1>3
  <2>2. Numbered(s, e, n)'
    BY <1>1, <1>2, <1>5 DEF Numbered
  <2>3. Packet(x, KeyOf(s), n) \notin arrived
    <3> SUFFICES ASSUME Packet(x, KeyOf(s), n) \in arrived
                 PROVE  FALSE
      OBVIOUS
    <3>1. PICK p : p = Packet(x, KeyOf(s), n)
      OBVIOUS
    <3>2. p.sender = s /\ p.epoch = e /\ p.n = n
      BY <2>1, <3>1 DEF Packet
    <3>3. Numbered(s, e, n)
      BY <3>1, <3>2 DEF IInv, ArrivedFit, Origin
    <3> QED
      BY <1>2, <3>3 DEF Numbered
  <2> QED
    BY <1>1, <1>3, <2>1, <2>2, <2>3 DEF FlightFits, KeyOf, Senders, vars
<1>10. FlightFit'
  BY <1>4, <1>8, <1>9 DEF FlightFit
<1>11. ASSUME NEW r \in Sender
       PROVE  numbering'[r] = 0 => numbering[r] = 0 /\ next[r][bucket] <= next'[r][bucket]
  <2>1. next[r][bucket] \in Nat
    BY Constants DEF IInv, Typed, CountersTyped
  <2>2. CASE r = s
    BY <1>1, <1>2, <1>5, <2>2
  <2>3. CASE r # s
    BY <1>1, <1>6, <2>1, <2>3
  <2> QED
    BY <2>2, <2>3
<1> QED
  BY <1>1, <1>5, <1>7, <1>10, <1>11, SendersKeep

LEMMA RenumberKeeps ==
    ASSUME IInv, NEW s \in Sender, Renumber(s)
    PROVE  IInv'
<1>1. /\ UNCHANGED <<vars, way, flight>>
      /\ next' = [next EXCEPT ![s] = [b \in Bucket |-> 0]]
      /\ numbering' = [numbering EXCEPT ![s] = @ + 1]
  BY DEF Renumber
<1>2. CountersTyped'
  BY <1>1 DEF IInv, Typed, CountersTyped
<1>3. /\ numbering'[s] = numbering[s] + 1 /\ numbering[s] \in Nat
      /\ \A r \in Sender \ {s} : numbering'[r] = numbering[r] /\ next'[r] = next[r]
  BY <1>1 DEF IInv, Typed, CountersTyped
<1>4. ASSUME NEW r \in Sender, NEW epoch \in Nat, NEW m \in Nat, Numbered(r, epoch, m)
      PROVE  Numbered(r, epoch, m)'
  <2>1. CASE r = s
    BY <1>3, <1>4, <2>1 DEF Numbered
  <2>2. CASE r # s
    BY <1>3, <1>4, <2>2 DEF Numbered
  <2> QED
    BY <2>1, <2>2
<1>5. ASSUME NEW y \in flight
      PROVE  FlightFits(y)'
  <2>1. FlightFits(y) /\ y.sender \in Sender
    BY DEF IInv, FlightFit, FlightFits, Senders, Sender
  <2>2. Numbered(y.sender, y.numbering, y.n)'
    BY <1>4, <2>1 DEF FlightFits
  <2> QED
    BY <1>1, <2>1, <2>2 DEF FlightFits, KeyOf, Senders, vars
<1>6. FlightFit'
  BY <1>1, <1>5 DEF FlightFit
<1>7. ASSUME NEW r \in Sender
      PROVE  numbering'[r] = 0 => numbering[r] = 0 /\ next[r][bucket] <= next'[r][bucket]
  <2>1. next[r][bucket] \in Nat
    BY Constants DEF IInv, Typed, CountersTyped
  <2>2. CASE r = s
    BY <1>3, <2>2
  <2>3. CASE r # s
    BY <1>3, <2>1, <2>3
  <2> QED
    BY <2>2, <2>3
<1> QED
  BY <1>1, <1>2, <1>4, <1>6, <1>7, SendersKeep

LEMMA InitFits ==
    ASSUME FlowsInit
    PROVE  IInv
<1>1. DOMAIN sessions = {} /\ arrived = {} /\ flight = {}
  BY DEF FlowsInit, Init
<1>2. Typed
  BY <1>1, ReorderAssumption DEF FlowsInit, Init, Typed, CountersTyped
<1> QED
  BY <1>1, <1>2 DEF IInv, SessionsFit, ArrivedFit, FlightFit, NothingLost

LEMMA StepKeeps ==
    ASSUME IInv, [FlowsNext]_allVars
    PROVE  IInv'
<1>1. CASE UNCHANGED allVars
  <2>1. /\ UNCHANGED <<now, sessions, wait, arrived, delivered, pruned>>
        /\ UNCHANGED <<way, next, numbering, flight>>
    BY <1>1 DEF allVars, vars, flowVars
  <2>2. Typed' /\ ArrivedFit' /\ FlightFit'
    BY <2>1 DEF IInv, Typed, CountersTyped, ArrivedFit, FlightFit, Origin, FlightFits, Numbered,
                KeyOf, Senders
  <2>3. \A k : NumberRepeated(k)' <=> NumberRepeated(k)
    BY <2>1 DEF NumberRepeated
  <2>4. SessionsFit'
    BY <2>1, <2>3 DEF IInv, SessionsFit, SessionFits, OwnerOf, KeyOf, Senders, Timely, SessionIs,
                      HeldPackets
  <2>5. Held' = Held
    BY <2>1 DEF Held, HeldPackets
  <2> QED
    BY <2>1, <2>2, <2>3, <2>4, <2>5 DEF IInv, NothingLost
<1>2. ASSUME NEW s \in Sender, Renumber(s)
      PROVE  IInv'
  BY <1>2, RenumberKeeps
<1>3. ASSUME NEW s \in Sender, NEW packet \in TunPacket, ReadTun(s, packet)
      PROVE  IInv'
  BY <1>3, ReadTunKeeps
<1>4. ASSUME NEW x \in flight, Come(x)
      PROVE  IInv'
  BY <1>4, ComeIs, ArriveKeeps
<1>5. CASE Expire /\ UNCHANGED flowVars
  BY <1>5, ExpireKeeps
<1>6. CASE Tick /\ UNCHANGED flowVars
  BY <1>6, TickKeeps
<1> QED
  BY <1>1, <1>2, <1>3, <1>4, <1>5, <1>6 DEF FlowsNext

LEMMA Invariant == FlowsSpec => []IInv
<1>1. FlowsInit => IInv
  BY InitFits
<1>2. IInv /\ [FlowsNext]_allVars => IInv'
  BY StepKeeps
<1> QED
  BY <1>1, <1>2, PTL DEF FlowsSpec

-----------------------------------------------------------------------------
(* Theorems.                                                               *)

(* What the resequencer accepted it hands over or holds, and never longer  *)
(* than the longest wait, unless the session was evicted or a number came  *)
(* twice (reorder.rs, push_into, expire_into, HeldRing).                   *)
THEOREM NothingIsForgottenHolds == FlowsSpec => []NothingIsForgotten
<1>1. ASSUME IInv
      PROVE  NothingIsForgotten
  <2>1. ASSUME NEW k \in DOMAIN sessions, NEW i \in DOMAIN sessions[k].held.slots
        PROVE  now <= sessions[k].held.slots[i].arrived + MAX_WAIT + Lateness
    <3>1. PICK s : s = sessions[k]
      OBVIOUS
    <3>2. SessionIs(s) /\ Timely(s.held)
      BY <1>1, <3>1 DEF IInv, SessionsFit, SessionFits
    <3>3. s.held \in Rings /\ RingFits(s.held, s.next + 1) /\ s.next + 1 \in Nat
      BY <3>2 DEF SessionIs
    <3>4. s.held.count # 0 /\ i \in DOMAIN s.held.slots /\ s.held.slots[i] \in HeldEntry
      BY <3>1, <3>3, RingIs
    <3>5. s.held.oldest <= s.held.slots[i].arrived
      BY <3>3, <3>4 DEF RingFits
    <3>6. /\ now \in Nat /\ s.held.oldest \in Nat /\ s.held.slots[i].arrived \in Nat
          /\ MAX_WAIT \in Nat /\ Lateness \in Nat
      BY <1>1, <3>3, <3>4, ReorderAssumption DEF IInv, Typed, Rings, HeldEntry
    <3> QED
      BY <3>1, <3>2, <3>4, <3>5, <3>6 DEF Timely
  <2> QED
    BY <1>1, <2>1 DEF NothingIsForgotten, IInv, NothingLost
<1> QED
  BY <1>1, Invariant, PTL

(* A session holds and expects numbers of one sender only, whatever else   *)
(* comes over the same holes (DataPath, reorder.rs, push_into).            *)
THEOREM SessionsAreOwnHolds == FlowsSpec => []SessionsAreOwn
<1>1. ASSUME IInv
      PROVE  SessionsAreOwn
  <2>1. ASSUME NEW k \in DOMAIN sessions
        PROVE  /\ \A p \in HeldPackets(sessions[k]) : p.sender = OwnerOf(k)
               /\ numbering[OwnerOf(k)] = 0 => sessions[k].next <= next[OwnerOf(k)][k.flow]
    <3>1. SessionFits(k, sessions[k]) /\ way \in {"up", "down"}
      BY <1>1 DEF IInv, SessionsFit, Typed, CountersTyped
    <3>2. k.flow = bucket
      BY <3>1, KeysAre DEF SessionFits
    <3>3. \A p \in HeldPackets(sessions[k]) : Origin(p) /\ p.key = k
      BY <1>1, <3>1 DEF SessionFits, IInv, ArrivedFit
    <3>4. \A p \in HeldPackets(sessions[k]) : p.sender = OwnerOf(k)
      BY <3>1, <3>3, KeysAre DEF Origin
    <3> QED
      BY <3>1, <3>2, <3>4 DEF SessionFits
  <2> QED
    BY <2>1 DEF SessionsAreOwn
<1> QED
  BY <1>1, Invariant, PTL

(* The timer hands over only behind a packet that has waited its time      *)
(* (reorder.rs, expire_into; multilink.rs, control_loop).                  *)
THEOREM GapsAreWaitedForHolds == FlowsSpec => GapsAreWaitedFor
<1>1. ASSUME IInv, FlowsNext, ~(UNCHANGED vars), arrived' = arrived, NEW k \in DOMAIN sessions
      PROVE  \/ out'[k] = <<>>
             \/ \E i \in DOMAIN sessions[k].held.slots :
                   LET h == sessions[k].held.slots[i]
                   IN  h.packet \in ToSet(out'[k]) /\ now - h.arrived >= wait
             \/ NumberRepeated(k)
  <2>0. k \in Key
    BY <1>1 DEF IInv, Typed
  <2>1. CASE \E s \in Sender : Renumber(s) \/ \E packet \in TunPacket : ReadTun(s, packet)
    BY <1>1, <2>1 DEF Renumber, ReadTun
  <2>2. CASE \E x \in flight : Come(x)
    <3>1. PICK x \in flight : Come(x)
      BY <2>2
    <3>2. PICK p, s, t, list, evicted : ArrivesAs(p, s, t, list, evicted)
      BY <1>1, <3>1, ComeIs
    <3> QED
      BY <1>1, <3>2 DEF ArrivesAs
  <2>3. CASE Tick
    BY <2>0, <2>3 DEF Tick, Silent
  <2>4. CASE Expire
    <3>1. PICK t, list : ExpiresAs(k, t, list)
      BY <1>1, <2>4, ExpiresIs
    <3>2. out'[k] = list
      BY <3>1 DEF ExpiresAs
    <3>3. Exact(sessions[k].held) \/ NumberRepeated(k)
      BY <1>1 DEF IInv, SessionsFit, SessionFits
    <3>4. CASE ~Due(sessions[k])
      BY <3>1, <3>2, <3>4 DEF ExpiresAs
    <3>5. CASE Due(sessions[k]) /\ Exact(sessions[k].held)
      BY <3>1, <3>2, <3>5 DEF ExpiresAs
    <3> QED
      BY <3>3, <3>4, <3>5
  <2> QED
    BY <1>1, <2>1, <2>2, <2>3, <2>4 DEF FlowsNext
<1>2. IInv /\ [FlowsNext]_allVars =>
        [(sinceRecalc' = sinceRecalc /\ arrived' = arrived) =>
          \A k \in DOMAIN sessions :
              \/ out'[k] = <<>>
              \/ \E i \in DOMAIN sessions[k].held.slots :
                    LET h == sessions[k].held.slots[i]
                    IN  h.packet \in ToSet(out'[k]) /\ now - h.arrived >= wait
              \/ NumberRepeated(k)]_vars
  BY <1>1 DEF allVars
<1> QED
  BY <1>2, Invariant, PTL DEF FlowsSpec, GapsAreWaitedFor

(* q stays behind the i-th packet handed over: it goes later, is held or   *)
(* is still on its way.                                                    *)
Overtaken(p, t, list, i, q) ==
    /\ list[i] \in Incomings /\ Origin(list[i]) /\ list[i].key = p.key
    /\ \/ \E j \in DOMAIN list : i < j /\ q = list[j]
       \/ q \in HeldPackets(t)
       \/ \E y \in flight : q = Packet(y, p.key, y.n) /\ FlightFits(y) /\ y \in flight'

LEMMA LeftBehindIs ==
    ASSUME IInv, NEW x \in flight, NEW p, NEW s, NEW t, NEW list, NEW evicted,
           ArrivesAs(p, s, t, list, evicted), p = Packet(x, KeyOf(x.sender), x.n),
           flight' = flight \ {x}, p.key \in DOMAIN sessions,
           NEW i, i \in DOMAIN list, NEW q, q \in LeftBehind(p.key, i)
    PROVE  Overtaken(p, t, list, i, q)
<1>1. /\ IsPushed(s, p, t, list) /\ SessionFits(p.key, s) /\ Origin(p)
      /\ DOMAIN sessions' = (DOMAIN sessions \ evicted) \cup {p.key}
      /\ \A k \in DOMAIN sessions' : sessions'[k] = IF k = p.key THEN t ELSE sessions[k]
      /\ out' = [Silent EXCEPT ![p.key] = list]
  BY DEF ArrivesAs
<1>2. p.key \in Key /\ list \in Seq(Incomings) /\ Accounted(s, p, t, list)
  BY <1>1 DEF Origin, Incomings, IsPushed
<1>3. out'[p.key] = list
  BY <1>1, <1>2 DEF Silent
<1>4. list[i] \in HeldPackets(s) \cup {p}
  BY <1>2 DEF Accounted, ToSet
<1>5. \A y \in HeldPackets(s) : Origin(y) /\ y.key = p.key
  BY <1>1 DEF SessionFits, IInv, ArrivedFit
<1>6. list[i] \in Incomings /\ Origin(list[i]) /\ list[i].key = p.key
  BY <1>1, <1>4, <1>5 DEF Origin
<1>7. p.key \in DOMAIN sessions' /\ sessions'[p.key] = t
  BY <1>1
<1>8. \/ q \in {list[j] : j \in i + 1 .. Len(list)}
      \/ q \in HeldPackets(t)
      \/ q \in {Packet(y, p.key, y.n) : y \in flight'}
  <2>1. HeldPackets(sessions[p.key])' = HeldPackets(t)
    BY <1>7 DEF HeldPackets
  <2> QED
    BY <1>3, <1>7, <2>1 DEF LeftBehind
<1>9. CASE q \in {list[j] : j \in i + 1 .. Len(list)}
  <2>1. PICK j \in i + 1 .. Len(list) : q = list[j]
    BY <1>9
  <2>2. j \in DOMAIN list /\ i < j
    BY <1>2
  <2> QED
    BY <1>6, <2>1, <2>2 DEF Overtaken
<1>10. CASE q \in {Packet(y, p.key, y.n) : y \in flight'}
  BY <1>6, <1>10 DEF IInv, FlightFit, Overtaken
<1>11. CASE q \in HeldPackets(t)
  BY <1>6, <1>11 DEF Overtaken
<1> QED
  BY <1>8, <1>9, <1>10, <1>11

(* What an arrival hands over overtakes a packet of its sender only where  *)
(* that one was given up, is more than a window behind, or came under      *)
(* another numbering with its number (reorder.rs, push_into).              *)
THEOREM InReadOrderHolds == FlowsSpec => InReadOrder
<1>1. ASSUME IInv, FlowsNext, arrived' # arrived, NEW k \in Key \cap DOMAIN sessions,
             NEW i \in DOMAIN out'[k], NEW q \in LeftBehind(k, i), ReadBefore(q, out'[k][i])
      PROVE  \/ q.n < sessions[k].next
             \/ /\ q \notin arrived'
                /\ \E y \in arrived' \ arrived :
                      \/ y.counter - sessions[k].next > MAX_GAP
                      \/ NumberingRestarted(sessions[k], y)
             \/ \E y \in arrived' : y.key = k /\ y.counter = q.n /\ y.epoch # q.epoch
  <2>1. PICK x \in flight : Come(x)
    BY <1>1 DEF FlowsNext, Renumber, ReadTun, Expire, Tick, vars
  <2>2. PICK p, s, t, list, evicted :
              /\ p = Packet(x, KeyOf(x.sender), x.n) /\ ArrivesAs(p, s, t, list, evicted)
              /\ flight' = flight \ {x}
    BY <1>1, <2>1, ComeIs
  <2>3. /\ IsPushed(s, p, t, list) /\ SessionFits(p.key, s) /\ Origin(p) /\ p \notin arrived
        /\ arrived' = arrived \cup {p} /\ out' = [Silent EXCEPT ![p.key] = list]
        /\ s = SessionOf(p)
    BY <2>2 DEF ArrivesAs
  <2>4. k = p.key
    <3>1. k # p.key => out'[k] = <<>>
      BY <1>1, <2>3 DEF Silent
    <3> QED
      BY <1>1, <3>1
  <2>5. s = sessions[k] /\ out'[k] = list /\ i \in DOMAIN list
    BY <1>1, <2>3, <2>4 DEF SessionOf, Silent
  <2>6. /\ list[i] \in Incomings /\ Origin(list[i]) /\ list[i].key = p.key
        /\ \/ \E j \in DOMAIN list : i < j /\ q = list[j]
           \/ q \in HeldPackets(t)
           \/ \E y \in flight : /\ q = Packet(y, p.key, y.n) /\ FlightFits(y) /\ y \in flight'
    <3>1. p.key \in DOMAIN sessions /\ q \in LeftBehind(p.key, i) /\ i \in DOMAIN list
      BY <1>1, <2>4, <2>5
    <3> QED
      <4>1. Overtaken(p, t, list, i, q)
        BY <1>1, <2>2, <3>1, LeftBehindIs
      <4> QED
        BY <4>1 DEF Overtaken
  <2>7. /\ q.sender = list[i].sender /\ q.epoch = list[i].epoch /\ q.n < list[i].counter
        /\ GoneInOrder(s, p, t, list) /\ Accounted(s, p, t, list) /\ list \in Seq(Incomings)
    BY <1>1, <2>3, <2>5, <2>6 DEF ReadBefore, Origin, IsPushed
  <2>8. \A y \in HeldPackets(s) \cup {p} : Origin(y) /\ y.key = k /\ y \in arrived'
    BY <2>3, <2>4, <1>1 DEF SessionFits, IInv, ArrivedFit
  <2>9. CASE \E j \in DOMAIN list : i < j /\ q = list[j]
    <3>1. PICK j \in DOMAIN list : i < j /\ q = list[j]
      BY <2>9
    <3>2. q \in HeldPackets(s) \cup {p}
      BY <2>7, <3>1 DEF Accounted, ToSet
    <3>3. q.n = q.counter
      BY <2>8, <3>2 DEF Origin
    <3> QED
      BY <2>5, <2>7, <3>1, <3>3 DEF GoneInOrder
  <2>10. CASE q \in HeldPackets(t)
    <3>1. q \in HeldPackets(s) \cup {p}
      BY <2>7, <2>10 DEF Accounted
    <3>2. q.n = q.counter
      BY <2>8, <3>1 DEF Origin
    <3> QED
      BY <2>5, <2>7, <2>10, <3>2 DEF GoneInOrder
  <2>11. CASE \E y \in flight : /\ q = Packet(y, p.key, y.n) /\ FlightFits(y) /\ y \in flight'
    <3>1. PICK y \in flight : q = Packet(y, p.key, y.n) /\ FlightFits(y) /\ y \in flight'
      BY <2>11
    <3>2. y.sender = list[i].sender /\ q.n = y.n /\ y.n \in Nat /\ y.numbering = q.epoch
      BY <2>7, <3>1 DEF Packet, FlightFits
    <3>3. q = Packet(y, KeyOf(y.sender), y.n)
      BY <2>6, <3>1, <3>2 DEF Origin
    <3>4. q \notin arrived'
      <4>1. IInv'
        BY <1>1, <2>2, ArriveKeeps
      <4>2. FlightFits(y)'
        BY <3>1, <4>1 DEF IInv, FlightFit
      <4>3. Packet(y, KeyOf(y.sender), y.n) \notin arrived'
        BY <4>2 DEF FlightFits, KeyOf, Packet
      <4> QED
        BY <3>3, <4>3
    <3>5. \/ q.n < s.next
          \/ p.counter - s.next > MAX_GAP
          \/ NumberingRestarted(s, p)
          \/ \E z \in HeldPackets(s) \cup {p} : z.counter = q.n
      BY <2>5, <2>7, <3>2 DEF GoneInOrder
    <3>6. p \in arrived' \ arrived
      BY <2>3
    <3>7. ASSUME NEW z \in HeldPackets(s) \cup {p}, z.counter = q.n
          PROVE  z \in arrived' /\ z.key = k /\ z.counter = q.n /\ z.epoch # q.epoch
      <4>1. Origin(z) /\ z.key = k /\ z \in arrived'
        BY <2>8
      <4>2. z.epoch # q.epoch
        <5> SUFFICES ASSUME z.epoch = q.epoch
                     PROVE  FALSE
          OBVIOUS
        <5>1. z.sender = list[i].sender
          BY <1>1, <2>4, <2>6, <4>1, KeysAre DEF Origin, IInv, Typed, CountersTyped
        <5>2. z = [key |-> k, counter |-> q.n, epoch |-> q.epoch, sender |-> y.sender, n |-> q.n]
          BY <3>2, <3>7, <4>1, <5>1 DEF Origin, Incomings
        <5>3. q = [key |-> k, counter |-> q.n, epoch |-> q.epoch, sender |-> y.sender, n |-> q.n]
          BY <2>4, <3>1, <3>2 DEF Packet
        <5> QED
          BY <3>4, <4>1, <5>2, <5>3
      <4> QED
        BY <3>7, <4>1, <4>2
    <3> QED
      BY <2>5, <3>4, <3>5, <3>6, <3>7
  <2> QED
    BY <2>6, <2>9, <2>10, <2>11
<1>2. IInv /\ [FlowsNext]_allVars =>
        [arrived' # arrived =>
          \A k \in Key \cap DOMAIN sessions : \A i \in DOMAIN out'[k] : \A q \in LeftBehind(k, i) :
              ReadBefore(q, out'[k][i]) =>
                  \/ q.n < sessions[k].next
                  \/ /\ q \notin arrived'
                     /\ \E y \in arrived' \ arrived :
                           \/ y.counter - sessions[k].next > MAX_GAP
                           \/ NumberingRestarted(sessions[k], y)
                  \/ \E y \in arrived' : y.key = k /\ y.counter = q.n /\ y.epoch # q.epoch]_allVars
  BY <1>1
<1> QED
  BY <1>2, Invariant, PTL DEF FlowsSpec, InReadOrder
=============================================================================
