------------------------------ MODULE HeldRing ------------------------------
(***************************************************************************)
(* The ring of held packets of one session (reorder.rs, HeldRing): RING    *)
(* slots indexed by the counter modulo RING, with the number of occupied   *)
(* slots, the lowest and highest held counter and the earliest arrival     *)
(* kept beside them.  A slot does not know its counter; lo and hi do.      *)
(***************************************************************************)
EXTENDS Integers, FiniteSets, Functions

CONSTANT RING         \* slots of a ring (512)

ASSUME RingAssumption == RING \in Nat /\ RING > 1

MinOf(S) == CHOOSE x \in S : \A y \in S : x <= y
MaxOf(S) == CHOOSE x \in S : \A y \in S : x >= y

\* slots maps an occupied index to what it holds: [packet, arrived].  lo, hi
\* and oldest mean something only while count > 0.
EmptyRing == [slots |-> <<>>, count |-> 0, lo |-> 0, hi |-> 0, oldest |-> 0]

RingIndex(counter) == counter % RING

Occupied(ring, counter) == RingIndex(counter) \in DOMAIN ring.slots

\* A slot is filled, or filled anew.
Put(slots, i, held) == [j \in DOMAIN slots \cup {i} |-> IF j = i THEN held ELSE slots[j]]

\* Mutant: the wait is counted from the last packet held.
RingInsertRestartsWait(ring, counter, held) ==
    LET count == ring.count + (IF Occupied(ring, counter) THEN 0 ELSE 1)
    IN  [slots |-> Put(ring.slots, RingIndex(counter), held),
         count |-> count,
         lo |-> IF count = 1 THEN counter ELSE MinOf({ring.lo, counter}),
         hi |-> IF count = 1 THEN counter ELSE MaxOf({ring.hi, counter}),
         oldest |-> held.arrived]

\* HeldRing::insert.
RingInsert(ring, counter, held) ==
    LET count == ring.count + (IF Occupied(ring, counter) THEN 0 ELSE 1)
    IN  [slots |-> Put(ring.slots, RingIndex(counter), held),
         count |-> count,
         lo |-> IF count = 1 THEN counter ELSE MinOf({ring.lo, counter}),
         hi |-> IF count = 1 THEN counter ELSE MaxOf({ring.hi, counter}),
         oldest |-> IF ring.count = 0 THEN held.arrived
                                      ELSE MinOf({ring.oldest, held.arrived})]

\* HeldRing::remove finds nothing outside lo .. hi or in an empty slot.
RingHas(ring, counter) ==
    ring.count > 0 /\ counter \in ring.lo .. ring.hi /\ Occupied(ring, counter)

\* Mutant: the earliest arrival is not looked for again.
RingRemoveKeepsOldest(ring, counter) ==
    LET slots == Restrict(ring.slots, DOMAIN ring.slots \ {RingIndex(counter)})
        left == {c \in ring.lo .. ring.hi : RingIndex(c) \in DOMAIN slots}
    IN  IF ring.count = 1
        THEN [ring EXCEPT !.slots = slots, !.count = 0]
        ELSE [ring EXCEPT !.slots = slots, !.count = @ - 1,
                          !.lo = MinOf(left), !.hi = MaxOf(left)]

\* HeldRing::remove of a counter the ring has.
RingRemove(ring, counter) ==
    LET held == ring.slots[RingIndex(counter)]
        slots == Restrict(ring.slots, DOMAIN ring.slots \ {RingIndex(counter)})
        left(from, to) == {c \in from .. to : RingIndex(c) \in DOMAIN slots}
        lo == IF counter = ring.lo THEN MinOf(left(counter + 1, ring.hi)) ELSE ring.lo
        hi == IF counter = ring.hi THEN MaxOf(left(lo, counter - 1)) ELSE ring.hi
        oldest == IF ring.oldest = held.arrived
                  THEN MinOf({slots[RingIndex(c)].arrived : c \in left(lo, hi)})
                  ELSE ring.oldest
    IN  IF ring.count = 1
        THEN [ring EXCEPT !.slots = slots, !.count = 0]
        ELSE [slots |-> slots, count |-> ring.count - 1,
              lo |-> lo, hi |-> hi, oldest |-> oldest]
=============================================================================
