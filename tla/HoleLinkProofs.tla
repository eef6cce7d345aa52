--------------------------- MODULE HoleLinkProofs ---------------------------
(***************************************************************************)
(* Proofs about one hole, for any network, NATs, widths of the window and  *)
(* bounds.  A counter below the top of a window was accepted once, can still *)
(* be accepted, or is lost for good: EachCountedOnce says that those that   *)
(* were accepted and those that can be are no more than all of them.        *)
(* LossIInv says, of what an end has sent and its peer has not yet counted,  *)
(* that it is on its way, and of a report of what was sent, that it has     *)
(* overtaken the rest, unless something was lost or somebody moved.        *)
(* The last part is about P2P mode: what a side answers the records of the   *)
(* other, for any policy, numbers and bounds (SidesIInv).                  *)
(***************************************************************************)
EXTENDS HoleLink, P2P, FiniteSetTheorems, SequenceTheorems, WellFoundedInduction, TLAPS

Phase == {"punching", "open", "failed", "lost"}
Window == [top : Nat, seen : SUBSET (0 .. WINDOW - 1)]
Count == [sent : Nat, received : Nat]

(* The counters the window would still let in, of those below its top.     *)
Awaited(w) == {c \in 0 .. w.top - 1 : w.top - 1 - c \in (0 .. WINDOW - 1) \ w.seen}

Typed ==
    /\ setting \in Settings
    /\ phase \in [End -> Phase]
    /\ next \in [End -> Nat]
    /\ window \in [End -> Window]
    /\ stats \in [End -> Count]
    /\ moves \in [End -> Nat] /\ \A e \in End : moves[e] < Len(Place[e])
    /\ DOMAIN endpoint = End
    /\ \A e \in End : phase[e] \in {"open", "lost"} => endpoint[e] # None

(* What is on its way was sealed, by an end that was somewhere.            *)
Sealed(p) == p.from \in End /\ p.counter \in Nat /\ p.counter < next[p.from] /\ p.src # None

AllSealed ==
    /\ \A p \in net \cup copies : Sealed(p)
    /\ \A e \in End : window[e].top <= next[Other(e)]

EachCountedOnce ==
    \A e \in End : stats[e].received + Cardinality(Awaited(window[e])) <= window[e].top

IInv == Typed /\ AllSealed /\ EachCountedOnce

-----------------------------------------------------------------------------
(* The window.                                                             *)

LEMMA AwaitedIs ==
    ASSUME NEW w \in Window
    PROVE  IsFiniteSet(Awaited(w)) /\ Cardinality(Awaited(w)) \in Nat
<1>1. IsFiniteSet(0 .. w.top - 1)
  BY FS_Interval DEF Window
<1>2. IsFiniteSet(Awaited(w))
  BY <1>1, FS_Subset DEF Awaited
<1> QED
  BY <1>2, FS_CardinalityType

(* A packet that is let in uses up a counter that was awaited or is new, and *)
(* no counter that was accepted or given up is awaited again.              *)
LEMMA AcceptedIs ==
    ASSUME NEW w \in Window, NEW c \in Nat, Fresh(w, c)
    PROVE  /\ Accepted(w, c) \in Window
           /\ Accepted(w, c).top = IF c >= w.top THEN c + 1 ELSE w.top
           /\ Cardinality(Awaited(Accepted(w, c))) + 1 + w.top
                 <= Cardinality(Awaited(w)) + Accepted(w, c).top
<1>0. w.top \in Nat /\ w.seen \subseteq 0 .. WINDOW - 1 /\ WINDOW \in Nat \ {0}
  BY HoleLinkAssumption DEF Window
<1>1. CASE c >= w.top
  <2>1. PICK k \in Nat : k = c + 1 - w.top
    BY <1>0, <1>1
  <2>2. PICK shifted : shifted = {0} \cup ({b + c + 1 - w.top : b \in w.seen} \cap 0 .. WINDOW - 1)
    OBVIOUS
  <2>3. PICK v : v = Accepted(w, c)
    OBVIOUS
  <2>4. v = [top |-> c + 1, seen |-> shifted]
    BY <1>1, <2>2, <2>3 DEF Accepted
  <2>5. v.top = c + 1 /\ v.seen = shifted
    BY <2>4
  <2>6. v \in Window
    BY <1>0, <2>2, <2>4 DEF Window
  <2>7. Awaited(v) \subseteq Awaited(w) \cup (w.top .. c - 1)
    <3> SUFFICES ASSUME NEW x \in Awaited(v), x \notin w.top .. c - 1
                 PROVE  x \in Awaited(w)
      OBVIOUS
    <3>1. x \in 0 .. c /\ c - x \in 0 .. WINDOW - 1 /\ c - x \notin shifted
      BY <2>5 DEF Awaited
    <3>2. x # c
      BY <1>0, <2>2, <3>1
    <3>3. x \in 0 .. w.top - 1
      BY <1>0, <3>1, <3>2
    <3>4. w.top - 1 - x \in 0 .. WINDOW - 1
      BY <1>0, <1>1, <3>1, <3>3
    <3>5. w.top - 1 - x \notin w.seen
      <4>1. (w.top - 1 - x) + c + 1 - w.top = c - x
        BY <1>0, <3>1
      <4> QED
        BY <2>2, <3>1, <4>1
    <3> QED
      BY <3>3, <3>4, <3>5 DEF Awaited
  <2>8. /\ IsFiniteSet(w.top .. c - 1) /\ Cardinality(w.top .. c - 1) = c - w.top
    <3>1. PICK low, high \in Int : low = w.top /\ high = c - 1
      BY <1>0
    <3>2. /\ IsFiniteSet(low .. high)
          /\ Cardinality(low .. high) = IF low > high THEN 0 ELSE high - low + 1
      BY <3>1, FS_Interval
    <3> QED
      BY <1>0, <1>1, <3>1, <3>2
  <2>9. PICK n \in Nat : n = Cardinality(Awaited(w)) /\ IsFiniteSet(Awaited(w))
    BY AwaitedIs
  <2>10. PICK m \in Nat : m = Cardinality(Awaited(v))
    BY <2>6, AwaitedIs
  <2>11. m <= n + (c - w.top)
    <3>1. PICK both : both = Awaited(w) \cup (w.top .. c - 1)
      OBVIOUS
    <3>2. PICK cut : cut = Awaited(w) \cap (w.top .. c - 1)
      OBVIOUS
    <3>3. IsFiniteSet(both) /\ Cardinality(both) = n + (c - w.top) - Cardinality(cut)
      BY <2>8, <2>9, <3>1, <3>2, FS_Union
    <3>4. Cardinality(cut) \in Nat
      BY <2>9, <3>2, FS_Intersection, FS_CardinalityType
    <3>5. m <= Cardinality(both) /\ Cardinality(both) \in Nat
      BY <2>7, <2>10, <3>1, <3>3, FS_Subset, FS_CardinalityType
    <3> QED
      BY <1>0, <3>3, <3>4, <3>5
  <2>12. m + 1 + w.top <= n + (c + 1)
    BY <1>0, <2>11
  <2> QED
    BY <1>1, <2>3, <2>5, <2>6, <2>9, <2>10, <2>12
<1>2. CASE ~(c >= w.top)
  <2>1. PICK d : d = w.top - 1 - c
    OBVIOUS
  <2>2. PICK v : v = Accepted(w, c)
    OBVIOUS
  <2>3. d \in 0 .. WINDOW - 1 /\ d \notin w.seen
    BY <1>2, <2>1 DEF Fresh
  <2>4. v = [w EXCEPT !.seen = @ \cup {d}]
    BY <1>2, <2>1, <2>2 DEF Accepted
  <2>5. v.top = w.top /\ v.seen = w.seen \cup {d} /\ v \in Window
    BY <1>0, <2>3, <2>4 DEF Window
  <2>6. c \in Awaited(w)
    BY <1>0, <1>2, <2>1, <2>3 DEF Awaited
  <2>7. Awaited(v) = Awaited(w) \ {c}
    <3>1. \A x \in 0 .. w.top - 1 : w.top - 1 - x = d <=> x = c
      BY <1>0, <2>1
    <3> QED
      BY <2>5, <3>1 DEF Awaited
  <2>8. PICK n \in Nat : n = Cardinality(Awaited(w)) /\ IsFiniteSet(Awaited(w))
    BY AwaitedIs
  <2>9. Cardinality(Awaited(v)) = n - 1
    BY <2>6, <2>7, <2>8, FS_RemoveElement
  <2>10. (n - 1) + 1 + w.top <= n + w.top
    BY <1>0
  <2> QED
    BY <1>2, <2>2, <2>5, <2>8, <2>9, <2>10
<1> QED
  BY <1>1, <1>2

-----------------------------------------------------------------------------
(* The packets.                                                            *)

(* An address that an end has moved to is one.                             *)
LEMMA AddressIsOne ==
    ASSUME Typed, NEW e \in End
    PROVE  At(e) # None
<1>1. Place[e] \in Seq(ToSet(Place[e]) \ {<<>>})
  BY HoleLinkAssumption
<1>2. Len(Place[e]) \in Nat
  BY <1>1, LenProperties
<1>3. moves[e] + 1 \in 1 .. Len(Place[e])
  BY <1>2 DEF Typed
<1>4. Place[e][moves[e] + 1] \in ToSet(Place[e]) \ {<<>>}
  BY <1>1, <1>3, ElementOfSeq
<1> QED
  BY <1>4 DEF At, None

(* A packet that is sealed and sent uses a counter of its own.             *)
LEMMA SentIsSealed ==
    ASSUME Typed, AllSealed, NEW e \in End, NEW to, NEW kind, NEW sent,
           NEW flight \in SUBSET net, Sent(e, Packet(e, to, kind, sent), flight)
    PROVE  /\ next' \in [End -> Nat]
           /\ \A d \in End : next[d] <= next'[d]
           /\ \A p \in net' \cup copies : (Sealed(p))'
<1>1. PICK q : q = Packet(e, to, kind, sent)
  OBVIOUS
<1>2. q.from = e /\ q.counter = next[e] /\ q.src = At(e)
  BY <1>1 DEF Packet
<1>3. next' = [next EXCEPT ![e] = @ + 1] /\ net' \subseteq flight \cup {q}
  BY <1>1 DEF Sent
<1>4. next' \in [End -> Nat] /\ \A d \in End : next[d] <= next'[d]
  BY <1>3 DEF Typed
<1>5. ASSUME NEW p \in net \cup copies
      PROVE  (Sealed(p))'
  BY <1>4 DEF AllSealed, Sealed, Typed
<1>6. (Sealed(q))'
  BY <1>2, <1>3, AddressIsOne DEF Sealed, Typed
<1> QED
  BY <1>3, <1>4, <1>5, <1>6

(* What is known of the windows and the counts when an end took a packet.   *)
LEMMA OpenedKeeps ==
    ASSUME IInv, NEW p \in net \cup copies, NEW flight \in SUBSET net,
           NEW e, e = Other(p.from), Fresh(window[e], p.counter), Opened(e, p, flight),
           UNCHANGED <<setting, destinations, moves>>
    PROVE  /\ Typed' /\ EachCountedOnce'
           /\ next' \in [End -> Nat] /\ \A d \in End : next[d] <= next'[d]
           /\ \A q \in net' \cup copies : (Sealed(q))'
           /\ \A d \in End : window'[d].top <= next'[Other(d)]
<1>1. e \in End /\ p.from = Other(e) /\ p.counter \in Nat /\ p.counter < next[p.from] /\ p.src # None
  BY DEF IInv, AllSealed, Sealed, Other, End
<1>2. window[e] \in Window /\ stats[e] \in Count
  BY <1>1 DEF IInv, Typed
<1>3. PICK v : v = Accepted(window[e], p.counter)
  OBVIOUS
<1>4. /\ v \in Window
      /\ v.top = IF p.counter >= window[e].top THEN p.counter + 1 ELSE window[e].top
      /\ Cardinality(Awaited(v)) + 1 + window[e].top <= Cardinality(Awaited(window[e])) + v.top
  BY <1>1, <1>2, <1>3, AcceptedIs
<1>5. /\ window' = [window EXCEPT ![e] = v]
      /\ stats' = [stats EXCEPT ![e].received = @ + 1]
      /\ endpoint' = [endpoint EXCEPT ![e] = p.src]
      /\ phase' = [phase EXCEPT ![e] = "open"]
  BY <1>3 DEF Opened, NotePacket
<1>6. /\ next' \in [End -> Nat] /\ \A d \in End : next[d] <= next'[d]
      /\ \A q \in net' \cup copies : (Sealed(q))'
  <2>1. CASE net' = flight /\ UNCHANGED <<next, let_in>>
    BY <2>1 DEF IInv, Typed, AllSealed, Sealed
  <2>2. ASSUME NEW kind, Sent(e, Packet(e, p.src, kind, 0), flight)
        PROVE  /\ next' \in [End -> Nat] /\ \A d \in End : next[d] <= next'[d]
               /\ \A q \in net' \cup copies : (Sealed(q))'
    BY <1>1, <2>2, SentIsSealed DEF IInv
  <2> QED
    BY <2>1, <2>2 DEF Opened
<1>7. /\ window' \in [End -> Window] /\ window'[e] = v
      /\ \A d \in End \ {e} : window'[d] = window[d]
  BY <1>1, <1>4, <1>5 DEF IInv, Typed
<1>8. /\ stats' \in [End -> Count] /\ stats'[e].received = stats[e].received + 1
      /\ \A d \in End \ {e} : stats'[d] = stats[d]
  <2>1. [stats[e] EXCEPT !.received = @ + 1] \in Count
    BY <1>2 DEF Count
  <2> QED
    BY <1>1, <1>5, <2>1 DEF IInv, Typed, Count
<1>9. Typed'
  <2>1. phase' \in [End -> Phase]
    BY <1>5 DEF IInv, Typed, Phase
  <2>2. /\ DOMAIN endpoint' = End
        /\ \A d \in End : phase'[d] \in {"open", "lost"} => endpoint'[d] # None
    BY <1>1, <1>5 DEF IInv, Typed
  <2> QED
    BY <1>6, <1>7, <1>8, <2>1, <2>2 DEF IInv, Typed
<1>10. EachCountedOnce'
  <2> SUFFICES ASSUME NEW d \in End
               PROVE  stats'[d].received + Cardinality(Awaited(window'[d])) <= window'[d].top
    BY DEF EachCountedOnce
  <2>1. CASE d = e
    <3>1. stats[e].received + Cardinality(Awaited(window[e])) <= window[e].top
      BY <1>1 DEF IInv, EachCountedOnce
    <3>2. /\ Cardinality(Awaited(window[e])) \in Nat /\ Cardinality(Awaited(v)) \in Nat
          /\ stats[e].received \in Nat /\ window[e].top \in Nat /\ v.top \in Nat
      BY <1>2, <1>4, AwaitedIs DEF Count, Window
    <3>3. stats[e].received + 1 + Cardinality(Awaited(v)) <= v.top
      BY <1>4, <3>1, <3>2
    <3> QED
      BY <1>7, <1>8, <2>1, <3>3
  <2>2. CASE d # e
    BY <1>7, <1>8, <2>2 DEF IInv, EachCountedOnce
  <2> QED
    BY <2>1, <2>2
<1>11. ASSUME NEW d \in End
       PROVE  window'[d].top <= next'[Other(d)]
  <2>1. /\ Other(d) \in End /\ next[Other(d)] \in Nat /\ next'[Other(d)] \in Nat
        /\ window[d].top \in Nat /\ window[d].top <= next[Other(d)]
        /\ next[Other(d)] <= next'[Other(d)]
    BY <1>6 DEF IInv, Typed, AllSealed, Window, Other, End
  <2>2. CASE d = e
    <3>1. v.top <= next[Other(d)]
      BY <1>1, <1>4, <2>1, <2>2
    <3>2. v.top \in Nat
      BY <1>4 DEF Window
    <3> QED
      BY <1>7, <2>1, <2>2, <3>1, <3>2
  <2>3. CASE d # e
    BY <1>7, <2>1, <2>3
  <2> QED
    BY <2>2, <2>3
<1> QED
  BY <1>6, <1>9, <1>10, <1>11

LEMMA ReceiveKeeps ==
    ASSUME IInv, NEW p \in net \cup copies, NEW flight \in SUBSET net, Receive(p, flight),
           copies' \subseteq net \cup copies
    PROVE  IInv'
<1>1. PICK e : e = Other(p.from)
  OBVIOUS
<1>2. UNCHANGED <<setting, destinations, moves>>
  BY DEF Receive
<1>3. CASE Fresh(window[e], p.counter)
  <2>1. Opened(e, p, flight)
    BY <1>1, <1>3 DEF Receive
  <2>2. /\ Typed' /\ EachCountedOnce'
        /\ next' \in [End -> Nat] /\ \A d \in End : next[d] <= next'[d]
        /\ \A q \in net' \cup copies : (Sealed(q))'
        /\ \A d \in End : window'[d].top <= next'[Other(d)]
    BY <1>1, <1>2, <1>3, <2>1, OpenedKeeps
  <2>3. \A q \in net \cup copies : (Sealed(q))'
    <3> SUFFICES ASSUME NEW q \in net \cup copies
                 PROVE  (Sealed(q))'
      OBVIOUS
    <3>1. Sealed(q) /\ next[q.from] \in Nat
      BY DEF IInv, Typed, AllSealed, Sealed
    <3>2. next'[q.from] \in Nat /\ next[q.from] <= next'[q.from]
      BY <2>2, <3>1 DEF Sealed
    <3> QED
      BY <3>1, <3>2 DEF Sealed
  <2> QED
    BY <2>2, <2>3 DEF IInv, AllSealed
<1>4. CASE ~Fresh(window[e], p.counter)
  <2>1. /\ net' = flight
        /\ UNCHANGED <<phase, endpoint, stats, next, window>>
    BY <1>1, <1>4 DEF Receive
  <2> QED
    BY <1>2, <2>1 DEF IInv, Typed, AllSealed, EachCountedOnce, Sealed
<1> QED
  BY <1>3, <1>4

(* A step that seals nothing new and leaves the windows alone.             *)
LEMMA QuietKeeps ==
    ASSUME AllSealed, EachCountedOnce, Typed', net' \subseteq net, copies' = copies,
           UNCHANGED <<next, window, stats>>
    PROVE  IInv'
BY DEF IInv, AllSealed, EachCountedOnce, Sealed

(* A step that seals one packet of an end, which counts it or does not.     *)
LEMMA SendKeeps ==
    ASSUME IInv, NEW e \in End, NEW to, NEW kind, NEW sent, Sent(e, Packet(e, to, kind, sent), net),
           UNCHANGED <<setting, phase, endpoint, window, moves, copies>>,
           stats' = stats \/ stats' = [stats EXCEPT ![e].sent = @ + 1]
    PROVE  IInv'
<1>1. /\ next' \in [End -> Nat] /\ \A d \in End : next[d] <= next'[d]
      /\ \A p \in net' \cup copies : (Sealed(p))'
  BY SentIsSealed DEF IInv
<1>2. /\ stats' \in [End -> Count]
      /\ \A d \in End : stats'[d].received = stats[d].received
  <2>1. stats \in [End -> Count] /\ stats[e] \in Count
    BY DEF IInv, Typed
  <2>2. PICK c : c = [stats[e] EXCEPT !.sent = @ + 1]
    OBVIOUS
  <2>3. c \in Count /\ c.received = stats[e].received
    BY <2>1, <2>2 DEF Count
  <2>4. stats' = stats \/ stats' = [stats EXCEPT ![e] = c]
    BY <2>2
  <2> QED
    BY <2>1, <2>3, <2>4
<1>3. Typed'
  BY <1>1, <1>2 DEF IInv, Typed
<1>4. \A d \in End : window[d].top <= next'[Other(d)]
  <2> SUFFICES ASSUME NEW d \in End
               PROVE  window[d].top <= next'[Other(d)]
    OBVIOUS
  <2>1. /\ Other(d) \in End /\ window[d].top \in Nat /\ window[d].top <= next[Other(d)]
    BY DEF IInv, Typed, AllSealed, Window, Other, End
  <2>2. next[Other(d)] \in Nat /\ next'[Other(d)] \in Nat /\ next[Other(d)] <= next'[Other(d)]
    BY <1>1, <2>1 DEF IInv, Typed
  <2> QED
    BY <2>1, <2>2
<1> QED
  BY <1>1, <1>2, <1>3, <1>4 DEF IInv, AllSealed, EachCountedOnce

-----------------------------------------------------------------------------
(* The invariant, and what the runs check.                                 *)

LEMMA InitIInv == Init => IInv
<1> SUFFICES ASSUME Init
             PROVE  IInv
  OBVIOUS
<1>1. \A e \in End : 0 < Len(Place[e])
  <2> SUFFICES ASSUME NEW e \in End
               PROVE  0 < Len(Place[e])
    OBVIOUS
  <2>1. /\ Place[e] \in Seq(ToSet(Place[e]) \ {<<>>}) /\ Place[e] # <<>>
    BY HoleLinkAssumption
  <2>2. Len(Place[e]) \in Nat \ {0}
    BY <2>1, EmptySeq
  <2> QED
    BY <2>2
<1>2. PICK w : w = [top |-> 0, seen |-> {}]
  OBVIOUS
<1>3. w \in Window /\ w.top = 0 /\ Cardinality(Awaited(w)) = 0
  <2>1. w \in Window /\ w.top = 0
    BY <1>2 DEF Window
  <2>2. Awaited(w) = {}
    BY <2>1 DEF Awaited
  <2> QED
    BY <2>1, <2>2, FS_EmptySet
<1>4. window = [e \in End |-> w]
  BY <1>2 DEF Init
<1>5. Typed
  BY <1>1, <1>3, <1>4 DEF Init, Typed, Phase, Count
<1>6. AllSealed
  BY <1>3, <1>4 DEF Init, AllSealed, Other, End
<1>7. EachCountedOnce
  <2>1. \A e \in End : stats[e].received = 0
    BY DEF Init
  <2>2. \A e \in End : window[e] = w
    BY <1>4
  <2> QED
    BY <1>3, <2>1, <2>2 DEF EachCountedOnce
<1> QED
  BY <1>5, <1>6, <1>7 DEF IInv

LEMMA StepIInv == IInv /\ [Next]_vars => IInv'
<1> SUFFICES ASSUME IInv, [Next]_vars
             PROVE  IInv'
  OBVIOUS
<1>1. CASE UNCHANGED vars
  BY <1>1, QuietKeeps DEF vars, ends, IInv, Typed
<1>2. ASSUME NEW e \in End, Sweep(e) \/ GiveUp(e) \/ Lost(e) \/ Move(e)
      PROVE  IInv'
  <2>1. CASE Sweep(e)
    BY <2>1, SendKeeps DEF Sweep
  <2>2. CASE GiveUp(e) \/ Lost(e)
    <3>1. Typed'
      BY <2>2 DEF GiveUp, Lost, IInv, Typed, Phase
    <3> QED
      BY <2>2, <3>1, QuietKeeps DEF GiveUp, Lost, StillOnTheirWay, IInv
  <2>3. CASE Move(e)
    <3>1. moves[e] + 1 < Len(Place[e]) /\ moves' = [moves EXCEPT ![e] = @ + 1]
      BY <2>3 DEF Move
    <3>2. Typed'
      BY <2>3, <3>1 DEF Move, ends, IInv, Typed
    <3> QED
      BY <2>3, <3>2, QuietKeeps DEF Move, StillOnTheirWay, IInv, ends
  <2> QED
    BY <1>2, <2>1, <2>2, <2>3
<1>3. ASSUME NEW e \in End, NEW kind \in setting.kinds[e], SendLite(e, kind)
      PROVE  IInv'
  BY <1>3, SendKeeps DEF SendLite
<1>4. ASSUME NEW p \in net, Deliver(p)
      PROVE  IInv'
  <2>1. Receive(p, net \ {p}) /\ copies' \subseteq net \cup copies
    BY <1>4 DEF Deliver
  <2> QED
    BY <2>1, ReceiveKeeps
<1>5. ASSUME NEW p \in copies, Repeat(p)
      PROVE  IInv'
  BY <1>5, ReceiveKeeps DEF Repeat
<1>6. ASSUME NEW p \in net, Drop(p)
      PROVE  IInv'
  BY <1>6, QuietKeeps DEF Drop, ends, IInv, Typed
<1>7. CASE Tick
  BY <1>7, QuietKeeps DEF Tick, IInv, Typed
<1> QED
  BY <1>1, <1>2, <1>3, <1>4, <1>5, <1>6, <1>7 DEF Next

LEMMA Invariance == Spec => []IInv
<1> QED
  BY InitIInv, StepIInv, PTL DEF Spec

(* Windows are as wide as they are and never ahead of what was sealed; an    *)
(* open hole has an endpoint.                                              *)
THEOREM TypeCorrect == Spec => []TypeOK
<1>1. IInv => TypeOK
  BY DEF IInv, Typed, AllSealed, TypeOK, Phase, Window
<1> QED
  BY <1>1, Invariance, PTL

(* No packet counts twice (ReplayWindow, auth.rs): for windows of any width  *)
(* and a network that repeats and reorders at will, an end has not received  *)
(* more than the other has sealed.                                         *)
THEOREM HeardOnceHolds == Spec => []HeardOnce
<1>1. IInv => HeardOnce
  <2> SUFFICES ASSUME IInv, NEW e \in End
               PROVE  stats[e].received <= next[Other(e)]
    BY DEF HeardOnce
  <2>1. /\ window[e] \in Window /\ stats[e] \in Count /\ Other(e) \in End
        /\ window[e].top <= next[Other(e)]
        /\ stats[e].received + Cardinality(Awaited(window[e])) <= window[e].top
    BY DEF IInv, Typed, AllSealed, EachCountedOnce, Other, End
  <2>2. Cardinality(Awaited(window[e])) \in Nat
    BY <2>1, AwaitedIs
  <2>3. /\ next[Other(e)] \in Nat /\ window[e].top \in Nat /\ stats[e].received \in Nat
    BY <2>1 DEF IInv, Typed, Window, Count
  <2> QED
    BY <2>1, <2>2, <2>3
<1> QED
  BY <1>1, Invariance, PTL

-----------------------------------------------------------------------------
(* Statistics when nothing is lost.  A Lite message that was counted by its *)
(* sender is on its way or was counted by the other end; what a report says   *)
(* was counted by the other end, or overtaken by the report.               *)

Lites == {"KeepAlive", "Stats", "TimeProbe"}
Alive(e) == phase[e] \in {"punching", "open"}
OnTheWay(e) == {p \in net : p.from = e /\ p.kind \in Lites}
Undisturbed == losses = 0 /\ \A e \in End : moves[e] = 0

(* A counter that a window has let in.                                     *)
Taken(w, c) == c < w.top /\ w.top - 1 - c \in w.seen

(* Each packet has a counter of its own, and is on its way or kept.        *)
OneEach ==
    /\ IsFiniteSet(net) /\ net \cap copies = {}
    /\ \A p, q \in net \cup copies : p.from = q.from /\ p.counter = q.counter => p = q

(* What is on its way was not let in before, and is sent to an end that lives. *)
Unheard == \A p \in net : ~Taken(window[Other(p.from)], p.counter)
ToTheLiving == \A p \in net : Alive(Other(p.from))

(* What the network gives back was let in, or is too late.                 *)
KeptAreOld == \A p \in copies : ~Fresh(window[Other(p.from)], p.counter)

SaysNumber == \A p \in net \cup copies : p.kind = "Stats" => p.sent \in Nat

(* While nobody moves every packet goes from one end to the other, and an    *)
(* open hole leads to where the other end lets it in.                      *)
Leads(p) == p.src = At(p.from) /\ p.to = At(Other(p.from)) /\ p.to \in let_in[p.from]
AtHome ==
    /\ \A p \in net \cup copies : Leads(p)
    /\ \A p \in net : p.kind \in Lites => p.src \in let_in[Other(p.from)]
    /\ \A e \in End : phase[e] = "open" =>
          endpoint[e] = At(Other(e)) /\ At(e) \in let_in[Other(e)]
AllCounted ==
    \A e \in End : Alive(Other(e)) =>
        stats[e].sent <= stats[Other(e)].received + Cardinality(OnTheWay(e))
(* A report is about what was counted already, and what it has overtaken.  *)
ReportsFit ==
    \A p \in net : p.kind = "Stats" =>
        p.sent <= stats[Other(p.from)].received + Cardinality(Overtaken(p))

StatsTyped == losses \in Nat /\ DOMAIN let_in = End /\ DOMAIN bad = End
LossIInv ==
    /\ StatsTyped /\ OneEach /\ Unheard /\ ToTheLiving /\ SaysNumber /\ KeptAreOld
    /\ Undisturbed => AtHome /\ AllCounted /\ ReportsFit

LEMMA OtherIs ==
    ASSUME NEW e \in End
    PROVE  Other(e) \in End /\ Other(Other(e)) = e /\ Other(e) # e
BY DEF Other, End

(* The window remembers what it let in, and takes up nothing else.         *)
LEMMA TakenIs ==
    ASSUME NEW w \in Window, NEW c \in Nat, Fresh(w, c), NEW x \in Nat, Taken(Accepted(w, c), x)
    PROVE  x = c \/ Taken(w, x)
<1>0. w.top \in Nat /\ w.seen \subseteq 0 .. WINDOW - 1
  BY DEF Window
<1>1. CASE c >= w.top
  <2>1. PICK v : v = Accepted(w, c)
    OBVIOUS
  <2>2. /\ v.top = c + 1
        /\ v.seen = {0} \cup ({b + c + 1 - w.top : b \in w.seen} \cap 0 .. WINDOW - 1)
    BY <1>1, <2>1 DEF Accepted
  <2>3. x < c + 1 /\ c + 1 - 1 - x \in v.seen
    BY <2>1, <2>2 DEF Taken
  <2>4. c + 1 - 1 - x = 0 \/ \E b \in w.seen : c + 1 - 1 - x = b + c + 1 - w.top
    BY <2>2, <2>3
  <2>5. ASSUME NEW b \in w.seen, c + 1 - 1 - x = b + c + 1 - w.top
        PROVE  Taken(w, x)
    <3>1. b \in Int /\ b >= 0
      BY <1>0
    <3>2. w.top - 1 - x = b /\ x < w.top
      BY <1>0, <2>5, <3>1
    <3> QED
      BY <3>2 DEF Taken
  <2> QED
    BY <2>4, <2>5
<1>2. CASE ~(c >= w.top)
  <2>1. PICK v : v = Accepted(w, c)
    OBVIOUS
  <2>2. v = [w EXCEPT !.seen = @ \cup {w.top - 1 - c}]
    BY <1>2, <2>1 DEF Accepted
  <2>3. v.top = w.top /\ v.seen = w.seen \cup {w.top - 1 - c}
    BY <2>2 DEF Window
  <2>4. x < w.top /\ (w.top - 1 - x \in w.seen \/ w.top - 1 - x = w.top - 1 - c)
    BY <2>1, <2>3 DEF Taken
  <2> QED
    BY <1>0, <2>4 DEF Taken
<1> QED
  BY <1>1, <1>2

(* What was let in once, or is too late, stays so.                         *)
LEMMA OldStaysOld ==
    ASSUME NEW w \in Window, NEW c \in Nat, NEW x \in Nat, x = c \/ ~Fresh(w, x)
    PROVE  ~Fresh(Accepted(w, c), x)
<1>0. w.top \in Nat /\ w.seen \subseteq 0 .. WINDOW - 1 /\ WINDOW \in Nat \ {0}
  BY HoleLinkAssumption DEF Window
<1>1. PICK v : v = Accepted(w, c)
  OBVIOUS
<1>2. CASE c >= w.top
  <2>1. /\ v.top = c + 1
        /\ v.seen = {0} \cup ({b + c + 1 - w.top : b \in w.seen} \cap 0 .. WINDOW - 1)
    BY <1>1, <1>2 DEF Accepted
  <2>2. x < c + 1 /\ (c - x \in 0 .. WINDOW - 1 => c - x \in v.seen)
    <3>1. CASE x = c
      BY <2>1, <3>1
    <3>2. CASE ~Fresh(w, x)
      <4>1. x < w.top
        BY <1>0, <3>2 DEF Fresh
      <4>2. w.top - 1 - x \in w.seen \/ w.top - 1 - x > WINDOW - 1
        BY <1>0, <3>2, <4>1 DEF Fresh
      <4>3. CASE w.top - 1 - x \in w.seen
        <5>1. c - x = (w.top - 1 - x) + c + 1 - w.top
          BY <1>0
        <5> QED
          BY <1>0, <1>2, <2>1, <4>1, <4>3, <5>1
      <4>4. CASE w.top - 1 - x > WINDOW - 1
        BY <1>0, <1>2, <4>1, <4>4
      <4> QED
        BY <4>2, <4>3, <4>4
    <3> QED
      BY <3>1, <3>2
  <2>3. c + 1 - 1 - x = c - x
    OBVIOUS
  <2> QED
    BY <1>1, <2>1, <2>2, <2>3 DEF Fresh
<1>3. CASE ~(c >= w.top)
  <2>1. v = [w EXCEPT !.seen = @ \cup {w.top - 1 - c}]
    BY <1>1, <1>3 DEF Accepted
  <2>2. v.top = w.top /\ v.seen = w.seen \cup {w.top - 1 - c}
    BY <2>1 DEF Window
  <2>3. x < w.top
    BY <1>0, <1>3 DEF Fresh
  <2> QED
    BY <1>0, <1>1, <2>2, <2>3 DEF Fresh
<1> QED
  BY <1>2, <1>3

(* What a packet has overtaken is on its way.                              *)
LEMMA OvertakenIs ==
    ASSUME NEW p
    PROVE  /\ Overtaken(p) = {q \in OnTheWay(p.from) : q.counter < p.counter}
           /\ (Overtaken(p))' = {q \in (OnTheWay(p.from))' : q.counter < p.counter}
BY DEF Overtaken, OnTheWay, Lites

LEMMA PacketIs ==
    ASSUME NEW e, NEW to, NEW kind, NEW sent, NEW q, q = Packet(e, to, kind, sent)
    PROVE  /\ q.from = e /\ q.src = At(e) /\ q.to = to /\ q.counter = next[e]
           /\ q.kind = kind /\ q.sent = sent
BY DEF Packet

(* A packet that is sealed now is none of those still about, and those that  *)
(* have one counter stay one.                                              *)
LEMMA SentIsNew ==
    ASSUME IInv, LossIInv, NEW e \in End, NEW to, NEW kind, NEW sent,
           NEW flight \in SUBSET net, Sent(e, Packet(e, to, kind, sent), flight),
           NEW kept, copies' = kept, kept \subseteq net \cup copies, flight \cap kept = {}
    PROVE  /\ Packet(e, to, kind, sent) \notin net \cup copies
           /\ OneEach'
<1>1. PICK q : q = Packet(e, to, kind, sent)
  OBVIOUS
<1>2. q.from = e /\ q.counter = next[e]
  BY <1>1, PacketIs
<1>3. \A p \in net \cup copies : p.from = e => p.counter # q.counter
  BY <1>2 DEF IInv, AllSealed, Sealed, Typed
<1>4. net' \subseteq flight \cup {q}
  BY <1>1 DEF Sent
<1>5. q \notin net \cup copies
  BY <1>2, <1>3
<1>6. IsFiniteSet(net')
  <2>1. IsFiniteSet(flight)
    BY FS_Subset DEF LossIInv, OneEach
  <2>2. IsFiniteSet(flight \cup {q})
    BY <2>1, FS_AddElement
  <2> QED
    BY <1>4, <2>2, FS_Subset
<1>7. net' \cap copies' = {}
  BY <1>4, <1>5
<1>8. ASSUME NEW p \in net' \cup copies', NEW r \in net' \cup copies',
             p.from = r.from, p.counter = r.counter
      PROVE  p = r
  <2>1. p \in net \cup copies \cup {q} /\ r \in net \cup copies \cup {q}
    BY <1>4
  <2>2. CASE p \in net \cup copies /\ r \in net \cup copies
    BY <1>8, <2>2 DEF LossIInv, OneEach
  <2> QED
    BY <1>2, <1>3, <1>8, <2>1, <2>2
<1> QED
  BY <1>1, <1>5, <1>6, <1>7, <1>8 DEF OneEach

(* The Lite messages on their way: one of them more, or one fewer.         *)
LEMMA OnTheWayIs ==
    ASSUME OneEach, NEW e \in End
    PROVE  IsFiniteSet(OnTheWay(e)) /\ Cardinality(OnTheWay(e)) \in Nat
<1>1. OnTheWay(e) \subseteq net
  BY DEF OnTheWay
<1>2. IsFiniteSet(OnTheWay(e))
  BY <1>1, FS_Subset DEF OneEach
<1> QED
  BY <1>2, FS_CardinalityType

LEMMA OnTheWayFewer ==
    ASSUME OneEach, OneEach', NEW e \in End, NEW p, OnTheWay(e) \subseteq (OnTheWay(e))' \cup {p}
    PROVE  Cardinality(OnTheWay(e)) <= Cardinality(OnTheWay(e))' + 1
<1>1. /\ IsFiniteSet(OnTheWay(e)) /\ Cardinality(OnTheWay(e)) \in Nat
  BY OnTheWayIs
<1>2. PICK new : new = (OnTheWay(e))'
  OBVIOUS
<1>3. IsFiniteSet(new) /\ Cardinality(new) \in Nat
  <2>1. new \subseteq net'
    BY <1>2 DEF OnTheWay
  <2> QED
    BY <2>1, FS_Subset, FS_CardinalityType DEF OneEach
<1>4. PICK both : both = new \cup {p}
  OBVIOUS
<1>5. IsFiniteSet(both) /\ Cardinality(both) <= Cardinality(new) + 1 /\ Cardinality(both) \in Nat
  BY <1>3, <1>4, FS_AddElement, FS_CardinalityType
<1>6. Cardinality(OnTheWay(e)) <= Cardinality(both)
  BY <1>2, <1>4, <1>5, FS_Subset
<1>7. Cardinality(OnTheWay(e)) <= Cardinality(new) + 1
  BY <1>1, <1>3, <1>5, <1>6
<1> QED
  BY <1>2, <1>7

-----------------------------------------------------------------------------
(* The steps.                                                              *)

LEMMA InitLoss == Init => LossIInv
<1> SUFFICES ASSUME Init
             PROVE  LossIInv
  OBVIOUS
<1>1. net = {} /\ copies = {} /\ losses = 0 /\ let_in = [e \in End |-> {}]
      /\ bad = [e \in End |-> FALSE] /\ phase = [e \in End |-> "punching"]
      /\ stats = [e \in End |-> [sent |-> 0, received |-> 0]]
  BY DEF Init
<1>2. \A e \in End : OnTheWay(e) = {} /\ Cardinality(OnTheWay(e)) = 0
  BY <1>1, FS_EmptySet DEF OnTheWay
<1>3. StatsTyped /\ Unheard /\ ToTheLiving /\ SaysNumber /\ KeptAreOld
  BY <1>1 DEF StatsTyped, Unheard, ToTheLiving, SaysNumber, KeptAreOld
<1>4. OneEach
  BY <1>1, FS_EmptySet DEF OneEach
<1>6. AtHome /\ ReportsFit
  BY <1>1 DEF AtHome, ReportsFit
<1>7. AllCounted
  <2>1. \A e \in End : stats[e].sent = 0 /\ stats[Other(e)].received = 0
    BY <1>1, OtherIs
  <2> QED
    BY <1>2, <2>1 DEF AllCounted
<1> QED
  BY <1>3, <1>4, <1>6, <1>7 DEF LossIInv

(* Nothing was lost, nobody has moved, after a step: then before it.       *)
LEMMA UndisturbedBefore ==
    ASSUME IInv, StatsTyped, Undisturbed', losses' = losses \/ losses' = losses + 1,
           moves' = moves \/ \E e \in End : moves' = [moves EXCEPT ![e] = @ + 1]
    PROVE  Undisturbed /\ losses' = losses /\ moves' = moves
<1>1. losses = 0 /\ losses' = losses
  BY DEF Undisturbed, StatsTyped
<1>2. ASSUME NEW e \in End, moves' = [moves EXCEPT ![e] = @ + 1]
      PROVE  FALSE
  <2>1. moves[e] \in Nat /\ moves'[e] = moves[e] + 1
    BY <1>2 DEF IInv, Typed
  <2> QED
    BY <2>1 DEF Undisturbed
<1> QED
  BY <1>1, <1>2 DEF Undisturbed

(* A step that only takes packets away: those to an end that closed its      *)
(* socket or moved, and those that were lost.                              *)
LEMMA PurgeKeepsRest ==
    ASSUME IInv, LossIInv, net' \subseteq net, copies' \subseteq net \cup copies, net' \cap copies' = {},
           losses' = losses \/ losses' = losses + 1,
           UNCHANGED <<stats, window>>, DOMAIN let_in' = End, DOMAIN bad' = End,
           \A p \in net' : (Alive(Other(p.from)))',
           \A p \in copies' : ~Fresh(window[Other(p.from)], p.counter)
    PROVE  StatsTyped' /\ OneEach' /\ Unheard' /\ ToTheLiving' /\ SaysNumber' /\ KeptAreOld'
<1>1. StatsTyped' /\ ToTheLiving'
  BY DEF LossIInv, StatsTyped, ToTheLiving
<1>2. OneEach' /\ Unheard' /\ SaysNumber'
  <2>1. IsFiniteSet(net')
    BY FS_Subset DEF LossIInv, OneEach
  <2>2. net' \cup copies' \subseteq net \cup copies
    OBVIOUS
  <2> QED
    BY <2>1, <2>2 DEF LossIInv, OneEach, Unheard, SaysNumber
<1>3. KeptAreOld'
  BY DEF KeptAreOld, Fresh
<1> QED
  BY <1>1, <1>2, <1>3

(* While nothing is lost it takes none away that is counted.               *)
LEMMA PurgeKeeps ==
    ASSUME IInv, LossIInv, net' \subseteq net, copies' = copies,
           losses' = losses \/ losses' = losses + 1,
           moves' = moves \/ \E e \in End : moves' = [moves EXCEPT ![e] = @ + 1],
           UNCHANGED <<endpoint, stats, next, window, bad>>,
           DOMAIN let_in' = End,
           moves' = moves => let_in' = let_in,
           \A e \in End : phase'[e] = "open" => phase[e] = "open",
           \A e \in End : (Alive(e))' => Alive(e),
           \A p \in net' : (Alive(Other(p.from)))',
           losses' = losses /\ moves' = moves =>
              \A e \in End : (Alive(Other(e)))' => (OnTheWay(e))' = OnTheWay(e)
    PROVE  LossIInv'
<1>1. StatsTyped' /\ OneEach' /\ Unheard' /\ ToTheLiving' /\ SaysNumber' /\ KeptAreOld'
  <2>1. net' \cap copies' = {} /\ \A p \in copies' : ~Fresh(window[Other(p.from)], p.counter)
    BY DEF LossIInv, OneEach, KeptAreOld
  <2> QED
    BY <2>1, PurgeKeepsRest DEF LossIInv, StatsTyped
<1>4. ASSUME Undisturbed'
      PROVE  AtHome' /\ AllCounted' /\ ReportsFit'
  <2>1. Undisturbed /\ losses' = losses /\ moves' = moves
    BY <1>4, UndisturbedBefore DEF LossIInv
  <2>2. AtHome /\ AllCounted /\ ReportsFit /\ let_in' = let_in
    BY <2>1 DEF LossIInv
  <2>3. AtHome'
    <3>1. \A e : At(e)' = At(e)
      BY <2>1 DEF At
    <3> QED
      BY <2>2, <3>1 DEF AtHome, Leads
  <2>4. AllCounted'
    <3> SUFFICES ASSUME NEW e \in End, (Alive(Other(e)))'
                 PROVE  stats'[e].sent <= stats'[Other(e)].received + Cardinality(OnTheWay(e))'
      BY DEF AllCounted
    <3>1. (OnTheWay(e))' = OnTheWay(e) /\ Alive(Other(e))
      BY <2>1, OtherIs
    <3>2. stats[e].sent <= stats[Other(e)].received + Cardinality(OnTheWay(e))
      BY <2>2, <3>1 DEF AllCounted
    <3> QED
      BY <3>1, <3>2
  <2>5. ReportsFit'
    <3> SUFFICES ASSUME NEW p \in net', p.kind = "Stats"
                 PROVE  p.sent <= stats'[Other(p.from)].received + Cardinality(Overtaken(p))'
      BY DEF ReportsFit
    <3>1. p \in net /\ p.from \in End
      BY DEF IInv, AllSealed, Sealed
    <3>2. (OnTheWay(p.from))' = OnTheWay(p.from)
      BY <2>1, <3>1
    <3>3. (Overtaken(p))' = Overtaken(p)
      BY <3>2, OvertakenIs
    <3> QED
      BY <2>2, <3>1, <3>3 DEF ReportsFit
  <2> QED
    BY <2>3, <2>4, <2>5
<1> QED
  BY <1>1, <1>4 DEF LossIInv

(* An open hole of an undisturbed pair sends to where the other end is.    *)
LEMMA SentHome ==
    ASSUME IInv, LossIInv, NEW e \in End, NEW to, NEW kind, NEW sent,
           NEW flight \in SUBSET net, Sent(e, Packet(e, to, kind, sent), flight)
    PROVE  /\ DOMAIN let_in' = End
           /\ \A d \in End : let_in[d] \subseteq let_in'[d]
           /\ to \in let_in'[e]
<1>1. PICK q : q = Packet(e, to, kind, sent)
  OBVIOUS
<1>2. q.to = to
  BY <1>1, PacketIs
<1>3. let_in' = [let_in EXCEPT ![e] = @ \cup {q.to}]
  BY <1>1 DEF Sent
<1> QED
  BY <1>2, <1>3 DEF LossIInv, StatsTyped

(* A packet is sent: what it says, and that it is not yet heard.           *)
LEMMA SentKeeps ==
    ASSUME IInv, LossIInv, NEW e \in End, NEW to, NEW kind, NEW sent,
           NEW flight \in SUBSET net, Sent(e, Packet(e, to, kind, sent), flight),
           \A d \in End : Alive(d) => (Alive(d))',
           moves' = moves,
           \A d \in End : window'[d] \in Window /\ window'[d].top <= next[Other(d)],
           \A p \in flight : ~Taken(window'[Other(p.from)], p.counter)
    PROVE  /\ Unheard' /\ ToTheLiving'
           /\ \A p \in net' : p \in flight \/ (p = Packet(e, to, kind, sent) /\ to = At(Other(e)))
<1>1. PICK q : q = Packet(e, to, kind, sent)
  OBVIOUS
<1>2. q.from = e /\ q.counter = next[e] /\ q.to = to
  BY <1>1, PacketIs
<1>3. \A p \in net' : p \in flight \/ (p = q /\ Reaches(q))
  BY <1>1 DEF Sent
<1>4. Reaches(q) => to = At(Other(e)) /\ Alive(Other(e))
  BY <1>2 DEF Reaches, Alive
<1>5. Unheard'
  <2> SUFFICES ASSUME NEW p \in net'
               PROVE  ~Taken(window'[Other(p.from)], p.counter)
    BY DEF Unheard, Taken
  <2>1. CASE p = q
    <3>1. PICK v \in Window : v = window'[Other(e)]
      BY OtherIs
    <3>2. v.top <= next[e]
      BY <3>1, OtherIs
    <3>3. v.top \in Nat /\ next[e] \in Nat
      BY DEF IInv, Typed, Window
    <3>4. ~(next[e] < v.top)
      BY <3>2, <3>3
    <3> QED
      BY <1>2, <2>1, <3>1, <3>4 DEF Taken
  <2> QED
    BY <1>3, <2>1
<1>6. ToTheLiving'
  <2> SUFFICES ASSUME NEW p \in net'
               PROVE  (Alive(Other(p.from)))'
    BY DEF ToTheLiving
  <2>1. p.from \in End
    BY <1>2, <1>3 DEF IInv, AllSealed, Sealed
  <2>2. Alive(Other(p.from))
    BY <1>2, <1>3, <1>4 DEF LossIInv, ToTheLiving
  <2> QED
    BY <2>1, <2>2, OtherIs
<1> QED
  BY <1>1, <1>3, <1>4, <1>5, <1>6

(* An end sends of its own: a Punch, which is not counted, or a Lite message, *)
(* which is counted once.                                                  *)
LEMMA SendCounts ==
    ASSUME IInv, LossIInv, NEW e \in End, NEW to, NEW kind, NEW sent,
           Sent(e, Packet(e, to, kind, sent), net),
           UNCHANGED <<phase, endpoint, window, bad, moves, losses, copies>>,
           \/ stats' = stats /\ kind \notin Lites
           \/ /\ stats' = [stats EXCEPT ![e].sent = @ + 1] /\ kind \in Lites
              /\ phase[e] = "open" /\ to = endpoint[e]
              /\ kind = "Stats" => sent = stats[e].sent
    PROVE  LossIInv'
<1>1. PICK q : q = Packet(e, to, kind, sent)
  OBVIOUS
<1>2. /\ q.from = e /\ q.src = At(e) /\ q.to = to /\ q.counter = next[e]
      /\ q.kind = kind /\ q.sent = sent
  BY <1>1, PacketIs
<1>3. q \notin net \cup copies /\ OneEach'
  BY <1>1, SentIsNew DEF LossIInv, OneEach
<1>4. DOMAIN let_in' = End /\ (\A d \in End : let_in[d] \subseteq let_in'[d]) /\ to \in let_in'[e]
  BY SentHome
<1>5. /\ Unheard' /\ ToTheLiving'
      /\ \A p \in net' : p \in net \/ (p = q /\ to = At(Other(e)))
  <2>1. \A d \in End : Alive(d) => (Alive(d))'
    BY DEF Alive
  <2>2. \A d \in End : window'[d] \in Window /\ window'[d].top <= next[Other(d)]
    BY DEF IInv, AllSealed, Typed
  <2>3. \A p \in net : ~Taken(window'[Other(p.from)], p.counter)
    BY DEF LossIInv, Unheard
  <2> QED
    BY <1>1, <2>1, <2>2, <2>3, SentKeeps
<1>6. \A d \in End : At(d)' = At(d) /\ Other(d) \in End
  BY OtherIs DEF At
<1>7. StatsTyped'
  BY <1>4 DEF LossIInv, StatsTyped
<1>8. /\ \A d \in End : stats'[d].received = stats[d].received
      /\ \A d \in End : stats[d].sent \in Nat /\ stats'[d].sent \in Nat /\ stats[d].received \in Nat
      /\ \A d \in End : stats'[d].sent = IF d = e /\ kind \in Lites THEN stats[d].sent + 1 ELSE stats[d].sent
  <2>1. \A d \in End : stats[d] \in Count /\ stats[d].sent \in Nat /\ stats[d].received \in Nat
    BY DEF IInv, Typed, Count
  <2>2. CASE stats' = stats /\ kind \notin Lites
    BY <2>1, <2>2
  <2>3. CASE stats' = [stats EXCEPT ![e].sent = @ + 1] /\ kind \in Lites
    <3>1. PICK c : c = [stats[e] EXCEPT !.sent = @ + 1]
      OBVIOUS
    <3>2. c.sent = stats[e].sent + 1 /\ c.received = stats[e].received
      BY <2>1, <3>1 DEF Count
    <3>3. \A d \in End : stats'[d] = IF d = e THEN c ELSE stats[d]
      BY <2>3, <3>1 DEF IInv, Typed
    <3> QED
      BY <2>1, <2>3, <3>2, <3>3
  <2> QED
    BY <2>2, <2>3
<1>9. SaysNumber' /\ KeptAreOld'
  <2>1. ASSUME NEW p \in net' \cup copies', p.kind = "Stats"
        PROVE  p.sent \in Nat
    <3>1. CASE p \in net \cup copies
      BY <2>1, <3>1 DEF LossIInv, SaysNumber
    <3>2. CASE p = q
      BY <1>2, <1>8, <2>1, <3>2 DEF Lites
    <3> QED
      BY <1>5, <3>1, <3>2
  <2> QED
    BY <2>1 DEF LossIInv, SaysNumber, KeptAreOld, Fresh
<1>10. ASSUME NEW d \in End
       PROVE  /\ IsFiniteSet(OnTheWay(d)) /\ Cardinality(OnTheWay(d)) \in Nat
              /\ (OnTheWay(d))' = OnTheWay(d)
                    \/ /\ d = e /\ kind \in Lites /\ (OnTheWay(d))' = OnTheWay(d) \cup {q}
                       /\ Cardinality(OnTheWay(d))' = Cardinality(OnTheWay(d)) + 1
  <2>1. IsFiniteSet(OnTheWay(d)) /\ Cardinality(OnTheWay(d)) \in Nat
    BY OnTheWayIs DEF LossIInv
  <2>2. net' = net \/ net' = net \cup {q}
    BY <1>1 DEF Sent
  <2>3. CASE net' = net
    BY <2>1, <2>3 DEF OnTheWay
  <2>4. CASE net' = net \cup {q} /\ ~(d = e /\ kind \in Lites)
    BY <1>2, <2>1, <2>4 DEF OnTheWay
  <2>5. CASE net' = net \cup {q} /\ d = e /\ kind \in Lites
    <3>1. PICK old : old = OnTheWay(d)
      OBVIOUS
    <3>2. (OnTheWay(d))' = old \cup {q} /\ q \notin old
      BY <1>2, <1>3, <2>5, <3>1 DEF OnTheWay
    <3>3. Cardinality(old \cup {q}) = Cardinality(old) + 1
      BY <2>1, <3>1, <3>2, FS_AddElement
    <3> QED
      BY <2>1, <2>5, <3>1, <3>2, <3>3
  <2> QED
    BY <2>2, <2>3, <2>4, <2>5
<1>12. ASSUME Undisturbed'
       PROVE  AtHome' /\ AllCounted' /\ ReportsFit'
  <2>1. Undisturbed
    BY <1>12 DEF Undisturbed
  <2>2. AtHome /\ AllCounted /\ ReportsFit
    BY <2>1 DEF LossIInv
  <2>3. AtHome'
    <3>1. ASSUME NEW p \in net' \cup copies'
          PROVE  (Leads(p))'
      <4>1. CASE p \in net \cup copies
        <5>1. p.from \in End
          BY <4>1 DEF IInv, AllSealed, Sealed
        <5> QED
          BY <1>4, <1>6, <2>2, <4>1, <5>1 DEF AtHome, Leads
      <4>2. CASE p = q /\ to = At(Other(e))
        BY <1>2, <1>4, <1>6, <4>2 DEF Leads
      <4> QED
        BY <1>5, <4>1, <4>2
    <3>2. ASSUME NEW p \in net', p.kind \in Lites
          PROVE  p.src \in let_in'[Other(p.from)]
      <4>1. CASE p \in net
        <5>1. p.from \in End
          BY <4>1 DEF IInv, AllSealed, Sealed
        <5> QED
          BY <1>4, <1>6, <2>2, <3>2, <4>1, <5>1 DEF AtHome
      <4>2. CASE p = q
        <5>1. phase[e] = "open"
          BY <1>2, <3>2, <4>2
        <5> QED
          BY <1>2, <1>4, <1>6, <2>2, <4>2, <5>1 DEF AtHome
      <4> QED
        BY <1>5, <4>1, <4>2
    <3>3. ASSUME NEW d \in End, phase'[d] = "open"
          PROVE  endpoint'[d] = At(Other(d))' /\ At(d)' \in let_in'[Other(d)]
      BY <1>4, <1>6, <2>2, <3>3 DEF AtHome
    <3> QED
      BY <3>1, <3>2, <3>3 DEF AtHome
  <2>4. AllCounted'
    <3> SUFFICES ASSUME NEW d \in End, (Alive(Other(d)))'
                 PROVE  stats'[d].sent <= stats'[Other(d)].received + Cardinality(OnTheWay(d))'
      BY DEF AllCounted
    <3>1. Alive(Other(d))
      BY DEF Alive
    <3>2. stats[d].sent <= stats[Other(d)].received + Cardinality(OnTheWay(d))
      BY <2>2, <3>1 DEF AllCounted
    <3>3. CASE d = e /\ kind \in Lites
      <4>1. to = At(Other(e))
        BY <2>2, <3>3 DEF AtHome
      <4>2. Reaches(q)
        BY <1>2, <3>1, <3>3, <4>1 DEF Reaches, Alive
      <4>3. q \in (OnTheWay(d))'
        BY <1>1, <1>2, <3>3, <4>2 DEF Sent, OnTheWay
      <4>4. (OnTheWay(d))' # OnTheWay(d)
        BY <1>3, <4>3 DEF OnTheWay
      <4>5. Cardinality(OnTheWay(d))' = Cardinality(OnTheWay(d)) + 1
        BY <1>10, <4>4
      <4> QED
        BY <1>6, <1>8, <1>10, <3>2, <3>3, <4>5
    <3>4. CASE ~(d = e /\ kind \in Lites)
      <4>1. (OnTheWay(d))' = OnTheWay(d)
        BY <1>10, <3>4
      <4> QED
        BY <1>6, <1>8, <3>2, <3>4, <4>1
    <3> QED
      BY <3>3, <3>4
  <2>5. ReportsFit'
    <3> SUFFICES ASSUME NEW p \in net', p.kind = "Stats"
                 PROVE  p.sent <= stats'[Other(p.from)].received + Cardinality(Overtaken(p))'
      BY DEF ReportsFit
    <3>1. CASE p \in net
      <4>1. p.from \in End /\ p.counter < next[p.from] /\ Other(p.from) \in End
        BY <3>1, OtherIs DEF IInv, AllSealed, Sealed
      <4>2. (Overtaken(p))' = Overtaken(p)
        <5>1. (OnTheWay(p.from))' = OnTheWay(p.from)
                 \/ (p.from = e /\ (OnTheWay(p.from))' = OnTheWay(p.from) \cup {q})
          BY <1>10, <4>1
        <5>2. p.from = e => ~(q.counter < p.counter)
          BY <1>2, <3>1, <4>1 DEF IInv, Typed, AllSealed, Sealed
        <5> QED
          BY <5>1, <5>2, OvertakenIs
      <4> QED
        BY <1>8, <2>2, <3>1, <4>1, <4>2 DEF ReportsFit
    <3>2. CASE p = q /\ p \notin net
      <4>1. kind = "Stats" /\ kind \in Lites /\ p.sent = stats[e].sent /\ p.from = e
        BY <1>2, <3>2 DEF Lites
      <4>2. Reaches(q)
        BY <1>1, <3>2 DEF Sent
      <4>3. Alive(Other(e))
        BY <1>2, <4>2 DEF Reaches, Alive
      <4>4. stats[e].sent <= stats[Other(e)].received + Cardinality(OnTheWay(e))
        BY <2>2, <4>3 DEF AllCounted
      <4>5. (Overtaken(p))' = OnTheWay(e)
        <5>1. (OnTheWay(e))' = OnTheWay(e) \/ (OnTheWay(e))' = OnTheWay(e) \cup {q}
          BY <1>10
        <5>2. \A x \in OnTheWay(e) : x.counter < q.counter
          BY <1>2 DEF OnTheWay, IInv, AllSealed, Sealed
        <5>3. ~(q.counter < q.counter)
          BY <1>2 DEF IInv, Typed
        <5>4. q \notin OnTheWay(e)
          BY <1>3 DEF OnTheWay
        <5>5. (Overtaken(p))' = {x \in (OnTheWay(e))' : x.counter < q.counter}
          BY <3>2, <4>1 DEF Overtaken, OnTheWay, Lites
        <5> QED
          BY <5>1, <5>2, <5>3, <5>4, <5>5
      <4> QED
        BY <1>6, <1>8, <4>1, <4>4, <4>5
    <3> QED
      BY <1>5, <3>1, <3>2
  <2> QED
    BY <2>3, <2>4, <2>5
<1> QED
  BY <1>3, <1>5, <1>7, <1>9, <1>12 DEF LossIInv

(* A packet is taken from the network, or given back by it.                *)
Comes(p, flight) ==
    \/ p \in net /\ flight = net \ {p} /\ copies' \subseteq copies \cup {p}
    \/ p \in copies /\ flight = net /\ copies' = copies /\ Reaches(p)

LEMMA ComesFrom ==
    ASSUME IInv, LossIInv, NEW p, NEW flight, Comes(p, flight)
    PROVE  /\ p \in net \cup copies /\ flight \in SUBSET net /\ net \subseteq flight \cup {p}
           /\ copies' \subseteq net \cup copies /\ flight \cap copies' = {} /\ p \notin flight
           /\ p.from \in End /\ Other(p.from) \in End /\ Other(Other(p.from)) = p.from
           /\ p.counter \in Nat /\ p.counter < next[p.from]
           /\ Alive(Other(p.from))
           /\ \A q \in flight : q.from = p.from => q.counter # p.counter
<1>1. /\ p \in net \cup copies /\ flight \in SUBSET net /\ net \subseteq flight \cup {p}
      /\ copies' \subseteq net \cup copies /\ p \notin flight /\ net \cap copies = {}
      /\ flight \cap copies' = {}
  BY DEF Comes, LossIInv, OneEach
<1>2. p.from \in End /\ p.counter \in Nat /\ p.counter < next[p.from]
  BY <1>1 DEF IInv, AllSealed, Sealed
<1>3. Alive(Other(p.from))
  BY DEF Comes, LossIInv, ToTheLiving, Reaches, Alive
<1>4. \A q \in flight : q.from = p.from => q.counter # p.counter
  BY <1>1 DEF LossIInv, OneEach
<1> QED
  BY <1>1, <1>2, <1>3, <1>4, OtherIs

(* What was on its way and is not yet let in stays so when another packet    *)
(* is let in.                                                              *)
LEMMA OthersUntaken ==
    ASSUME IInv, LossIInv, NEW p, NEW flight, Comes(p, flight),
           NEW e, e = Other(p.from), Fresh(window[e], p.counter),
           window' = [window EXCEPT ![e] = Accepted(@, p.counter)]
    PROVE  \A q \in flight : ~Taken(window'[Other(q.from)], q.counter)
<1>1. /\ p.from \in End /\ e \in End /\ Other(e) = p.from /\ p.counter \in Nat
      /\ flight \in SUBSET net /\ \A q \in flight : q.from = p.from => q.counter # p.counter
  BY ComesFrom
<1> SUFFICES ASSUME NEW q \in flight
             PROVE  ~Taken(window'[Other(q.from)], q.counter)
  OBVIOUS
<1>2. q.from \in End /\ q.counter \in Nat /\ ~Taken(window[Other(q.from)], q.counter)
  BY <1>1 DEF IInv, AllSealed, Sealed, LossIInv, Unheard
<1>3. DOMAIN window = End /\ window[e] \in Window
  BY <1>1 DEF IInv, Typed
<1>4. CASE q.from = p.from
  <2>1. window'[Other(q.from)] = Accepted(window[e], p.counter)
    BY <1>1, <1>3, <1>4
  <2>2. ~Taken(window[e], q.counter) /\ q.counter # p.counter
    BY <1>1, <1>2, <1>4
  <2>3. ~Taken(Accepted(window[e], p.counter), q.counter)
    BY <1>1, <1>2, <1>3, <2>2, TakenIs
  <2> QED
    BY <2>1, <2>3
<1>5. CASE q.from # p.from
  <2>1. Other(q.from) # e /\ Other(q.from) \in End
    BY <1>1, <1>2, <1>5, OtherIs
  <2>2. window'[Other(q.from)] = window[Other(q.from)]
    BY <1>3, <2>1
  <2> QED
    BY <1>2, <2>2
<1> QED
  BY <1>4, <1>5

(* A packet that is taken leaves each packet with a counter of its own, and  *)
(* the answer is none of those that are counted.                           *)
LEMMA AnswerIs ==
    ASSUME IInv, LossIInv, NEW p, NEW flight, Comes(p, flight),
           NEW e, e = Other(p.from), Fresh(window[e], p.counter), Opened(e, p, flight),
           UNCHANGED moves
    PROVE  /\ OneEach' /\ Unheard' /\ ToTheLiving'
           /\ DOMAIN let_in' = End /\ \A d \in End : let_in[d] \subseteq let_in'[d]
           /\ \A q \in net' : \/ q \in flight
                              \/ /\ q.from = e /\ q.kind \notin Lites /\ q.kind # "Stats"
                                 /\ q.src = At(e) /\ q.to = At(Other(e)) /\ q.to \in let_in'[e]
           /\ flight \subseteq net'
<1>0. /\ p \in net \cup copies /\ flight \in SUBSET net /\ copies' \subseteq net \cup copies
      /\ flight \cap copies' = {} /\ e \in End /\ Other(e) = p.from /\ p.counter \in Nat
      /\ Alive(e)
  BY ComesFrom
<1>1. window' = [window EXCEPT ![e] = Accepted(@, p.counter)] /\ phase' = [phase EXCEPT ![e] = "open"]
  BY DEF Opened
<1>2. \A q \in flight : ~Taken(window'[Other(q.from)], q.counter)
  BY <1>1, OthersUntaken
<1>3. \A d \in End : Alive(d) => (Alive(d))'
  BY <1>1 DEF Alive, IInv, Typed
<1>4. \A d \in End : window'[d] \in Window /\ window'[d].top <= next[Other(d)]
  <2> SUFFICES ASSUME NEW d \in End
               PROVE  window'[d] \in Window /\ window'[d].top <= next[Other(d)]
    OBVIOUS
  <2>1. window[d] \in Window /\ window[d].top <= next[Other(d)] /\ DOMAIN window = End
    BY DEF IInv, Typed, AllSealed
  <2>2. CASE d = e
    <3>1. PICK v : v = Accepted(window[e], p.counter)
      OBVIOUS
    <3>2. v \in Window /\ v.top = IF p.counter >= window[e].top THEN p.counter + 1 ELSE window[e].top
      BY <1>0, <2>1, <2>2, <3>1, AcceptedIs
    <3>3. p.counter < next[Other(e)] /\ next[Other(e)] \in Nat
      BY <1>0, ComesFrom DEF IInv, Typed
    <3>4. v.top <= next[Other(e)]
      BY <1>0, <2>1, <2>2, <3>2, <3>3
    <3> QED
      BY <1>1, <2>1, <2>2, <3>1, <3>2, <3>4
  <2>3. CASE d # e
    BY <1>1, <2>1, <2>3
  <2> QED
    BY <2>2, <2>3
<1>5. CASE Answer(p) = {} /\ net' = flight /\ UNCHANGED <<next, let_in>>
  <2>1. IsFiniteSet(net')
    BY <1>0, <1>5, FS_Subset DEF LossIInv, OneEach
  <2>2. OneEach'
    BY <1>0, <1>5, <2>1 DEF LossIInv, OneEach
  <2>3. Unheard'
    BY <1>2, <1>5 DEF Unheard, Taken
  <2>4. ToTheLiving'
    <3>1. \A q \in flight : q.from \in End /\ Other(q.from) \in End /\ Alive(Other(q.from))
      BY <1>0, OtherIs DEF LossIInv, ToTheLiving, IInv, AllSealed, Sealed
    <3> QED
      BY <1>3, <1>5, <3>1 DEF ToTheLiving
  <2> QED
    BY <1>5, <2>2, <2>3, <2>4 DEF LossIInv, StatsTyped
<1>6. ASSUME NEW kind \in Answer(p), Sent(e, Packet(e, p.src, kind, 0), flight)
      PROVE  /\ OneEach' /\ Unheard' /\ ToTheLiving'
             /\ DOMAIN let_in' = End /\ \A d \in End : let_in[d] \subseteq let_in'[d]
             /\ \A q \in net' : \/ q \in flight
                                \/ /\ q.from = e /\ q.kind \notin Lites /\ q.kind # "Stats"
                                   /\ q.src = At(e) /\ q.to = At(Other(e)) /\ q.to \in let_in'[e]
             /\ flight \subseteq net'
  <2>1. PICK q : q = Packet(e, p.src, kind, 0)
    OBVIOUS
  <2>2. q.from = e /\ q.src = At(e) /\ q.to = p.src /\ q.kind = kind
    BY <2>1, PacketIs
  <2>3. kind \notin Lites /\ kind # "Stats"
    BY DEF Answer, Lites
  <2>4. OneEach'
    BY <1>0, <1>6, SentIsNew
  <2>5. /\ DOMAIN let_in' = End /\ (\A d \in End : let_in[d] \subseteq let_in'[d])
        /\ p.src \in let_in'[e]
    BY <1>0, <1>6, SentHome
  <2>6. /\ Unheard' /\ ToTheLiving'
        /\ \A r \in net' : r \in flight \/ (r = q /\ p.src = At(Other(e)))
    BY <1>0, <1>2, <1>3, <1>4, <1>6, <2>1, SentKeeps
  <2>7. flight \subseteq net'
    BY <1>6 DEF Sent
  <2> QED
    BY <2>2, <2>3, <2>4, <2>5, <2>6, <2>7
<1> QED
  BY <1>5, <1>6 DEF Opened

(* Of a packet on its way one is counted by the end that takes it.          *)
LEMMA OpenedCounts ==
    ASSUME IInv, LossIInv, NEW p, NEW flight, Comes(p, flight),
           NEW e, e = Other(p.from), Fresh(window[e], p.counter), Opened(e, p, flight),
           UNCHANGED <<setting, destinations, moves, losses>>
    PROVE  LossIInv'
<1>0. /\ p \in net \cup copies /\ flight \in SUBSET net /\ copies' \subseteq net \cup copies
      /\ e \in End /\ p.from \in End /\ Other(e) = p.from /\ e # p.from /\ Alive(e)
      /\ net \subseteq flight \cup {p}
  BY ComesFrom, OtherIs
<1>1. /\ stats' = [stats EXCEPT ![e].received = @ + 1]
      /\ endpoint' = [endpoint EXCEPT ![e] = p.src]
      /\ phase' = [phase EXCEPT ![e] = "open"]
      /\ bad' = [bad EXCEPT ![e] = @ \/ (p.kind = "Stats" /\ LinkIsBad(p.sent, stats[e].received + 1))]
  BY DEF Opened, NotePacket
<1>2. /\ OneEach' /\ Unheard' /\ ToTheLiving'
      /\ DOMAIN let_in' = End /\ (\A d \in End : let_in[d] \subseteq let_in'[d])
      /\ \A q \in net' : \/ q \in flight
                         \/ /\ q.from = e /\ q.kind \notin Lites /\ q.kind # "Stats"
                            /\ q.src = At(e) /\ q.to = At(Other(e)) /\ q.to \in let_in'[e]
      /\ flight \subseteq net'
  BY AnswerIs
<1>3. \A d \in End : At(d)' = At(d) /\ Other(d) \in End
  BY OtherIs DEF At
<1>4. StatsTyped'
  BY <1>1, <1>2 DEF LossIInv, StatsTyped
<1>5. /\ \A d \in End : stats[d].sent \in Nat /\ stats[d].received \in Nat
      /\ \A d \in End : stats'[d].sent = stats[d].sent
      /\ \A d \in End : stats'[d].received = IF d = e THEN stats[d].received + 1 ELSE stats[d].received
  <2>1. \A d \in End : stats[d] \in Count /\ stats[d].sent \in Nat /\ stats[d].received \in Nat
    BY DEF IInv, Typed, Count
  <2>2. PICK c : c = [stats[e] EXCEPT !.received = @ + 1]
    OBVIOUS
  <2>3. c.received = stats[e].received + 1 /\ c.sent = stats[e].sent
    BY <1>0, <2>1, <2>2 DEF Count
  <2>4. \A d \in End : stats'[d] = IF d = e THEN c ELSE stats[d]
    BY <1>1, <2>2 DEF IInv, Typed
  <2> QED
    BY <2>1, <2>3, <2>4
<1>6. SaysNumber' /\ KeptAreOld'
  <2>1. ASSUME NEW q \in net' \cup copies', q.kind = "Stats"
        PROVE  q.sent \in Nat
    <3>1. q \in net \cup copies
      BY <1>0, <1>2, <2>1
    <3> QED
      BY <2>1, <3>1 DEF LossIInv, SaysNumber
  <2>2. ASSUME NEW q \in copies'
        PROVE  ~Fresh(window'[Other(q.from)], q.counter)
    <3>1. q = p \/ q \in copies
      BY DEF Comes
    <3>2. /\ q.from \in End /\ q.counter \in Nat /\ p.counter \in Nat
          /\ window \in [End -> Window] /\ Other(q.from) \in End
      BY <1>0, OtherIs DEF IInv, Typed, AllSealed, Sealed
    <3>3. q = p \/ ~Fresh(window[Other(q.from)], q.counter)
      BY <3>1 DEF LossIInv, KeptAreOld
    <3>4. window'[Other(q.from)] =
             IF Other(q.from) = e THEN Accepted(window[e], p.counter) ELSE window[Other(q.from)]
      BY <3>2 DEF Opened
    <3>5. CASE Other(q.from) = e
      <4>1. q.counter = p.counter \/ ~Fresh(window[e], q.counter)
        BY <3>3, <3>5
      <4>2. ~Fresh(Accepted(window[e], p.counter), q.counter)
        BY <1>0, <3>2, <4>1, OldStaysOld
      <4> QED
        BY <3>4, <3>5, <4>2
    <3>6. CASE Other(q.from) # e
      BY <3>3, <3>4, <3>6
    <3> QED
      BY <3>5, <3>6
  <2>3. KeptAreOld'
    BY <2>2 DEF KeptAreOld, Fresh
  <2> QED
    BY <2>1, <2>3 DEF SaysNumber
<1>7. ASSUME NEW d \in End
      PROVE  /\ Cardinality(OnTheWay(d)) \in Nat /\ Cardinality(OnTheWay(d))' \in Nat
             /\ Cardinality(OnTheWay(d))' <= Cardinality(OnTheWay(d))
             /\ Cardinality(OnTheWay(d)) <= Cardinality(OnTheWay(d))' + 1
             /\ d # p.from => Cardinality(OnTheWay(d))' = Cardinality(OnTheWay(d))
  <2>1. IsFiniteSet(OnTheWay(d)) /\ Cardinality(OnTheWay(d)) \in Nat
    BY OnTheWayIs DEF LossIInv
  <2>2. PICK new : new = (OnTheWay(d))'
    OBVIOUS
  <2>3. new \subseteq OnTheWay(d)
    BY <1>0, <1>2, <2>2 DEF OnTheWay
  <2>4. Cardinality(new) \in Nat /\ Cardinality(new) <= Cardinality(OnTheWay(d))
    BY <2>1, <2>3, FS_Subset, FS_CardinalityType
  <2>5. OnTheWay(d) \subseteq new \cup {p}
    BY <1>0, <1>2, <2>2 DEF OnTheWay
  <2>6. Cardinality(OnTheWay(d)) <= Cardinality(OnTheWay(d))' + 1
    BY <1>2, <2>2, <2>5, OnTheWayFewer DEF LossIInv
  <2>7. d # p.from => new = OnTheWay(d)
    BY <2>3, <2>5 DEF OnTheWay
  <2> QED
    BY <2>1, <2>2, <2>4, <2>6, <2>7
<1>9. ASSUME Undisturbed'
      PROVE  AtHome' /\ AllCounted' /\ ReportsFit'
  <2>1. AtHome /\ AllCounted /\ ReportsFit
    BY <1>9 DEF LossIInv, Undisturbed
  <2>2. AtHome'
    <3>1. ASSUME NEW q \in net' \cup copies'
          PROVE  (Leads(q))'
      <4>1. CASE q \in net \cup copies
        <5>1. q.from \in End
          BY <4>1 DEF IInv, AllSealed, Sealed
        <5> QED
          BY <1>2, <1>3, <2>1, <4>1, <5>1 DEF AtHome, Leads
      <4>2. CASE q.from = e /\ q.src = At(e) /\ q.to = At(Other(e)) /\ q.to \in let_in'[e]
        BY <1>0, <1>3, <4>2 DEF Leads
      <4> QED
        BY <1>0, <1>2, <4>1, <4>2
    <3>2. ASSUME NEW q \in net', q.kind \in Lites
          PROVE  q.src \in let_in'[Other(q.from)]
      <4>1. q \in net
        BY <1>0, <1>2, <3>2
      <4>2. q.from \in End
        BY <4>1 DEF IInv, AllSealed, Sealed
      <4> QED
        BY <1>2, <1>3, <2>1, <3>2, <4>1, <4>2 DEF AtHome
    <3>3. ASSUME NEW d \in End, phase'[d] = "open"
          PROVE  endpoint'[d] = At(Other(d))' /\ At(d)' \in let_in'[Other(d)]
      <4>1. CASE d = e
        <5>1. Leads(p)
          BY <1>0, <2>1 DEF AtHome
        <5>2. endpoint'[e] = p.src
          BY <1>0, <1>1 DEF IInv, Typed
        <5>3. p.src = At(Other(e)) /\ p.to = At(e) /\ p.to \in let_in[Other(e)]
          BY <1>0, <5>1, OtherIs DEF Leads
        <5> QED
          BY <1>0, <1>2, <1>3, <4>1, <5>2, <5>3
      <4>2. CASE d # e
        <5>1. phase[d] = "open" /\ endpoint'[d] = endpoint[d]
          BY <1>1, <3>3, <4>2 DEF IInv, Typed
        <5> QED
          BY <1>2, <1>3, <2>1, <5>1 DEF AtHome
      <4> QED
        BY <4>1, <4>2
    <3> QED
      BY <3>1, <3>2, <3>3 DEF AtHome
  <2>3. AllCounted'
    <3> SUFFICES ASSUME NEW d \in End, (Alive(Other(d)))'
                 PROVE  stats'[d].sent <= stats'[Other(d)].received + Cardinality(OnTheWay(d))'
      BY DEF AllCounted
    <3>1. Alive(Other(d))
      BY <1>0, <1>1, <1>3 DEF Alive, IInv, Typed
    <3>2. stats[d].sent <= stats[Other(d)].received + Cardinality(OnTheWay(d))
      BY <2>1, <3>1 DEF AllCounted
    <3>3. CASE d = p.from
      <4>1. stats'[Other(d)].received = stats[Other(d)].received + 1
        BY <1>0, <1>3, <1>5, <3>3, OtherIs
      <4> QED
        BY <1>3, <1>5, <1>7, <3>2, <4>1
    <3>4. CASE d # p.from
      <4>1. Other(d) # e
        BY <1>0, <3>4, OtherIs
      <4> QED
        BY <1>3, <1>5, <1>7, <3>2, <3>4, <4>1
    <3> QED
      BY <3>3, <3>4
  <2>4. ReportsFit'
    <3> SUFFICES ASSUME NEW q \in net', q.kind = "Stats"
                 PROVE  q.sent <= stats'[Other(q.from)].received + Cardinality(Overtaken(q))'
      BY DEF ReportsFit
    <3>1. q \in flight /\ q \in net
      BY <1>0, <1>2
    <3>2. q.from \in End /\ Other(q.from) \in End /\ q.sent \in Nat
      BY <3>1, OtherIs DEF LossIInv, SaysNumber, IInv, AllSealed, Sealed
    <3>3. q.sent <= stats[Other(q.from)].received + Cardinality(Overtaken(q))
      BY <2>1, <3>1 DEF ReportsFit
    <3>4. PICK old, new : old = Overtaken(q) /\ new = (Overtaken(q))'
      OBVIOUS
    <3>5. /\ new = {x \in net' : x.from = q.from /\ x.kind \in Lites /\ x.counter < q.counter}
          /\ old = {x \in net : x.from = q.from /\ x.kind \in Lites /\ x.counter < q.counter}
      BY <3>4 DEF Overtaken, Lites
    <3>6. new \subseteq old /\ old \subseteq new \cup {p} /\ (q.from # p.from => new = old)
      BY <1>0, <1>2, <3>5
    <3>7. IsFiniteSet(old) /\ IsFiniteSet(new) /\ Cardinality(old) \in Nat /\ Cardinality(new) \in Nat
      <4>1. IsFiniteSet(net) /\ old \subseteq net
        BY <3>5 DEF LossIInv, OneEach
      <4> QED
        BY <3>6, <4>1, FS_Subset, FS_CardinalityType
    <3>8. Cardinality(old) <= Cardinality(new) + 1
      <4>1. PICK both : both = new \cup {p}
        OBVIOUS
      <4>2. IsFiniteSet(both) /\ Cardinality(both) <= Cardinality(new) + 1 /\ Cardinality(both) \in Nat
        <5>1. Cardinality(both) = IF p \in new THEN Cardinality(new) ELSE Cardinality(new) + 1
          BY <3>7, <4>1, FS_AddElement
        <5> QED
          BY <3>7, <4>1, <5>1, FS_AddElement, FS_CardinalityType
      <4>3. Cardinality(old) <= Cardinality(both)
        BY <3>6, <4>1, <4>2, FS_Subset
      <4> QED
        BY <3>7, <4>2, <4>3
    <3>9. q.sent <= stats[Other(q.from)].received + Cardinality(old)
      BY <3>3, <3>4
    <3>10. q.sent <= stats'[Other(q.from)].received + Cardinality(new)
      <4>1. CASE q.from = p.from
        <5>1. stats'[Other(q.from)].received = stats[Other(q.from)].received + 1
          BY <1>0, <1>5, <3>2, <4>1
        <5> QED
          BY <1>5, <3>2, <3>7, <3>8, <3>9, <5>1
      <4>2. CASE q.from # p.from
        <5>1. Other(q.from) # e
          BY <1>0, <3>2, <4>2, OtherIs
        <5> QED
          BY <1>5, <3>2, <3>6, <3>9, <4>2, <5>1
      <4> QED
        BY <4>1, <4>2
    <3> QED
      BY <3>4, <3>10
  <2> QED
    BY <2>2, <2>3, <2>4
<1> QED
  BY <1>2, <1>4, <1>6, <1>9 DEF LossIInv

(* A packet that is on its way is let in or lost, and one that was let in    *)
(* before changes nothing.                                                 *)
LEMMA ReceiveCounts ==
    ASSUME IInv, LossIInv, NEW p, NEW flight, Comes(p, flight), Receive(p, flight),
           losses' = IF p \in net /\ ~Fresh(window[Other(p.from)], p.counter) THEN losses + 1 ELSE losses
    PROVE  LossIInv'
<1>1. PICK e : e = Other(p.from)
  OBVIOUS
<1>2. CASE Fresh(window[e], p.counter)
  <2>1. Opened(e, p, flight) /\ UNCHANGED <<setting, destinations, moves, losses>>
    BY <1>1, <1>2 DEF Receive
  <2> QED
    BY <1>1, <1>2, <2>1, OpenedCounts
<1>3. CASE ~Fresh(window[e], p.counter)
  <2>1. /\ net' = flight
        /\ UNCHANGED <<phase, endpoint, stats, next, window, bad, let_in, moves>>
    BY <1>1, <1>3 DEF Receive
  <2>2. \A d : (Alive(d))' = Alive(d)
    BY <2>1 DEF Alive
  <2>3. DOMAIN let_in' = End /\ DOMAIN bad' = End
    BY <2>1 DEF LossIInv, StatsTyped
  <2>4. CASE p \in net
    <3>1. net' = net \ {p} /\ copies' \subseteq copies \cup {p} /\ losses' = losses + 1
      BY <1>1, <1>3, <2>1, <2>4 DEF Comes, LossIInv, OneEach
    <3>2. net \cap copies = {}
      BY DEF LossIInv, OneEach
    <3>3. \A q \in copies' : ~Fresh(window[Other(q.from)], q.counter)
      BY <1>1, <1>3, <3>1 DEF LossIInv, KeptAreOld
    <3>4. \A q \in net' : (Alive(Other(q.from)))'
      BY <2>2, <3>1 DEF LossIInv, ToTheLiving
    <3>5. StatsTyped' /\ OneEach' /\ Unheard' /\ ToTheLiving' /\ SaysNumber' /\ KeptAreOld'
      BY <2>1, <2>3, <2>4, <3>1, <3>2, <3>3, <3>4, PurgeKeepsRest
    <3>6. ~Undisturbed'
      BY <3>1 DEF Undisturbed, LossIInv, StatsTyped
    <3> QED
      BY <3>5, <3>6 DEF LossIInv
  <2>5. CASE p \notin net
    <3>1. net' = net /\ copies' = copies /\ losses' = losses
      BY <2>1, <2>5 DEF Comes
    <3>2. \A d : (OnTheWay(d))' = OnTheWay(d)
      BY <3>1 DEF OnTheWay
    <3>3. \A q \in net' : (Alive(Other(q.from)))'
      BY <2>2, <3>1 DEF LossIInv, ToTheLiving
    <3> QED
      BY <2>1, <2>2, <2>3, <3>1, <3>2, <3>3, PurgeKeeps
  <2> QED
    BY <2>4, <2>5
<1> QED
  BY <1>2, <1>3

LEMMA StepLoss == IInv /\ LossIInv /\ [Next]_vars => LossIInv'
<1> SUFFICES ASSUME IInv, LossIInv, [Next]_vars
             PROVE  LossIInv'
  OBVIOUS
<1>0. \A e \in End : DOMAIN let_in = End /\ Other(e) \in End
  BY OtherIs DEF LossIInv, StatsTyped
<1>a. \A p \in net : p.from \in End
  BY DEF IInv, AllSealed, Sealed
<1>1. ASSUME UNCHANGED vars \/ Tick
      PROVE  LossIInv'
  <2>1. net' = net /\ copies' = copies
        /\ UNCHANGED <<phase, endpoint, stats, next, window, bad, let_in, moves, losses>>
    BY <1>1 DEF vars, ends, Tick
  <2>2. /\ \A e : (Alive(e))' = Alive(e)
        /\ \A e : (OnTheWay(e))' = OnTheWay(e)
    BY <2>1 DEF Alive, OnTheWay
  <2>3. \A p \in net' : (Alive(Other(p.from)))'
    BY <2>1, <2>2 DEF LossIInv, ToTheLiving
  <2> QED
    BY <2>1, <2>2, <2>3, PurgeKeeps DEF LossIInv, StatsTyped
<1>2. ASSUME NEW e \in End, Sweep(e)
      PROVE  LossIInv'
  <2>1. "Punch" \notin Lites
    BY DEF Lites
  <2> QED
    BY <1>2, <2>1, SendCounts DEF Sweep
<1>3. ASSUME NEW e \in End, GiveUp(e) \/ Lost(e)
      PROVE  LossIInv'
  <2>1. /\ net' = {p \in net : p.from = e} /\ phase'[e] \in {"failed", "lost"}
        /\ \A d \in End : d # e => phase'[d] = phase[d]
    BY <1>3 DEF GiveUp, Lost, StillOnTheirWay, IInv, Typed
  <2>2. \A d \in End : (Alive(d))' => Alive(d) /\ d # e
    BY <2>1 DEF Alive
  <2>3. \A p \in net' : (Alive(Other(p.from)))'
    <3> SUFFICES ASSUME NEW p \in net'
                 PROVE  (Alive(Other(p.from)))'
      OBVIOUS
    <3>1. p.from = e /\ Alive(Other(e)) /\ Other(e) # e
      BY <2>1, OtherIs DEF LossIInv, ToTheLiving
    <3> QED
      BY <1>0, <2>1, <3>1 DEF Alive
  <2>4. \A d \in End : (Alive(Other(d)))' => (OnTheWay(d))' = OnTheWay(d)
    <3> SUFFICES ASSUME NEW d \in End, (Alive(Other(d)))'
                 PROVE  (OnTheWay(d))' = OnTheWay(d)
      OBVIOUS
    <3>1. Other(d) # e
      BY <1>0, <2>2
    <3>2. d = e
      BY <3>1 DEF Other, End
    <3> QED
      BY <2>1, <3>2 DEF OnTheWay
  <2>5. /\ net' \subseteq net /\ copies' = copies
        /\ UNCHANGED <<endpoint, stats, next, window, bad, let_in, moves, losses>>
    BY <1>3, <2>1 DEF GiveUp, Lost
  <2>6. \A d \in End : phase'[d] = "open" => phase[d] = "open"
    BY <2>1
  <2> QED
    BY <1>0, <2>2, <2>3, <2>4, <2>5, <2>6, PurgeKeeps DEF LossIInv, StatsTyped
<1>4. ASSUME NEW e \in End, Move(e)
      PROVE  LossIInv'
  <2>1. /\ net' = {p \in net : p.from = e} /\ moves' = [moves EXCEPT ![e] = @ + 1]
        /\ let_in' = [let_in EXCEPT ![e] = {}]
        /\ UNCHANGED <<phase, endpoint, stats, next, window, bad, losses, copies>>
    BY <1>4 DEF Move, StillOnTheirWay, ends
  <2>2. moves' # moves
    <3>1. moves[e] \in Nat /\ moves'[e] = moves[e] + 1
      BY <2>1 DEF IInv, Typed
    <3> QED
      BY <3>1
  <2>3. \A d : (Alive(d))' = Alive(d)
    BY <2>1 DEF Alive
  <2>4. \A p \in net' : (Alive(Other(p.from)))'
    BY <2>1, <2>3 DEF LossIInv, ToTheLiving
  <2> QED
    BY <1>0, <2>1, <2>2, <2>3, <2>4, PurgeKeeps DEF LossIInv, StatsTyped
<1>5. ASSUME NEW e \in End, NEW kind \in setting.kinds[e], SendLite(e, kind)
      PROVE  LossIInv'
  <2>1. kind \in Lites
    BY HoleLinkAssumption DEF Lites, IInv, Typed
  <2>2. PICK sent : sent = IF kind = "Stats" THEN Counted(e) ELSE 0
    OBVIOUS
  <2>3. /\ Sent(e, Packet(e, endpoint[e], kind, sent), net)
        /\ kind = "Stats" => sent = stats[e].sent
    BY <1>5, <2>2 DEF SendLite, Counted
  <2> QED
    BY <1>5, <2>1, <2>3, SendCounts DEF SendLite
<1>6. ASSUME NEW p \in net, Deliver(p)
      PROVE  LossIInv'
  <2>1. /\ Receive(p, net \ {p}) /\ copies' \subseteq copies \cup {p}
        /\ losses' = IF Fresh(window[Other(p.from)], p.counter) THEN losses ELSE losses + 1
    BY <1>6 DEF Deliver
  <2> QED
    BY <1>6, <2>1, ReceiveCounts DEF Comes
<1>7. ASSUME NEW p \in copies, Repeat(p)
      PROVE  LossIInv'
  <2>1. p \notin net
    BY <1>7 DEF LossIInv, OneEach
  <2> QED
    BY <1>7, <2>1, ReceiveCounts DEF Repeat, Comes
<1>8. ASSUME NEW p \in net, Drop(p)
      PROVE  LossIInv'
  <2>1. /\ net' = net \ {p} /\ copies' = copies
        /\ UNCHANGED <<phase, endpoint, stats, next, window, bad, let_in, moves>>
        /\ losses' = losses \/ losses' = losses + 1
        /\ LetIn(p) => losses' = losses + 1
    BY <1>8 DEF Drop, ends
  <2>2. \A d : (Alive(d))' = Alive(d)
    BY <2>1 DEF Alive
  <2>3. \A q \in net' : (Alive(Other(q.from)))'
    BY <2>1, <2>2 DEF LossIInv, ToTheLiving
  <2>4. CASE Undisturbed /\ losses' = losses
    <3>1. p.kind \notin Lites
      <4>1. ~LetIn(p)
        BY <2>1, <2>4 DEF LossIInv, StatsTyped
      <4>2. AtHome
        BY <2>4 DEF LossIInv
      <4> QED
        BY <4>1, <4>2 DEF LetIn, AtHome
    <3>2. \A d : (OnTheWay(d))' = OnTheWay(d)
      BY <2>1, <3>1 DEF OnTheWay
    <3> QED
      BY <1>0, <2>1, <2>2, <2>3, <3>2, PurgeKeeps DEF LossIInv, StatsTyped
  <2>5. CASE ~(Undisturbed /\ losses' = losses)
    <3>1. ~Undisturbed'
      BY <2>1, <2>5 DEF Undisturbed, LossIInv, StatsTyped
    <3>2. net' \cap copies' = {} /\ \A q \in copies' : ~Fresh(window[Other(q.from)], q.counter)
      BY <2>1 DEF LossIInv, OneEach, KeptAreOld
    <3>3. StatsTyped' /\ OneEach' /\ Unheard' /\ ToTheLiving' /\ SaysNumber' /\ KeptAreOld'
      BY <2>1, <2>3, <3>2, PurgeKeepsRest DEF LossIInv, StatsTyped
    <3> QED
      BY <3>1, <3>3 DEF LossIInv
  <2> QED
    BY <2>4, <2>5
<1> QED
  BY <1>1, <1>2, <1>3, <1>4, <1>5, <1>6, <1>7, <1>8 DEF Next

(* Only a report judges, once, and an end that has lost nothing has received *)
(* what it tells of but for what it has overtaken.                         *)
Judges(e) ==
    \E p \in net \ net' : /\ p.from = Other(e) /\ p.kind = "Stats"
                         /\ 2 * Cardinality(Overtaken(p)) > p.sent

LEMMA ReportJudges ==
    ASSUME IInv, LossIInv, Undisturbed, NEW p \in net, Deliver(p),
           NEW e \in End, bad'[e], ~bad[e]
    PROVE  Judges(e)
<1>1. PICK o : o = Other(p.from)
  OBVIOUS
<1>2. /\ Receive(p, net \ {p}) /\ Comes(p, net \ {p})
  BY DEF Deliver, Comes
<1>3. Fresh(window[o], p.counter) /\ Opened(o, p, net \ {p}) /\ UNCHANGED moves
  BY <1>1, <1>2 DEF Receive
<1>4. o \in End /\ Other(o) = p.from
  BY <1>1, <1>2, ComesFrom
<1>5. e = o /\ p.kind = "Stats" /\ LinkIsBad(p.sent, stats[o].received + 1)
  BY <1>3, <1>4 DEF Opened, LossIInv, StatsTyped
<1>6. p \notin net'
  BY <1>1, <1>2, <1>3, <1>5, AnswerIs
<1>7. p.sent <= stats[o].received + Cardinality(Overtaken(p))
  BY <1>1, <1>5 DEF LossIInv, ReportsFit
<1>8. stats[o].received \in Nat /\ p.sent \in Nat
  BY <1>4, <1>5 DEF IInv, Typed, Count, LossIInv, SaysNumber
<1>9. Cardinality(Overtaken(p)) \in Nat
  <2>1. Overtaken(p) \subseteq net /\ IsFiniteSet(net)
    BY DEF Overtaken, LossIInv, OneEach
  <2> QED
    BY <2>1, FS_Subset, FS_CardinalityType
<1>10. (stats[o].received + 1) * 2 < p.sent
  BY <1>5 DEF LinkIsBad
<1>11. 2 * Cardinality(Overtaken(p)) > p.sent
  BY <1>7, <1>8, <1>9, <1>10
<1> QED
  BY <1>4, <1>5, <1>6, <1>11 DEF Judges

LEMMA OthersDoNotJudge ==
    ASSUME IInv, LossIInv, [Next]_vars, ~\E p \in net : Deliver(p)
    PROVE  bad' = bad
<1>1. ASSUME NEW p \in copies, Repeat(p)
      PROVE  bad' = bad
  <2>1. ~Fresh(window[Other(p.from)], p.counter)
    BY DEF LossIInv, KeptAreOld
  <2> QED
    BY <1>1, <2>1 DEF Repeat, Receive
<1>2. ASSUME NEW e \in End, Sweep(e) \/ GiveUp(e) \/ Lost(e) \/ Move(e)
                               \/ \E kind \in setting.kinds[e] : SendLite(e, kind)
      PROVE  bad' = bad
  BY <1>2 DEF Sweep, GiveUp, Lost, Move, SendLite, ends
<1>3. CASE Tick \/ UNCHANGED vars \/ \E p \in net : Drop(p)
  BY <1>3 DEF Tick, Drop, vars, ends
<1> QED
  BY <1>1, <1>2, <1>3 DEF Next

(* Neither the punches to ports where nobody is nor packets that are late or  *)
(* come twice make a hole a bad one (link_is_bad, multilink.rs): while the   *)
(* network has lost nothing and nobody has moved, a report that judges it    *)
(* has overtaken more than half of what it counts.                         *)
THEOREM BadMeansLossHolds == Spec => BadMeansLoss
<1>1. IInv /\ LossIInv /\ [Next]_vars => LossIInv'
  BY StepLoss
<1>2. ASSUME IInv, LossIInv, [Next]_vars, NEW e \in End, bad'[e], ~bad[e]
      PROVE  losses > 0 \/ Moved \/ Judges(e)
  <2> SUFFICES ASSUME ~(losses > 0), ~Moved
               PROVE  Judges(e)
    OBVIOUS
  <2>1. Undisturbed
    <3>1. losses \in Nat /\ \A d \in End : moves[d] \in Nat
      BY <1>2 DEF LossIInv, StatsTyped, IInv, Typed
    <3>2. \A d \in End : ~(moves[d] > 0)
      BY DEF Moved
    <3> QED
      BY <3>1, <3>2 DEF Undisturbed
  <2>2. \E p \in net : Deliver(p)
    BY <1>2, OthersDoNotJudge
  <2> QED
    BY <1>2, <2>1, <2>2, ReportJudges
<1>3. IInv /\ LossIInv /\ [Next]_vars =>
         [\A e \in End : bad'[e] /\ ~bad[e] =>
            \/ losses > 0 \/ Moved
            \/ \E p \in net \ net' : /\ p.from = Other(e) /\ p.kind = "Stats"
                                     /\ 2 * Cardinality(Overtaken(p)) > p.sent]_vars
  BY <1>2 DEF Judges
<1> QED
  BY <1>1, <1>3, InitLoss, Invariance, PTL DEF Spec, BadMeansLoss

-----------------------------------------------------------------------------
(* P2P mode: both sides with their holes, whatever the policy opens, the     *)
(* broker keeps and the tasks do.                                          *)

P2PHole == [id : Nat, session : Nat \ {0}, phase : Unlinked \cup {"active", "gone"},
            peer : Nat, last : Nat, told : BOOLEAN]
Record == [id : Nat, session : Nat \ {0}]

NumberedOnce(hs) == \A i, j \in DOMAIN hs : hs[i].id = hs[j].id => i = j

(* The sessions of a side are numbered as they are opened.                 *)
SessionsPast(hs, n) == \A i \in DOMAIN hs : hs[i].session <= n

(* A record that was answered has a hole, or its hole was remembered.      *)
AnswerStands(q, hs, ended) ==
    q \in ended \/ \E i \in DOMAIN hs : q = <<hs[i].id, hs[i].last>>

(* What a memory stands for: once it is full a side may have forgotten any.  *)
Covered(memory) == IF Len(memory) < CLOSED_MEMORY THEN ToSet(memory) ELSE Nat \X Nat

SideFits(s) ==
    /\ NumberedOnce(holes[s]) /\ SessionsPast(holes[s], opened[s])
    /\ \A q \in served[s] : q[2] # NoSession /\ AnswerStands(q, holes[s], Covered(closed[s]))

SidesTyped ==
    /\ holes \in [Side -> Seq(P2PHole)]
    /\ closed \in [Side -> Seq(Nat \X Nat)] /\ DOMAIN served = Side
    /\ next_id \in [Side -> Nat] /\ opened \in [Side -> Nat]
    /\ DOMAIN grace = Side
    /\ broker \in [Side -> SUBSET Record] /\ DOMAIN seen = Side

SidesIInv == SidesTyped /\ \A s \in Side : SideFits(s)

LEMMA OtherSideIs ==
    ASSUME NEW s \in Side
    PROVE  OtherSide(s) \in Side /\ OtherSide(s) # s /\ \A d \in Side : d = s \/ d = OtherSide(s)
BY DEF OtherSide, Side

(* A hole that is forgotten: the others stay, in their order.              *)
LEMMA WithoutIs ==
    ASSUME NEW S, NEW list \in Seq(S), NEW k \in DOMAIN list
    PROVE  /\ RemoveAt(list, k) \in Seq(S) /\ Len(RemoveAt(list, k)) = Len(list) - 1
           /\ \A i \in 1 .. Len(list) - 1 :
                 RemoveAt(list, k)[i] = IF i < k THEN list[i] ELSE list[i + 1]
<1> DEFINE n == Len(list)
           a == SubSeq(list, 1, k - 1)
           b == SubSeq(list, k + 1, n)
<1>0. n \in Nat /\ DOMAIN list = 1 .. n /\ k \in 1 .. n
  OBVIOUS
<1>1. a \in Seq(S) /\ Len(a) = k - 1 /\ \A i \in 1 .. k - 1 : a[i] = list[i]
  BY <1>0
<1>2. b \in Seq(S) /\ Len(b) = n - k /\ \A i \in 1 .. n - k : b[i] = list[i + k]
  BY <1>0
<1> HIDE DEF a, b
<1>3. /\ a \o b \in Seq(S) /\ Len(a \o b) = n - 1
      /\ \A i \in 1 .. n - 1 : (a \o b)[i] = IF i < k THEN list[i] ELSE list[i + 1]
  <2>0. /\ a \o b \in Seq(S) /\ Len(a \o b) = Len(a) + Len(b)
        /\ \A i \in 1 .. Len(a) + Len(b) :
              (a \o b)[i] = IF i <= Len(a) THEN a[i] ELSE b[i - Len(a)]
    <3>1. a \in Seq(S) /\ b \in Seq(S)
      BY <1>1, <1>2
    <3> QED
      BY <3>1, ConcatProperties
  <2>a. Len(a) = k - 1 /\ Len(a) + Len(b) = n - 1
    BY <1>0, <1>1, <1>2
  <2>1. a \o b \in Seq(S) /\ Len(a \o b) = n - 1
    BY <2>0, <2>a, Zenon
  <2>2. ASSUME NEW i \in 1 .. n - 1
        PROVE  (a \o b)[i] = IF i <= k - 1 THEN a[i] ELSE b[i - (k - 1)]
    BY <2>0, <2>a, Zenon
  <2>3. \A i \in 1 .. n - 1 : i >= k => i - (k - 1) \in 1 .. n - k
    BY <1>0
  <2>4. ASSUME NEW i \in 1 .. n - 1, i >= k
        PROVE  b[i - (k - 1)] = list[i + 1]
    <3>1. b[i - (k - 1)] = list[i - (k - 1) + k]
      BY <1>2, <2>3, <2>4, Zenon
    <3>2. i - (k - 1) + k = i + 1
      BY <1>0
    <3> QED
      BY <3>1, <3>2
  <2> QED
    BY <1>0, <1>1, <2>1, <2>2, <2>4
<1>4. RemoveAt(list, k) = a \o b
  BY DEF RemoveAt, a, b
<1> QED
  BY <1>3, <1>4

(* The places of the new list in the old one, all of them but k.           *)
LeavesOut(new, list, k, at) ==
    /\ at \in [DOMAIN new -> DOMAIN list \ {k}]
    /\ \A i, j \in DOMAIN new : at[i] = at[j] => i = j
    /\ \A i \in DOMAIN new : new[i] = list[at[i]]
    /\ \A j \in DOMAIN list \ {k} : \E i \in DOMAIN new : at[i] = j

LEMMA LeftIs ==
    ASSUME NEW list \in Seq(P2PHole), NEW k \in DOMAIN list
    PROVE  Left(list, k) \in Seq(P2PHole) /\ \E at : LeavesOut(Left(list, k), list, k, at)
<1> DEFINE new == Left(list, k)
           n == Len(list)
<1>0. n \in Nat /\ DOMAIN list = 1 .. n /\ k \in 1 .. n
  OBVIOUS
<1>1. /\ new \in Seq(P2PHole) /\ Len(new) = n - 1
      /\ \A i \in 1 .. n - 1 : new[i] = IF i < k THEN list[i] ELSE list[i + 1]
  BY WithoutIs DEF Left
<1>2. DOMAIN new = 1 .. n - 1
  <2>1. DOMAIN new = 1 .. Len(new)
    BY <1>1
  <2> QED
    BY <1>1, <2>1
<1> HIDE DEF new
<1>3. PICK at : at = [i \in 1 .. n - 1 |-> IF i < k THEN i ELSE i + 1]
  OBVIOUS
<1>4. at \in [1 .. n - 1 -> 1 .. n \ {k}]
  BY <1>0, <1>3
<1>5. \A i, j \in 1 .. n - 1 : at[i] = at[j] => i = j
  BY <1>0, <1>3
<1>6. \A i \in 1 .. n - 1 : new[i] = list[at[i]]
  BY <1>0, <1>1, <1>3
<1>7. \A j \in 1 .. n \ {k} : \E i \in 1 .. n - 1 : at[i] = j
  <2> SUFFICES ASSUME NEW j \in 1 .. n \ {k}
               PROVE  \E i \in 1 .. n - 1 : at[i] = j
    OBVIOUS
  <2>1. CASE j < k
    <3>1. j \in 1 .. n - 1 /\ at[j] = j
      BY <1>0, <1>3, <2>1
    <3> QED
      BY <3>1
  <2>2. CASE j > k
    <3>1. j - 1 \in 1 .. n - 1 /\ ~(j - 1 < k)
      BY <1>0, <2>2
    <3>2. at[j - 1] = j
      BY <1>0, <1>3, <3>1
    <3> QED
      BY <3>1, <3>2
  <2> QED
    BY <1>0, <2>1, <2>2
<1>8. LeavesOut(new, list, k, at)
  BY <1>0, <1>2, <1>4, <1>5, <1>6, <1>7 DEF LeavesOut
<1> QED
  BY <1>1, <1>8 DEF new

Fits(hs, ended, answers, n) ==
    /\ NumberedOnce(hs) /\ SessionsPast(hs, n)
    /\ \A q \in answers : q[2] # NoSession /\ AnswerStands(q, hs, ended)

(* A hole is told apart by its number, its session and the last of the peer. *)
Alike(new, hs) ==
    /\ DOMAIN new = DOMAIN hs
    /\ \A i \in DOMAIN hs : /\ new[i].id = hs[i].id /\ new[i].session = hs[i].session
                            /\ new[i].last = hs[i].last

LEMMA AlikeFits ==
    ASSUME NEW hs, NEW new, NEW ended, NEW answers, NEW n,
           Alike(new, hs), Fits(hs, ended, answers, n)
    PROVE  Fits(new, ended, answers, n)
<1>1. NumberedOnce(new) /\ SessionsPast(new, n)
  BY DEF Fits, Alike, NumberedOnce, SessionsPast
<1>2. ASSUME NEW q \in answers
      PROVE  q[2] # NoSession /\ AnswerStands(q, new, ended)
  BY DEF Fits, Alike, AnswerStands
<1> QED
  BY <1>1, <1>2 DEF Fits

Unused(id, hs) == \A i \in DOMAIN hs : hs[i].id # id

(* What is known when a side opens a hole beside hs, and what comes of it.   *)
Opens(hs, n, id, last, new) ==
    /\ hs \in Seq(P2PHole) /\ n \in Nat /\ id \in Nat /\ last \in Nat /\ Unused(id, hs)
    /\ new = Append(hs, Hole(id, n + 1, last))
IsOpened(hs, n, id, last, new) ==
    /\ new \in Seq(P2PHole)
    /\ DOMAIN new = 1 .. Len(hs) + 1 /\ new[Len(hs) + 1] = Hole(id, n + 1, last)
    /\ \A i \in DOMAIN hs : new[i] = hs[i]
MayAnswer(more, id, last) == \A q \in more : q = <<id, last>> /\ last # NoSession

LEMMA SpawnFits ==
    ASSUME NEW hs, NEW ended, NEW answers, NEW n, NEW id, NEW last, NEW more, NEW added,
           Opens(hs, n, id, last, added), Fits(hs, ended, answers, n), MayAnswer(more, id, last)
    PROVE  IsOpened(hs, n, id, last, added) /\ Fits(added, ended, answers \cup more, n + 1)
<1>0. hs \in Seq(P2PHole) /\ n \in Nat /\ id \in Nat /\ last \in Nat /\ Unused(id, hs)
  BY DEF Opens
<1>1. PICK h : h = Hole(id, n + 1, last)
  OBVIOUS
<1>2. h \in P2PHole /\ h.id = id /\ h.session = n + 1 /\ h.last = last
  BY <1>0, <1>1 DEF Hole, P2PHole, Unlinked, NoSession
<1> DEFINE new == Append(hs, h)
           m == Len(hs)
<1>3. m \in Nat /\ DOMAIN hs = 1 .. m
  BY <1>0
<1>4. /\ new \in Seq(P2PHole) /\ DOMAIN new = 1 .. m + 1 /\ new[m + 1] = h
      /\ \A i \in 1 .. m : new[i] = hs[i]
  <2>1. new \in Seq(P2PHole) /\ Len(new) = m + 1
    BY <1>0, <1>2, AppendProperties
  <2>2. new[m + 1] = h /\ \A i \in 1 .. m : new[i] = hs[i]
    BY <1>0, <1>2, AppendProperties
  <2> QED
    BY <2>1, <2>2
<1> HIDE DEF new
<1>5. NumberedOnce(new)
  BY <1>0, <1>2, <1>3, <1>4 DEF Fits, NumberedOnce, Unused
<1>6. SessionsPast(new, n + 1)
  <2>1. \A i \in 1 .. m : hs[i].session <= n /\ hs[i].session \in Nat
    <3>1. \A i \in 1 .. m : hs[i] \in P2PHole
      BY <1>0, <1>3
    <3> QED
      BY <1>3, <3>1 DEF Fits, SessionsPast, P2PHole
  <2> QED
    BY <1>0, <1>2, <1>3, <1>4, <2>1 DEF SessionsPast
<1>7. ASSUME NEW q \in answers \cup more
      PROVE  q[2] # NoSession /\ AnswerStands(q, new, ended)
  <2>1. CASE q \in answers
    <3>1. \A i \in DOMAIN hs : i \in DOMAIN new /\ new[i] = hs[i]
      BY <1>3, <1>4
    <3> QED
      BY <2>1, <3>1 DEF Fits, AnswerStands
  <2>2. CASE q \in more
    <3>1. m + 1 \in DOMAIN new /\ q = <<new[m + 1].id, new[m + 1].last>>
      BY <1>2, <1>3, <1>4, <2>2 DEF MayAnswer
    <3>2. q[2] = last /\ last # NoSession
      BY <2>2 DEF MayAnswer
    <3> QED
      BY <3>1, <3>2 DEF AnswerStands
  <2> QED
    BY <2>1, <2>2
<1>8. /\ new \in Seq(P2PHole) /\ Fits(new, ended, answers \cup more, n + 1)
      /\ DOMAIN new = 1 .. m + 1 /\ new[m + 1] = h
      /\ \A i \in DOMAIN hs : new[i] = hs[i]
  BY <1>3, <1>4, <1>5, <1>6, <1>7 DEF Fits
<1> QED
  BY <1>1, <1>8 DEF new, Opens, IsOpened

(* A hole is forgotten: an answer to it is remembered.                     *)
LEMMA LeftFits ==
    ASSUME NEW hs \in Seq(P2PHole), NEW ended, NEW answers, NEW n, Fits(hs, ended, answers, n),
           NEW k \in DOMAIN hs, NEW remembered,
           ended \subseteq remembered,
           hs[k].last # NoSession => <<hs[k].id, hs[k].last>> \in remembered
    PROVE  Left(hs, k) \in Seq(P2PHole) /\ Fits(Left(hs, k), remembered, answers, n)
<1> DEFINE new == Left(hs, k)
<1>1. new \in Seq(P2PHole) /\ \E at : LeavesOut(new, hs, k, at)
  BY LeftIs
<1>2. PICK at : LeavesOut(new, hs, k, at)
  BY <1>1
<1> HIDE DEF new
<1>3. NumberedOnce(new) /\ SessionsPast(new, n)
  BY <1>2 DEF LeavesOut, Fits, NumberedOnce, SessionsPast
<1>4. ASSUME NEW q \in answers
      PROVE  q[2] # NoSession /\ AnswerStands(q, new, remembered)
  <2>1. q[2] # NoSession /\ AnswerStands(q, hs, ended)
    BY DEF Fits
  <2>2. CASE q \in ended
    BY <2>1, <2>2 DEF AnswerStands
  <2>3. CASE q \notin ended
    <3>1. PICK j \in DOMAIN hs : q = <<hs[j].id, hs[j].last>>
      BY <2>1, <2>3 DEF AnswerStands
    <3>2. CASE j = k
      <4>1. hs[k].last # NoSession
        BY <2>1, <3>1, <3>2
      <4> QED
        BY <2>1, <3>1, <3>2, <4>1 DEF AnswerStands
    <3>3. CASE j # k
      <4>1. PICK i \in DOMAIN new : at[i] = j
        BY <1>2, <3>3 DEF LeavesOut
      <4> QED
        BY <1>2, <2>1, <3>1, <4>1 DEF AnswerStands, LeavesOut
    <3> QED
      BY <3>2, <3>3
  <2> QED
    BY <2>2, <2>3
<1> QED
  BY <1>1, <1>3, <1>4 DEF Fits, new

LEMMA LeastNumber ==
    ASSUME NEW S \in SUBSET Nat, S # {}
    PROVE  Min(S) \in S
<1> DEFINE Less == OpToRel(<, Nat)
<1>1. IsWellFoundedOn(Less, Nat)
  BY NatLessThanWellFounded
<1>2. PICK x \in S : \A y \in S : <<y, x>> \notin Less
  <2> HIDE DEF Less
  <2> QED
    BY <1>1, WFMin, Zenon
<1>3. \A y \in S : ~(y < x)
  BY <1>2 DEF OpToRel
<1>4. \A y \in S : x <= y
  BY <1>3
<1> QED
  BY <1>4 DEF Min

LEMMA RoomIs ==
    ASSUME NEW first \in Nat, NEW last \in Nat, first <= last + 1
    PROVE  IsFiniteSet(first .. last) /\ Cardinality(first .. last) = last - first + 1
<1>1. first \in Int /\ last \in Int
  OBVIOUS
<1>2. /\ IsFiniteSet(first .. last)
      /\ Cardinality(first .. last) = IF first > last THEN 0 ELSE last - first + 1
  BY <1>1, FS_Interval
<1> QED
  BY <1>2

LEMMA FreeIdIs ==
    ASSUME NEW s \in Side, next_id[s] \in Nat, NEW hs \in Seq(P2PHole)
    PROVE  FreeId(s, hs) \in Nat /\ \A i \in DOMAIN hs : hs[i].id # FreeId(s, hs)
<1> DEFINE n == Len(hs)
           taken == {hs[i].id : i \in DOMAIN hs}
           room == next_id[s] .. next_id[s] + n
           ids == [i \in DOMAIN hs |-> hs[i].id]
<1>1. n \in Nat /\ DOMAIN hs = 1 .. n
  OBVIOUS
<1>2. IsFiniteSet(1 .. n) /\ Cardinality(1 .. n) = n
  <2>1. 1 \in Nat /\ 1 <= n + 1
    BY <1>1
  <2>2. Cardinality(1 .. n) = n - 1 + 1 /\ IsFiniteSet(1 .. n)
    BY <1>1, <2>1, RoomIs
  <2> QED
    BY <1>1, <2>2
<1>3. ids \in Surjection(1 .. n, taken)
  BY <1>1 DEF Surjection
<1>4. IsFiniteSet(taken) /\ Cardinality(taken) <= n
  BY <1>2, <1>3, FS_Surjection
<1>5. IsFiniteSet(room) /\ Cardinality(room) = n + 1
  <2>1. PICK first, last \in Nat : first = next_id[s] /\ last = first + n
    BY <1>1
  <2>2. first <= last + 1
    BY <1>1, <2>1
  <2>3. Cardinality(first .. last) = last - first + 1 /\ IsFiniteSet(first .. last)
    BY <2>2, RoomIs
  <2> QED
    BY <1>1, <2>1, <2>3
<1>6. PICK x : x \in room \ taken
  <2>1. SUFFICES ASSUME room \subseteq taken
                 PROVE  FALSE
    OBVIOUS
  <2>2. Cardinality(room) <= Cardinality(taken)
    BY <1>4, <2>1, FS_Subset
  <2>3. Cardinality(taken) \in Nat
    BY <1>4, FS_CardinalityType
  <2> QED
    BY <1>1, <1>4, <1>5, <2>2, <2>3
<1> HIDE DEF taken
<1>7. room \ taken \subseteq Nat
  BY <1>1
<1>8. PICK S : S = room \ taken
  OBVIOUS
<1>9. FreeId(s, hs) = Min(S)
  BY <1>8 DEF FreeId, taken
<1>10. Min(S) \in S
  BY <1>6, <1>7, <1>8, LeastNumber
<1> QED
  BY <1>7, <1>8, <1>9, <1>10 DEF taken

-----------------------------------------------------------------------------
(* What an action does to the sides.                                       *)

(* A hole that a side opens now for a record of the peer answers none it has *)
(* answered before.                                                        *)
FreshAnswers ==
    \A s \in Side : \A i \in DOMAIN holes'[s] :
        LET h == holes'[s][i]
        IN  h.session > opened[s] /\ h.last # NoSession /\ Len(closed[s]) < CLOSED_MEMORY
               => <<h.id, h.last>> \notin served[s]

LEMMA TypedHere ==
    ASSUME SidesIInv, NEW s \in Side
    PROVE  /\ holes[s] \in Seq(P2PHole) /\ Fits(holes[s], Covered(closed[s]), served[s], opened[s])
           /\ next_id[s] \in Nat /\ opened[s] \in Nat
BY DEF SidesIInv, SidesTyped, SideFits, Fits

(* The holes of a side keep what tells them apart.                         *)
LEMMA NoneIsNew ==
    ASSUME NEW s \in Side, holes[s] \in Seq(P2PHole), NEW new, Alike(new, holes[s]),
           NEW n \in Nat, SessionsPast(holes[s], n), NEW i \in DOMAIN new
    PROVE  ~(new[i].session > n)
<1>1. i \in DOMAIN holes[s] /\ new[i].session = holes[s][i].session
  BY DEF Alike
<1>2. holes[s][i] \in P2PHole
  BY <1>1
<1> QED
  BY <1>1, <1>2 DEF SessionsPast, P2PHole

AllAlike == \A s \in Side : holes'[s] \in Seq(P2PHole) /\ Alike(holes'[s], holes[s])

LEMMA AlikeKeep ==
    ASSUME SidesIInv, AllAlike, holes' \in [Side -> Seq(P2PHole)], UNCHANGED core,
           broker' \in [Side -> SUBSET Record], DOMAIN seen' = Side
    PROVE  SidesIInv' /\ FreshAnswers
<1>1. UNCHANGED <<closed, next_id, grace, opened, served>>
  BY DEF core
<1>3. SidesTyped'
  BY <1>1 DEF SidesIInv, SidesTyped
<1>4. ASSUME NEW s \in Side
      PROVE  SideFits(s)'
  <2>1. Fits(holes'[s], Covered(closed[s]), served[s], opened[s])
    BY TypedHere, AlikeFits DEF AllAlike
  <2> QED
    BY <1>1, <2>1 DEF SideFits, Fits
<1>5. FreshAnswers
  <2>1. ASSUME NEW s \in Side, NEW i \in DOMAIN holes'[s]
        PROVE  ~(holes'[s][i].session > opened[s])
    <3>1. SessionsPast(holes[s], opened[s])
      BY TypedHere DEF Fits
    <3> QED
      BY <3>1, TypedHere, NoneIsNew DEF AllAlike
  <2> QED
    BY <2>1 DEF FreshAnswers
<1> QED
  BY <1>3, <1>4, <1>5 DEF SidesIInv

LEMMA SelfAlike ==
    ASSUME NEW hs
    PROVE  Alike(hs, hs)
BY DEF Alike

(* A hole goes on to another phase.                                        *)
LEMMA TurnsAlike ==
    ASSUME SidesIInv, NEW s \in Side, NEW i \in DOMAIN holes[s],
           NEW turn \in {"active", "gone"}, Turns(s, i, turn)
    PROVE  AllAlike /\ holes' \in [Side -> Seq(P2PHole)]
<1>1. holes \in [Side -> Seq(P2PHole)]
  BY DEF SidesIInv, SidesTyped
<1>2. holes[s] \in Seq(P2PHole) /\ holes[s][i] \in P2PHole
  BY <1>1
<1>3. PICK h : h = [holes[s][i] EXCEPT !.phase = turn]
  OBVIOUS
<1>4. /\ h \in P2PHole /\ h.id = holes[s][i].id /\ h.session = holes[s][i].session
      /\ h.last = holes[s][i].last
  BY <1>2, <1>3 DEF P2PHole
<1>5. PICK new : new = [holes[s] EXCEPT ![i] = h]
  OBVIOUS
<1>6. holes' = [holes EXCEPT ![s] = new]
  BY <1>1, <1>3, <1>5 DEF Turns
<1>7. new \in Seq(P2PHole)
  BY <1>2, <1>4, <1>5
<1>8. Alike(new, holes[s])
  BY <1>2, <1>4, <1>5 DEF Alike
<1>9. ASSUME NEW d \in Side
      PROVE  holes'[d] \in Seq(P2PHole) /\ Alike(holes'[d], holes[d])
  <2>1. CASE d = s
    BY <1>1, <1>6, <1>7, <1>8, <2>1
  <2>2. CASE d # s
    BY <1>1, <1>6, <2>2, SelfAlike
  <2> QED
    BY <2>1, <2>2
<1> QED
  BY <1>1, <1>6, <1>9 DEF AllAlike

(* One side has other holes; those of the other are alike.                 *)
NewHoles(s, new, n, answers) ==
    /\ new \in Seq(P2PHole) /\ n \in Nat
    /\ Fits(new, Covered(closed'[s]), answers, n)
    /\ \A i \in DOMAIN new :
          new[i].session > opened[s] /\ new[i].last # NoSession /\ Len(closed[s]) < CLOSED_MEMORY
             => <<new[i].id, new[i].last>> \notin served[s]

LEMMA OneSideKeeps ==
    ASSUME SidesIInv, NEW s \in Side, NEW n, NEW answers, NewHoles(s, holes'[s], n, answers),
           holes' \in [Side -> Seq(P2PHole)], closed' \in [Side -> Seq(Nat \X Nat)],
           \A d \in Side \ {s} : /\ holes'[d] \in Seq(P2PHole) /\ Alike(holes'[d], holes[d])
                                 /\ closed'[d] = closed[d] /\ served'[d] = served[d],
           opened' = [opened EXCEPT ![s] = n], served'[s] = answers, DOMAIN served' = Side,
           next_id' \in [Side -> Nat], DOMAIN grace' = Side,
           broker' \in [Side -> SUBSET Record], DOMAIN seen' = Side
    PROVE  SidesIInv' /\ FreshAnswers
<1>1. opened \in [Side -> Nat] /\ n \in Nat
  BY DEF SidesIInv, SidesTyped, NewHoles
<1>3. SidesTyped'
  BY <1>1 DEF SidesTyped
<1>4. ASSUME NEW d \in Side
      PROVE  SideFits(d)'
  <2>1. CASE d = s
    <3>1. opened'[d] = n /\ served'[d] = answers
      BY <1>1, <2>1
    <3> QED
      BY <2>1, <3>1 DEF SideFits, Fits, NewHoles
  <2>2. CASE d # s
    <3>1. opened'[d] = opened[d] /\ served'[d] = served[d] /\ closed'[d] = closed[d]
      BY <1>1, <2>2
    <3>2. Fits(holes'[d], Covered(closed[d]), served[d], opened[d])
      BY <2>2, TypedHere, AlikeFits
    <3> QED
      BY <3>1, <3>2 DEF SideFits, Fits
  <2> QED
    BY <2>1, <2>2
<1>5. FreshAnswers
  <2>1. ASSUME NEW d \in Side \ {s}, NEW i \in DOMAIN holes'[d]
        PROVE  ~(holes'[d][i].session > opened[d])
    <3>1. SessionsPast(holes[d], opened[d])
      BY TypedHere DEF Fits
    <3> QED
      BY <3>1, TypedHere, NoneIsNew
  <2> QED
    BY <2>1 DEF FreshAnswers, NewHoles
<1> QED
  BY <1>3, <1>4, <1>5 DEF SidesIInv

(* The holes that stay are none the side opens now.                        *)
LEMMA KeptHoles ==
    ASSUME SidesIInv, NEW s \in Side, NEW hs \in Seq(P2PHole),
           Fits(hs, Covered(closed'[s]), served[s], opened[s])
    PROVE  NewHoles(s, hs, opened[s], served[s])
<1>1. opened[s] \in Nat
  BY TypedHere
<1>2. ASSUME NEW i \in DOMAIN hs
      PROVE  ~(hs[i].session > opened[s])
  <2>1. hs[i] \in P2PHole
    OBVIOUS
  <2>2. hs[i].session <= opened[s]
    BY DEF Fits, SessionsPast
  <2> QED
    BY <1>1, <2>1, <2>2 DEF P2PHole
<1> QED
  BY <1>1, <1>2 DEF NewHoles

Evaluated(s) ==
    /\ \E new, n : /\ NewHoles(s, new, n, served[s])
                   /\ holes' = [holes EXCEPT ![s] = new]
                   /\ opened' = [opened EXCEPT ![s] = n]
    /\ next_id' \in [Side -> Nat]

LEMMA EvaluateIs ==
    ASSUME SidesIInv, NEW s \in Side, NEW hs \in Seq(P2PHole),
           Fits(hs, Covered(closed'[s]), served[s], opened[s]), Evaluate(s, hs)
    PROVE  Evaluated(s)
<1>0. /\ opened \in [Side -> Nat] /\ next_id \in [Side -> Nat]
      /\ opened[s] \in Nat /\ next_id[s] \in Nat
  BY DEF SidesIInv, SidesTyped
<1>1. PICK n : n = opened[s]
  OBVIOUS
<1>2. PICK id : id = FreeId(s, hs)
  OBVIOUS
<1>3. id \in Nat /\ \A i \in DOMAIN hs : hs[i].id # id
  BY <1>0, <1>2, FreeIdIs
<1>4. CASE /\ holes' = [holes EXCEPT ![s] = Spawn(s, hs, id, NoSession)]
           /\ opened' = [opened EXCEPT ![s] = @ + 1]
           /\ next_id' = [next_id EXCEPT ![s] = id + 1]
  <2>1. PICK new : new = Append(hs, Hole(id, n + 1, NoSession))
    OBVIOUS
  <2>2. Spawn(s, hs, id, NoSession) = new
    BY <1>1, <2>1 DEF Spawn
  <2>3. n \in Nat /\ NoSession \in Nat
    BY <1>0, <1>1 DEF NoSession
  <2>a. Fits(hs, Covered(closed'[s]), served[s], n)
    BY <1>1
  <2>4. /\ new \in Seq(P2PHole) /\ Fits(new, Covered(closed'[s]), served[s] \cup {}, n + 1)
        /\ DOMAIN new = 1 .. Len(hs) + 1 /\ new[Len(hs) + 1] = Hole(id, n + 1, NoSession)
        /\ \A i \in DOMAIN hs : new[i] = hs[i]
    <3>1. Opens(hs, n, id, NoSession, new)
      BY <1>3, <2>1, <2>3 DEF Opens, Unused
    <3>2. MayAnswer({}, id, NoSession)
      BY DEF MayAnswer
    <3>3. /\ IsOpened(hs, n, id, NoSession, new)
          /\ Fits(new, Covered(closed'[s]), served[s] \cup {}, n + 1)
      BY <2>a, <3>1, <3>2, SpawnFits, Zenon
    <3> QED
      BY <3>3 DEF IsOpened
  <2>5. served[s] \cup {} = served[s]
    OBVIOUS
  <2>6. ASSUME NEW i \in DOMAIN new
        PROVE  new[i].session > opened[s] => new[i].last = NoSession
    <3>1. CASE i = Len(hs) + 1
      BY <2>4, <3>1 DEF Hole
    <3>2. CASE i # Len(hs) + 1
      <4>1. i \in DOMAIN hs /\ new[i] = hs[i] /\ hs[i] \in P2PHole
        BY <2>4, <3>2
      <4>2. hs[i].session <= opened[s] /\ hs[i].session \in Nat
        BY <4>1 DEF Fits, SessionsPast, P2PHole
      <4> QED
        BY <1>0, <4>1, <4>2
    <3> QED
      BY <3>1, <3>2
  <2>7. NewHoles(s, new, n + 1, served[s])
    BY <2>3, <2>4, <2>5, <2>6 DEF NewHoles
  <2>8. next_id' \in [Side -> Nat]
    BY <1>0, <1>3, <1>4
  <2> QED
    BY <1>1, <1>4, <2>2, <2>7, <2>8 DEF Evaluated
<1>5. CASE holes' = [holes EXCEPT ![s] = hs] /\ UNCHANGED <<opened, next_id>>
  <2>1. NewHoles(s, hs, n, served[s])
    BY <1>1, KeptHoles
  <2>2. opened' = [opened EXCEPT ![s] = n]
    BY <1>0, <1>1, <1>5
  <2> QED
    BY <1>0, <1>5, <2>1, <2>2 DEF Evaluated
<1>6. \/ /\ holes' = [holes EXCEPT ![s] = Spawn(s, hs, id, NoSession)]
         /\ opened' = [opened EXCEPT ![s] = @ + 1]
         /\ next_id' = [next_id EXCEPT ![s] = id + 1]
      \/ holes' = [holes EXCEPT ![s] = hs] /\ UNCHANGED <<opened, next_id>>
  BY <1>2 DEF Evaluate
<1> QED
  BY <1>4, <1>5, <1>6

LEMMA EvaluatedKeeps ==
    ASSUME SidesIInv, NEW s \in Side, Evaluated(s), closed' \in [Side -> Seq(Nat \X Nat)],
           \A d \in Side \ {s} : closed'[d] = closed[d],
           UNCHANGED <<grace, served, broker, seen>>
    PROVE  SidesIInv' /\ FreshAnswers
<1>1. PICK new, n : /\ NewHoles(s, new, n, served[s])
                    /\ holes' = [holes EXCEPT ![s] = new]
                    /\ opened' = [opened EXCEPT ![s] = n]
  BY DEF Evaluated
<1>2. /\ holes \in [Side -> Seq(P2PHole)] /\ DOMAIN served = Side
      /\ DOMAIN grace = Side /\ broker \in [Side -> SUBSET Record] /\ DOMAIN seen = Side
  BY DEF SidesIInv, SidesTyped
<1>3. holes' \in [Side -> Seq(P2PHole)] /\ holes'[s] = new
  BY <1>1, <1>2 DEF NewHoles
<1>4. \A d \in Side \ {s} : holes'[d] \in Seq(P2PHole) /\ Alike(holes'[d], holes[d])
  BY <1>1, <1>2, SelfAlike
<1>5. served' = served
  OBVIOUS
<1> QED
  BY <1>1, <1>2, <1>3, <1>4, <1>5, OneSideKeeps DEF Evaluated

LEMMA ManageKeeps ==
    ASSUME SidesIInv, NEW s \in Side, Manage(s)
    PROVE  SidesIInv' /\ FreshAnswers
<1>1. UNCHANGED <<closed, grace, served, broker, seen>> /\ Evaluate(s, holes[s])
  BY DEF Manage
<1>2. Fits(holes[s], Covered(closed'[s]), served[s], opened[s]) /\ holes[s] \in Seq(P2PHole)
  BY <1>1, TypedHere
<1>3. Evaluated(s)
  BY <1>1, <1>2, EvaluateIs
<1>4. closed' \in [Side -> Seq(Nat \X Nat)]
  BY <1>1 DEF SidesIInv, SidesTyped
<1> QED
  BY <1>1, <1>3, <1>4, EvaluatedKeeps

LEMMA RememberedIs ==
    ASSUME SidesIInv, NEW s \in Side, NEW i \in DOMAIN holes[s]
    PROVE  LET h == holes[s][i]
           IN  /\ Remembered(s, h) \in Seq(Nat \X Nat)
               /\ Covered(closed[s]) \subseteq Covered(Remembered(s, h))
               /\ h.last # NoSession => <<h.id, h.last>> \in Covered(Remembered(s, h))
<1>1. PICK memory, pair : memory = closed[s] /\ pair = <<holes[s][i].id, holes[s][i].last>>
  OBVIOUS
<1>2. memory \in Seq(Nat \X Nat)
  BY <1>1 DEF SidesIInv, SidesTyped
<1>3. pair \in Nat \X Nat
  <2>1. holes[s][i] \in P2PHole
    BY TypedHere
  <2> QED
    BY <1>1, <2>1 DEF P2PHole
<1>4. CLOSED_MEMORY \in Nat \ {0}
  BY P2PAssumption
<1>5. CASE holes[s][i].last = NoSession
  <2>1. Remembered(s, holes[s][i]) = memory
    BY <1>1, <1>5 DEF Remembered
  <2> QED
    BY <1>1, <1>2, <1>5, <2>1
<1>6. CASE holes[s][i].last # NoSession
  <2>1. PICK more : more = Append(memory, pair)
    OBVIOUS
  <2>2. /\ more \in Seq(Nat \X Nat) /\ Len(more) = Len(memory) + 1 /\ Len(memory) \in Nat
        /\ more[Len(memory) + 1] = pair /\ \A j \in 1 .. Len(memory) : more[j] = memory[j]
    BY <1>2, <1>3, <2>1, AppendProperties
  <2>3. Remembered(s, holes[s][i]) = Recent(more)
    BY <1>1, <1>6, <2>1 DEF Remembered
  <2>4. CASE Len(memory) + 1 < CLOSED_MEMORY
    <3>1. Recent(more) = more
      BY <1>4, <2>2, <2>4 DEF Recent
    <3>2. Covered(memory) = ToSet(memory) /\ Covered(more) = ToSet(more)
      BY <1>4, <2>2, <2>4 DEF Covered
    <3>3. pair \in ToSet(more) /\ ToSet(memory) \subseteq ToSet(more)
      <4>1. DOMAIN more = 1 .. Len(memory) + 1 /\ DOMAIN memory = 1 .. Len(memory)
        BY <1>2, <2>2
      <4>2. pair \in ToSet(more)
        BY <2>2, <4>1 DEF ToSet
      <4>3. ASSUME NEW j \in DOMAIN memory
            PROVE  memory[j] \in ToSet(more)
        <5>1. j \in DOMAIN more /\ memory[j] = more[j]
          BY <2>2, <4>1
        <5> QED
          BY <5>1 DEF ToSet
      <4> QED
        BY <4>2, <4>3 DEF ToSet
    <3> QED
      BY <1>1, <2>2, <2>3, <3>1, <3>2, <3>3
  <2>5. CASE ~(Len(memory) + 1 < CLOSED_MEMORY)
    <3>1. Recent(more) \in Seq(Nat \X Nat) /\ ~(Len(Recent(more)) < CLOSED_MEMORY)
      <4>1. CASE Len(more) > CLOSED_MEMORY
        <5>1. more # <<>>
          BY <2>2
        <5>2. Tail(more) \in Seq(Nat \X Nat) /\ Len(Tail(more)) = Len(more) - 1
          BY <2>2, <5>1, HeadTailProperties
        <5> QED
          BY <1>4, <2>2, <4>1, <5>2 DEF Recent
      <4>2. CASE ~(Len(more) > CLOSED_MEMORY)
        BY <1>4, <2>2, <2>5, <4>2 DEF Recent
      <4> QED
        BY <4>1, <4>2
    <3>2. Covered(Recent(more)) = Nat \X Nat
      BY <3>1 DEF Covered
    <3>3. Covered(memory) \subseteq Nat \X Nat
      BY <1>2 DEF Covered, ToSet
    <3> QED
      BY <1>1, <1>3, <2>3, <3>1, <3>2, <3>3
  <2> QED
    BY <2>4, <2>5
<1> QED
  BY <1>5, <1>6

LEMMA EndedKeeps ==
    ASSUME SidesIInv, NEW s \in Side, Ended(s)
    PROVE  SidesIInv' /\ FreshAnswers
<1>1. PICK i \in DOMAIN holes[s] :
        /\ closed' = [closed EXCEPT ![s] = Remembered(s, holes[s][i])]
        /\ \/ holes' = [holes EXCEPT ![s] = Left(@, i)] /\ UNCHANGED <<opened, next_id>>
           \/ Evaluate(s, Left(holes[s], i))
        /\ UNCHANGED <<grace, served, broker, seen>>
  BY DEF Ended, InPhase
<1>2. /\ holes \in [Side -> Seq(P2PHole)] /\ closed \in [Side -> Seq(Nat \X Nat)]
      /\ opened \in [Side -> Nat] /\ next_id \in [Side -> Nat]
  BY DEF SidesIInv, SidesTyped
<1>3. PICK hs : hs = Left(holes[s], i)
  OBVIOUS
<1>4. closed'[s] = Remembered(s, holes[s][i]) /\ closed' \in [Side -> Seq(Nat \X Nat)]
      /\ \A d \in Side \ {s} : closed'[d] = closed[d]
  BY <1>1, <1>2, RememberedIs
<1>5. hs \in Seq(P2PHole) /\ Fits(hs, Covered(closed'[s]), served[s], opened[s])
  <2>1. /\ Covered(closed[s]) \subseteq Covered(closed'[s])
        /\ holes[s][i].last # NoSession
              => <<holes[s][i].id, holes[s][i].last>> \in Covered(closed'[s])
    BY <1>4, RememberedIs
  <2>2. holes[s] \in Seq(P2PHole) /\ Fits(holes[s], Covered(closed[s]), served[s], opened[s])
    BY TypedHere
  <2> QED
    BY <1>3, <2>1, <2>2, LeftFits
<1>6. CASE holes' = [holes EXCEPT ![s] = Left(@, i)] /\ UNCHANGED <<opened, next_id>>
  <2>1. holes' = [holes EXCEPT ![s] = hs]
    BY <1>2, <1>3, <1>6
  <2>2. NewHoles(s, hs, opened[s], served[s])
    BY <1>5, KeptHoles
  <2>3. opened' = [opened EXCEPT ![s] = opened[s]] /\ next_id' \in [Side -> Nat]
    BY <1>2, <1>6
  <2> QED
    BY <2>1, <2>2, <2>3, <1>1, <1>4, EvaluatedKeeps DEF Evaluated
<1>7. CASE Evaluate(s, Left(holes[s], i))
  <2>1. Evaluated(s)
    BY <1>3, <1>5, <1>7, EvaluateIs
  <2> QED
    BY <1>1, <1>4, <2>1, EvaluatedKeeps
<1> QED
  BY <1>1, <1>6, <1>7

-----------------------------------------------------------------------------
(* Records of the peer.                                                    *)

LEMMA ToldIs ==
    ASSUME SidesIInv, NEW s \in Side, NEW r
    PROVE  LET new == Told(s, r)
           IN  /\ new \in [Side -> Seq(P2PHole)] /\ Alike(new[s], holes[s])
               /\ \A d \in Side \ {s} : new[d] = holes[d]
<1>1. holes \in [Side -> Seq(P2PHole)] /\ holes[s] \in Seq(P2PHole)
  BY DEF SidesIInv, SidesTyped
<1>2. PICK hs : hs = [i \in DOMAIN holes[s] |->
                        IF holes[s][i].id = r.id /\ holes[s][i].session = r.session
                        THEN [holes[s][i] EXCEPT !.told = TRUE] ELSE holes[s][i]]
  OBVIOUS
<1>3. Told(s, r) = [holes EXCEPT ![s] = hs]
  BY <1>1, <1>2 DEF Told
<1>4. ASSUME NEW i \in DOMAIN holes[s]
      PROVE  /\ hs[i] \in P2PHole /\ hs[i].id = holes[s][i].id
             /\ hs[i].session = holes[s][i].session /\ hs[i].last = holes[s][i].last
  <2>1. holes[s][i] \in P2PHole
    BY <1>1
  <2> QED
    BY <1>2, <2>1 DEF P2PHole
<1>5. DOMAIN hs = DOMAIN holes[s] /\ DOMAIN holes[s] = 1 .. Len(holes[s])
      /\ Len(holes[s]) \in Nat
  BY <1>1, <1>2
<1>6. hs \in [1 .. Len(holes[s]) -> P2PHole]
  BY <1>2, <1>4, <1>5
<1>7. hs \in Seq(P2PHole)
  BY <1>5, <1>6
<1>8. Alike(hs, holes[s])
  BY <1>4, <1>5 DEF Alike
<1> QED
  BY <1>1, <1>3, <1>7, <1>8

ForwardedAs(new, hs, r) ==
    /\ \E i \in DOMAIN hs : hs[i].id = r.id
    /\ new = [i \in DOMAIN hs |->
                IF hs[i].id = r.id THEN Forwarded(hs[i], r.session) ELSE hs[i]]
ReplacedBy(r, answers) == {q \in answers : q[1] # r.id} \cup {<<r.id, r.session>>}

(* The holes of ours with the number of the record go on with its session. *)
LEMMA ForwardedFits ==
    ASSUME NEW hs \in Seq(P2PHole), NEW ended, NEW answers, NEW n, Fits(hs, ended, answers, n),
           NEW r \in Record, NEW new, ForwardedAs(new, hs, r)
    PROVE  new \in Seq(P2PHole) /\ Fits(new, ended, ReplacedBy(r, answers), n)
<1> DEFINE known == {i \in DOMAIN hs : hs[i].id = r.id}
<1>a. /\ known # {}
      /\ new = [i \in DOMAIN hs |-> IF i \in known THEN Forwarded(hs[i], r.session) ELSE hs[i]]
  BY DEF ForwardedAs
<1>0. r.id \in Nat /\ r.session \in Nat \ {0}
  BY DEF Record
<1>1. ASSUME NEW i \in DOMAIN hs
      PROVE  /\ new[i] \in P2PHole /\ new[i].id = hs[i].id /\ new[i].session = hs[i].session
             /\ new[i].last = IF i \in known THEN r.session ELSE hs[i].last
  <2>1. hs[i] \in P2PHole
    OBVIOUS
  <2>2. CASE i \in known
    <3>1. new[i] = Forwarded(hs[i], r.session)
      BY <1>a, <2>2
    <3> QED
      BY <1>0, <2>1, <2>2, <3>1 DEF Forwarded, P2PHole, Unlinked
  <2>3. CASE i \notin known
    BY <1>a, <2>1, <2>3
  <2> QED
    BY <2>2, <2>3
<1>2. DOMAIN new = DOMAIN hs /\ DOMAIN hs = 1 .. Len(hs) /\ Len(hs) \in Nat
  BY <1>a
<1>3. new \in Seq(P2PHole)
  <2>1. new \in [1 .. Len(hs) -> P2PHole]
    BY <1>a, <1>1, <1>2
  <2> QED
    BY <1>2, <2>1
<1>4. NumberedOnce(new) /\ SessionsPast(new, n)
  BY <1>1, <1>2 DEF Fits, NumberedOnce, SessionsPast
<1>5. ASSUME NEW q \in answers, q[1] # r.id
      PROVE  q[2] # NoSession /\ AnswerStands(q, new, ended)
  <2>1. q[2] # NoSession /\ AnswerStands(q, hs, ended)
    BY DEF Fits
  <2>2. CASE q \in ended
    BY <2>1, <2>2 DEF AnswerStands
  <2>3. CASE q \notin ended
    <3>1. PICK i \in DOMAIN hs : q = <<hs[i].id, hs[i].last>>
      BY <2>1, <2>3 DEF AnswerStands
    <3>2. i \notin known
      BY <1>5, <3>1
    <3> QED
      BY <1>1, <1>2, <2>1, <3>1, <3>2 DEF AnswerStands
  <2> QED
    BY <2>2, <2>3
<1>6. /\ r.session # NoSession
      /\ AnswerStands(<<r.id, r.session>>, new, ended)
  <2>1. PICK i \in known : i \in DOMAIN hs /\ hs[i].id = r.id
    BY <1>a
  <2> QED
    BY <1>0, <1>1, <1>2, <2>1 DEF AnswerStands, NoSession
<1>7. ASSUME NEW q \in ReplacedBy(r, answers)
      PROVE  q[2] # NoSession /\ AnswerStands(q, new, ended)
  <2>1. CASE q = <<r.id, r.session>>
    BY <1>6, <2>1
  <2>2. CASE q # <<r.id, r.session>>
    BY <1>5, <2>2 DEF ReplacedBy
  <2> QED
    BY <2>1, <2>2
<1> QED
  BY <1>3, <1>4, <1>7 DEF Fits

LEMMA OnPeerKeeps ==
    ASSUME SidesIInv, NEW s \in Side, NEW r \in Record, OnPeer(s, r),
           broker' \in [Side -> SUBSET Record], DOMAIN seen' = Side
    PROVE  SidesIInv' /\ FreshAnswers
<1>0. /\ holes \in [Side -> Seq(P2PHole)] /\ opened \in [Side -> Nat] /\ next_id \in [Side -> Nat]
      /\ closed \in [Side -> Seq(Nat \X Nat)] /\ DOMAIN served = Side /\ DOMAIN grace = Side
  BY DEF SidesIInv, SidesTyped
<1>1. PICK told : told = Told(OtherSide(s), r)
  OBVIOUS
<1>2. /\ told \in [Side -> Seq(P2PHole)] /\ told[s] = holes[s]
      /\ \A d \in Side : Alike(told[d], holes[d])
  <2>1. OtherSide(s) \in Side /\ OtherSide(s) # s
    BY OtherSideIs
  <2>2. /\ told \in [Side -> Seq(P2PHole)] /\ Alike(told[OtherSide(s)], holes[OtherSide(s)])
        /\ \A d \in Side \ {OtherSide(s)} : told[d] = holes[d]
    BY <1>1, <2>1, ToldIs
  <2> QED
    BY <2>1, <2>2, OtherSideIs, SelfAlike
<1>3. PICK known : known = {i \in DOMAIN holes[s] : holes[s][i].id = r.id}
  OBVIOUS
<1>4. r.id \in Nat /\ r.session \in Nat \ {0}
  BY DEF Record
<1>5. /\ holes[s] \in Seq(P2PHole) /\ Fits(holes[s], Covered(closed[s]), served[s], opened[s])
      /\ opened[s] \in Nat
  BY TypedHere
<1>a. PICK n : n = opened[s]
  OBVIOUS
<1>6. CASE /\ known # {}
           /\ holes' = [told EXCEPT ![s] = [i \in DOMAIN @ |->
                           IF i \in known THEN Forwarded(@[i], r.session) ELSE @[i]]]
           /\ served' = Answered(s, r)
           /\ UNCHANGED <<closed, next_id, grace, opened>>
  <2>1. PICK new : new = [i \in DOMAIN holes[s] |->
                      IF i \in known THEN Forwarded(holes[s][i], r.session) ELSE holes[s][i]]
    OBVIOUS
  <2>2. PICK answers : answers = ReplacedBy(r, served[s])
    OBVIOUS
  <2>3. new \in Seq(P2PHole) /\ Fits(new, Covered(closed[s]), answers, opened[s])
    <3>1. ForwardedAs(new, holes[s], r)
      BY <1>3, <1>6, <2>1 DEF ForwardedAs
    <3> QED
      BY <1>5, <2>2, <3>1, ForwardedFits
  <2>4. holes' = [told EXCEPT ![s] = new]
    BY <1>2, <1>6, <2>1
  <2>5. ASSUME NEW i \in DOMAIN new
        PROVE  ~(new[i].session > opened[s])
    <3>1. new[i].session <= opened[s]
      BY <2>3 DEF Fits, SessionsPast
    <3>2. new[i] \in P2PHole
      BY <2>3
    <3> QED
      BY <1>5, <3>1, <3>2 DEF P2PHole
  <2>6. NewHoles(s, new, n, answers)
    BY <1>5, <1>6, <1>a, <2>3, <2>5 DEF NewHoles
  <2>7. holes' \in [Side -> Seq(P2PHole)] /\ holes'[s] = new
    BY <1>2, <2>3, <2>4
  <2>8. \A d \in Side \ {s} : /\ holes'[d] \in Seq(P2PHole) /\ Alike(holes'[d], holes[d])
                              /\ closed'[d] = closed[d] /\ served'[d] = served[d]
    BY <1>0, <1>2, <1>6, <2>4 DEF Answered
  <2>9. served'[s] = answers /\ DOMAIN served' = Side /\ closed' \in [Side -> Seq(Nat \X Nat)]
    BY <1>0, <1>6, <2>2 DEF Answered, ReplacedBy
  <2>10. opened' = [opened EXCEPT ![s] = n] /\ next_id' \in [Side -> Nat] /\ DOMAIN grace' = Side
    BY <1>0, <1>6, <1>a
  <2> QED
    BY <2>6, <2>7, <2>8, <2>9, <2>10, OneSideKeeps
<1>7. CASE holes' = told /\ UNCHANGED core
  <2>1. AllAlike /\ holes' \in [Side -> Seq(P2PHole)]
    BY <1>2, <1>7 DEF AllAlike
  <2> QED
    BY <1>7, <2>1, AlikeKeep
<1>8. CASE /\ known = {} /\ <<r.id, r.session>> \notin ToSet(closed[s])
           /\ holes' = [told EXCEPT ![s] = Spawn(s, @, r.id, r.session)]
           /\ opened' = [opened EXCEPT ![s] = @ + 1]
           /\ served' = Answered(s, r)
           /\ UNCHANGED <<closed, next_id, grace>>
  <2>1. PICK new : new = Append(holes[s], Hole(r.id, n + 1, r.session))
    OBVIOUS
  <2>2. holes' = [told EXCEPT ![s] = new]
    BY <1>2, <1>8, <1>a, <2>1 DEF Spawn
  <2>3. PICK pair : pair = <<r.id, r.session>>
    OBVIOUS
  <2>4. PICK kept : kept = {q \in served[s] : q[1] # r.id}
    OBVIOUS
  <2>5. Fits(holes[s], Covered(closed[s]), kept, n)
    BY <1>5, <1>a, <2>4 DEF Fits
  <2>6. /\ n \in Nat /\ \A i \in DOMAIN holes[s] : holes[s][i].id # r.id
        /\ \A q \in {pair} : q = <<r.id, r.session>> /\ r.session # NoSession
    BY <1>3, <1>4, <1>5, <1>8, <1>a, <2>3 DEF NoSession
  <2>7. /\ new \in Seq(P2PHole) /\ Fits(new, Covered(closed[s]), kept \cup {pair}, n + 1)
        /\ DOMAIN new = 1 .. Len(holes[s]) + 1
        /\ new[Len(holes[s]) + 1] = Hole(r.id, n + 1, r.session)
        /\ \A i \in DOMAIN holes[s] : new[i] = holes[s][i]
    <3>1. Opens(holes[s], n, r.id, r.session, new)
      BY <1>4, <1>5, <2>1, <2>6 DEF Opens, Unused
    <3>2. MayAnswer({pair}, r.id, r.session)
      BY <2>6 DEF MayAnswer
    <3>3. /\ IsOpened(holes[s], n, r.id, r.session, new)
          /\ Fits(new, Covered(closed[s]), kept \cup {pair}, n + 1)
      BY <2>5, <3>1, <3>2, SpawnFits, Zenon
    <3> QED
      BY <3>3 DEF IsOpened
  <2>8. Len(closed[s]) < CLOSED_MEMORY => pair \notin served[s]
    <3>1. SUFFICES ASSUME pair \in served[s], Len(closed[s]) < CLOSED_MEMORY
                   PROVE  FALSE
      OBVIOUS
    <3>2. AnswerStands(pair, holes[s], Covered(closed[s]))
      BY <1>5, <3>1 DEF Fits
    <3>3. PICK i \in DOMAIN holes[s] : pair = <<holes[s][i].id, holes[s][i].last>>
      BY <1>8, <2>3, <3>1, <3>2 DEF AnswerStands, Covered
    <3> QED
      BY <2>3, <2>6, <3>3
  <2>9. ASSUME NEW i \in DOMAIN new, new[i].session > opened[s], Len(closed[s]) < CLOSED_MEMORY
        PROVE  <<new[i].id, new[i].last>> \notin served[s]
    <3>1. CASE i = Len(holes[s]) + 1
      <4>1. new[i].id = r.id /\ new[i].last = r.session
        BY <2>7, <3>1 DEF Hole
      <4> QED
        BY <2>3, <2>8, <2>9, <4>1
    <3>2. CASE i # Len(holes[s]) + 1
      <4>1. i \in DOMAIN holes[s] /\ new[i] = holes[s][i] /\ holes[s][i] \in P2PHole
        BY <1>5, <2>7, <3>2
      <4>2. holes[s][i].session <= opened[s] /\ holes[s][i].session \in Nat
        BY <1>5, <4>1 DEF Fits, SessionsPast, P2PHole
      <4> QED
        BY <1>5, <2>9, <4>1, <4>2
    <3> QED
      BY <3>1, <3>2
  <2>10. NewHoles(s, new, n + 1, kept \cup {pair})
    BY <1>8, <2>6, <2>7, <2>9 DEF NewHoles
  <2>11. holes' \in [Side -> Seq(P2PHole)] /\ holes'[s] = new
    BY <1>2, <2>2, <2>7
  <2>12. \A d \in Side \ {s} : /\ holes'[d] \in Seq(P2PHole) /\ Alike(holes'[d], holes[d])
                               /\ closed'[d] = closed[d] /\ served'[d] = served[d]
    BY <1>0, <1>2, <1>8, <2>2 DEF Answered
  <2>13. served'[s] = kept \cup {pair} /\ DOMAIN served' = Side /\ closed' \in [Side -> Seq(Nat \X Nat)]
    BY <1>0, <1>8, <2>3, <2>4 DEF Answered
  <2>14. /\ opened' = [opened EXCEPT ![s] = n + 1] /\ next_id' \in [Side -> Nat]
         /\ DOMAIN grace' = Side
    BY <1>0, <1>8, <1>a
  <2> QED
    BY <2>10, <2>11, <2>12, <2>13, <2>14, OneSideKeeps
<1>9. \/ /\ known # {}
         /\ holes' = [told EXCEPT ![s] = [i \in DOMAIN @ |->
                         IF i \in known THEN Forwarded(@[i], r.session) ELSE @[i]]]
         /\ served' = Answered(s, r)
         /\ UNCHANGED <<closed, next_id, grace, opened>>
      \/ holes' = told /\ UNCHANGED core
      \/ /\ known = {} /\ <<r.id, r.session>> \notin ToSet(closed[s])
         /\ holes' = [told EXCEPT ![s] = Spawn(s, @, r.id, r.session)]
         /\ opened' = [opened EXCEPT ![s] = @ + 1]
         /\ served' = Answered(s, r)
         /\ UNCHANGED <<closed, next_id, grace>>
  BY <1>1, <1>3 DEF OnPeer
<1> QED
  BY <1>6, <1>7, <1>8, <1>9

-----------------------------------------------------------------------------
(* The actions.                                                            *)

LEMMA RecordOfIs ==
    ASSUME SidesIInv, NEW s \in Side, NEW i \in DOMAIN holes[s]
    PROVE  RecordOf(holes[s][i]) \in Record
<1>1. holes[s][i] \in P2PHole
  BY TypedHere
<1> QED
  BY <1>1 DEF RecordOf, P2PHole, Record

LEMMA StayAlike ==
    ASSUME SidesIInv, UNCHANGED holes
    PROVE  AllAlike /\ holes' \in [Side -> Seq(P2PHole)]
BY TypedHere, SelfAlike DEF AllAlike, SidesIInv, SidesTyped

LEMMA AnnounceKeeps ==
    ASSUME SidesIInv, NEW s \in Side, Announce(s)
    PROVE  SidesIInv' /\ FreshAnswers
<1>0. broker \in [Side -> SUBSET Record] /\ DOMAIN seen = Side
  BY DEF SidesIInv, SidesTyped
<1>1. PICK i \in DOMAIN holes[s] :
        \/ /\ broker' = Published(s, RecordOf(holes[s][i]))
           /\ UNCHANGED <<holes, core, seen, troubles>>
        \/ /\ OnPeer(OtherSide(s), RecordOf(holes[s][i]))
           /\ UNCHANGED <<broker, seen, troubles>>
  BY DEF Announce, InPhase
<1>2. PICK r \in Record : r = RecordOf(holes[s][i])
  BY RecordOfIs
<1>3. CASE broker' = Published(s, r) /\ UNCHANGED <<holes, core, seen, troubles>>
  <2>1. broker' \in [Side -> SUBSET Record]
    BY <1>0, <1>3 DEF Published
  <2> QED
    BY <1>0, <1>3, <2>1, StayAlike, AlikeKeep
<1>4. CASE OnPeer(OtherSide(s), r) /\ UNCHANGED <<broker, seen, troubles>>
  <2>1. broker' \in [Side -> SUBSET Record] /\ DOMAIN seen' = Side /\ OtherSide(s) \in Side
    BY <1>0, <1>4, OtherSideIs
  <2> QED
    BY <1>4, <2>1, OnPeerKeeps
<1> QED
  BY <1>1, <1>2, <1>3, <1>4

LEMMA FromBrokerKeeps ==
    ASSUME SidesIInv, NEW s \in Side, FromBroker(s)
    PROVE  SidesIInv' /\ FreshAnswers
<1>0. broker \in [Side -> SUBSET Record] /\ DOMAIN seen = Side /\ OtherSide(s) \in Side
  BY OtherSideIs DEF SidesIInv, SidesTyped
<1>1. PICK r \in broker[OtherSide(s)] :
        /\ seen' = [seen EXCEPT ![s] = @ \cup {r}]
        /\ OnPeer(s, r) /\ UNCHANGED <<broker, troubles>>
  BY DEF FromBroker
<1>2. r \in Record /\ broker' \in [Side -> SUBSET Record] /\ DOMAIN seen' = Side
  BY <1>0, <1>1
<1> QED
  BY <1>1, <1>2, OnPeerKeeps

LEMMA TurnsKeep ==
    ASSUME SidesIInv, NEW s \in Side, NEW i \in DOMAIN holes[s],
           NEW turn \in {"active", "gone"}, Turns(s, i, turn),
           UNCHANGED <<core, broker, seen>>
    PROVE  SidesIInv' /\ FreshAnswers
<1>1. AllAlike /\ holes' \in [Side -> Seq(P2PHole)]
  BY TurnsAlike
<1>2. broker' \in [Side -> SUBSET Record] /\ DOMAIN seen' = Side
  BY DEF SidesIInv, SidesTyped
<1> QED
  BY <1>1, <1>2, AlikeKeep

LEMMA GraceKeeps ==
    ASSUME SidesIInv, NEW s \in Side, GraceIsOver(s)
    PROVE  SidesIInv' /\ FreshAnswers
<1>1. /\ grace' = [grace EXCEPT ![s] = FALSE]
      /\ UNCHANGED <<holes, closed, next_id, opened, served, broker, seen>>
  BY DEF GraceIsOver
<1>2. SidesTyped' /\ \A d \in Side : SideFits(d)'
  BY <1>1 DEF SidesIInv, SidesTyped, SideFits
<1>3. FreshAnswers
  <2>1. ASSUME NEW d \in Side, NEW i \in DOMAIN holes'[d]
        PROVE  ~(holes'[d][i].session > opened[d])
    <3>1. SessionsPast(holes[d], opened[d]) /\ Alike(holes[d], holes[d])
      BY TypedHere, SelfAlike DEF Fits
    <3> QED
      BY <1>1, <3>1, TypedHere, NoneIsNew
  <2> QED
    BY <2>1 DEF FreshAnswers
<1> QED
  BY <1>2, <1>3 DEF SidesIInv

LEMMA RestartKeeps ==
    ASSUME SidesIInv, NEW s \in Side, Restart(s)
    PROVE  SidesIInv' /\ FreshAnswers
<1>0. /\ holes \in [Side -> Seq(P2PHole)] /\ opened \in [Side -> Nat] /\ next_id \in [Side -> Nat]
      /\ closed \in [Side -> Seq(Nat \X Nat)] /\ DOMAIN served = Side
      /\ DOMAIN grace = Side /\ DOMAIN seen = Side
      /\ broker \in [Side -> SUBSET Record]
  BY DEF SidesIInv, SidesTyped
<1>1. /\ holes' = [holes EXCEPT ![s] = <<>>] /\ closed' = [closed EXCEPT ![s] = <<>>]
      /\ seen' = [seen EXCEPT ![s] = {}] /\ served' = [served EXCEPT ![s] = {}]
      /\ next_id' = [next_id EXCEPT ![s] = FirstId[s]] /\ grace' = [grace EXCEPT ![s] = TRUE]
      /\ UNCHANGED <<opened, broker>>
  BY DEF Restart
<1>2. FirstId[s] \in Nat
  BY P2PAssumption DEF Side
<1>3. <<>> \in Seq(P2PHole) /\ DOMAIN <<>> = {}
  OBVIOUS
<1>4. PICK new : new = <<>>
  OBVIOUS
<1>5. PICK n : n = opened[s]
  OBVIOUS
<1>6. PICK none : none = {}
  OBVIOUS
<1>7. NewHoles(s, new, n, none)
  BY <1>0, <1>3, <1>4, <1>5, <1>6 DEF NewHoles, Fits, NumberedOnce, SessionsPast
<1>8. holes' \in [Side -> Seq(P2PHole)] /\ holes'[s] = new /\ closed' \in [Side -> Seq(Nat \X Nat)]
  BY <1>0, <1>1, <1>4
<1>9. \A d \in Side \ {s} : /\ holes'[d] \in Seq(P2PHole) /\ Alike(holes'[d], holes[d])
                            /\ closed'[d] = closed[d] /\ served'[d] = served[d]
  BY <1>0, <1>1, SelfAlike
<1>10. /\ opened' = [opened EXCEPT ![s] = n] /\ served'[s] = none /\ DOMAIN served' = Side
       /\ next_id' \in [Side -> Nat] /\ DOMAIN grace' = Side
       /\ broker' \in [Side -> SUBSET Record] /\ DOMAIN seen' = Side
  BY <1>0, <1>1, <1>2, <1>5, <1>6
<1> QED
  BY <1>7, <1>8, <1>9, <1>10, OneSideKeeps

LEMMA InitSides == P2PInit => SidesIInv
<1> SUFFICES ASSUME P2PInit
             PROVE  SidesIInv
  OBVIOUS
<1>1. FirstId \in [Side -> Nat]
  BY P2PAssumption DEF Side
<1>2. <<>> \in Seq(P2PHole) /\ DOMAIN <<>> = {}
  OBVIOUS
<1>3. SidesTyped
  BY <1>1, <1>2 DEF P2PInit, SidesTyped
<1>4. \A s \in Side : SideFits(s)
  BY <1>2 DEF P2PInit, SideFits, NumberedOnce, SessionsPast
<1> QED
  BY <1>3, <1>4 DEF SidesIInv

LEMMA StepSides == SidesIInv /\ [P2PNext]_p2pVars => SidesIInv' /\ FreshAnswers
<1> SUFFICES ASSUME SidesIInv, [P2PNext]_p2pVars
             PROVE  SidesIInv' /\ FreshAnswers
  OBVIOUS
<1>1. ASSUME NEW s \in Side, Link(s)
      PROVE  SidesIInv' /\ FreshAnswers
  <2>1. PICK i \in DOMAIN holes[s] : Turns(s, i, "active") /\ UNCHANGED <<core, broker, seen>>
    BY <1>1 DEF Link, InPhase
  <2> QED
    BY <2>1, TurnsKeep
<1>2. ASSUME NEW s \in Side, HoleEnds(s)
      PROVE  SidesIInv' /\ FreshAnswers
  <2>1. PICK i \in DOMAIN holes[s] : Turns(s, i, "gone") /\ UNCHANGED <<core, broker, seen>>
    BY <1>2 DEF HoleEnds
  <2> QED
    BY <2>1, TurnsKeep
<1>3. ASSUME NEW s \in Side, Fail(s)
      PROVE  SidesIInv' /\ FreshAnswers
  <2>1. PICK i \in DOMAIN holes[s] : Turns(s, i, "gone") /\ UNCHANGED <<core, broker, seen>>
    BY <1>3 DEF Fail
  <2> QED
    BY <2>1, TurnsKeep
<1>4. CASE UNCHANGED p2pVars
  <2>1. UNCHANGED <<holes, core, broker, seen>>
    BY <1>4 DEF p2pVars
  <2>2. broker' \in [Side -> SUBSET Record] /\ DOMAIN seen' = Side
    BY <2>1 DEF SidesIInv, SidesTyped
  <2> QED
    BY <2>1, <2>2, StayAlike, AlikeKeep
<1> QED
  BY <1>1, <1>2, <1>3, <1>4, ManageKeeps, EndedKeeps, GraceKeeps, AnnounceKeeps,
     FromBrokerKeeps, RestartKeeps DEF P2PNext, Step

(* A hole that is opened for a record answers none that was answered before, *)
(* by whatever way a late copy of it comes (Core::on_peer, CLOSED_MEMORY).  *)
THEOREM NoneServedTwiceHolds == P2PSpec => NoneServedTwice
<1>1. SidesIInv /\ [P2PNext]_p2pVars => [FreshAnswers]_p2pVars
  BY StepSides
<1>2. FreshAnswers <=> \A s \in Side : \A i \in DOMAIN holes'[s] :
          LET h == holes'[s][i]
          IN  h.session > opened[s] /\ h.last # NoSession /\ Len(closed[s]) < CLOSED_MEMORY
                 => <<h.id, h.last>> \notin served[s]
  BY DEF FreshAnswers
<1> QED
  BY <1>1, <1>2, InitSides, StepSides, PTL DEF P2PSpec, NoneServedTwice

(* The holes of a side have different numbers, whoever of the two took them, *)
(* and each is in a phase of its task (Core.holes is a map).                *)
THEOREM P2PTypeCorrect == P2PSpec => []P2PTypeOK
<1>1. SidesIInv => P2PTypeOK
  <2> SUFFICES ASSUME SidesIInv, NEW s \in Side
               PROVE  /\ InPhase(s, Unlinked \cup {"active", "gone"}) = DOMAIN holes[s]
                      /\ \A i, j \in DOMAIN holes[s] : holes[s][i].id = holes[s][j].id => i = j
    BY DEF P2PTypeOK
  <2>1. \A i \in DOMAIN holes[s] : holes[s][i] \in P2PHole
    BY TypedHere
  <2>2. NumberedOnce(holes[s])
    BY TypedHere DEF Fits
  <2> QED
    BY <2>1, <2>2 DEF InPhase, P2PHole, NumberedOnce
<1> QED
  BY <1>1, InitSides, StepSides, PTL DEF P2PSpec
=============================================================================
