---------------------------- MODULE DrainProofs ----------------------------
(***************************************************************************)
(* Proofs about Drain for every CONFIRM_WAIT, RETRY, GRACE, NetDelay,      *)
(* Lateness and Horizon that satisfy DrainAssumption.  The inductive       *)
(* invariant IInv says when each end began its grace relative to what the  *)
(* other end had sent by then; every property follows from it by           *)
(* arithmetic on those moments.  The second half is about the policy that   *)
(* begins drains (HolePool), for any minimum and maximum of holes.         *)
(***************************************************************************)
EXTENDS Drain, HolePool, FiniteSetTheorems, SequenceTheorems, WellFoundedInduction, TLAPS

\* The moment an end entered State::Draining.
Began(e) == until[e] - GRACE

Gone(e) == phase[e] \in {"draining", "closed"}

\* What an end's own variables say about each other.
OwnState(e) ==
    /\ phase[e] = "open" => ~requested[e] /\ sending[e] /\ ~heard[e]
    /\ phase[e] = "confirming" =>
          /\ requested[e] /\ sending[e] /\ ~heard[e]
          /\ now <= started[e] + CONFIRM_WAIT + Lateness
    /\ Gone(e) =>
          /\ 0 <= Began(e) /\ Began(e) <= now
          /\ requested[e] =>
                /\ lastSent[e] <= Began(e)
                /\ Began(e) <= started[e] + CONFIRM_WAIT + Lateness
          /\ ~requested[e] => heard[e]
          /\ ~heard[e] => Began(e) >= started[e] + CONFIRM_WAIT
    /\ Marking(e) =>
          /\ ~requested[e]
          /\ lastConfirm[e] = Began(e)
          /\ now <= Began(e) + Lateness
    /\ phase[e] = "closed" => ~sending[e] /\ until[e] <= now

\* What an end that heard of the drain knows about the other end: the moment
\* it heard lies between the other's first and last message, up to NetDelay.
HeardState(e) ==
    heard[e] =>
        /\ Gone(e)
        /\ phase[Peer(e)] # "open"
        /\ requested[e] \/ requested[Peer(e)]
        /\ requested[Peer(e)] =>
              /\ started[Peer(e)] <= Began(e)
              /\ Began(e) <= lastSent[Peer(e)] + NetDelay
        /\ ~requested[Peer(e)] => Began(Peer(e)) <= Began(e)

\* A Drain in flight was sent while its sender was asking, or answers a
\* request.
DrainInFlight(m) ==
    LET e == Peer(m.to)
    IN  m.kind = "drain" =>
           /\ phase[e] # "open"
           /\ requested[e] => started[e] <= m.at /\ m.at <= lastSent[e]
           /\ ~requested[e] =>
                 /\ Began(e) <= m.at
                 /\ requested[m.to]
                 /\ m.at <= lastSent[m.to] + NetDelay

\* Data in flight was sent before its sender stopped.
DataInFlight(m) ==
    LET e == Peer(m.to)
    IN  (m.kind = "data" /\ Gone(e)) =>
           /\ m.at <= Began(e) + Lateness
           /\ requested[e] => m.at <= Began(e)

IInv ==
    /\ TypeOK
    /\ \A e \in End : OwnState(e)
    /\ \A e \in End : HeardState(e)
    /\ \A m \in net : DrainInFlight(m)
    /\ \A m \in net : DataInFlight(m)
-----------------------------------------------------------------------------
LEMMA PeerFacts ==
    \A e \in End : /\ Peer(e) \in End
                   /\ Peer(e) # e
                   /\ Peer(Peer(e)) = e
                   /\ \A f \in End : f = e \/ f = Peer(e)
  BY DEF End, Peer

\* Type correctness.
LEMMA InitIInv == Init => IInv
  BY DrainAssumption DEF Init, IInv, TypeOK, OwnState, HeardState, DrainInFlight,
     DataInFlight, Gone, Marking, Phase, Message

LEMMA TypeStep == TypeOK /\ [Next]_vars => TypeOK'
<1> SUFFICES ASSUME TypeOK, [Next]_vars PROVE TypeOK'
  OBVIOUS
<1> USE DrainAssumption, PeerFacts DEF TypeOK, Phase, Message
<1>1. CASE Tick
  BY <1>1 DEF Tick, fsm
<1>2. ASSUME NEW e \in End, Retire(e) PROVE TypeOK'
  BY <1>2 DEF Retire, DrainTo
<1>3. ASSUME NEW e \in End, Receive(e) PROVE TypeOK'
  BY <1>3 DEF Receive, DrainTo, DrainArrives, BeginGrace
<1>4. ASSUME NEW e \in End, MarkDraining(e) PROVE TypeOK'
  BY <1>4 DEF MarkDraining, fsm
<1>5. ASSUME NEW e \in End, Confirmed(e) PROVE TypeOK'
  BY <1>5 DEF Confirmed, DrainArrives, BeginGrace
<1>6. ASSUME NEW e \in End, ConfirmAgain(e) PROVE TypeOK'
  BY <1>6 DEF ConfirmAgain, DrainTo, DrainArrives, AnswersRepeat
<1>7. ASSUME NEW e \in End, GiveUp(e) PROVE TypeOK'
  BY <1>7 DEF GiveUp, ConfirmExpired, BeginGrace
<1>8. ASSUME NEW e \in End, RequestAgain(e) PROVE TypeOK'
  BY <1>8 DEF RequestAgain, DrainTo, ConfirmExpired
<1>9. ASSUME NEW e \in End, Close(e) PROVE TypeOK'
  BY <1>9 DEF Close
<1>10. ASSUME NEW e \in End, SendData(e) PROVE TypeOK'
  BY <1>10 DEF SendData, fsm
<1>11. CASE UNCHANGED vars
  BY <1>11 DEF vars, fsm
<1> QED
  BY <1>1, <1>2, <1>3, <1>4, <1>5, <1>6, <1>7, <1>8, <1>9, <1>10, <1>11 DEF Next

LEMMA StepIInv == IInv /\ [Next]_vars => IInv'
<1> SUFFICES ASSUME IInv, [Next]_vars PROVE IInv'
  OBVIOUS
<1>t. TypeOK'
  BY TypeStep DEF IInv
<1> USE DrainAssumption, PeerFacts, <1>t DEF IInv, TypeOK, Phase, Message
<1>1. CASE Tick
  <2>1. ASSUME NEW f \in End PROVE OwnState(f)'
    BY <1>1 DEF Tick, fsm, NextWakeup, OwnState, HeardState, DrainInFlight, Gone, Marking, Began
  <2>2. ASSUME NEW f \in End PROVE HeardState(f)'
    BY <1>1 DEF Tick, fsm, NextWakeup, OwnState, HeardState, DrainInFlight, Gone, Marking, Began
  <2>3. ASSUME NEW m \in net' PROVE DrainInFlight(m)'
    BY <1>1 DEF Tick, fsm, NextWakeup, OwnState, HeardState, DrainInFlight, Gone, Marking, Began
  <2>4. ASSUME NEW m \in net' PROVE DataInFlight(m)'
    BY <1>1 DEF Tick, fsm, NextWakeup, OwnState, DataInFlight, Gone, Marking, Began
  <2> QED
    BY <2>1, <2>2, <2>3, <2>4
<1>2. ASSUME NEW e \in End, Retire(e) PROVE IInv'
  <2>1. ASSUME NEW f \in End PROVE OwnState(f)'
    BY <1>2 DEF Retire, DrainTo, OwnState, HeardState, DrainInFlight, Gone, Marking, Began
  <2>2. ASSUME NEW f \in End PROVE HeardState(f)'
    BY <1>2 DEF Retire, DrainTo, OwnState, HeardState, DrainInFlight, Gone, Marking, Began
  <2>3. ASSUME NEW m \in net' PROVE DrainInFlight(m)'
    BY <1>2 DEF Retire, DrainTo, OwnState, HeardState, DrainInFlight, Gone, Marking, Began
  <2>4. ASSUME NEW m \in net' PROVE DataInFlight(m)'
    BY <1>2 DEF Retire, DrainTo, OwnState, DataInFlight, Gone, Marking, Began
  <2> QED
    BY <2>1, <2>2, <2>3, <2>4
<1>3. ASSUME NEW e \in End, Receive(e) PROVE IInv'
  <2>1. ASSUME NEW f \in End PROVE OwnState(f)'
    BY <1>3 DEF Receive, DrainTo, DrainArrives, BeginGrace, OwnState, HeardState, DrainInFlight, Gone, Marking, Began
  <2>2. ASSUME NEW f \in End PROVE HeardState(f)'
    BY <1>3 DEF Receive, DrainTo, DrainArrives, BeginGrace, OwnState, HeardState, DrainInFlight, Gone, Marking, Began
  <2>3. ASSUME NEW m \in net' PROVE DrainInFlight(m)'
    BY <1>3 DEF Receive, DrainTo, DrainArrives, BeginGrace, OwnState, HeardState, DrainInFlight, Gone, Marking, Began
  <2>4. ASSUME NEW m \in net' PROVE DataInFlight(m)'
    BY <1>3 DEF Receive, DrainTo, DrainArrives, BeginGrace, OwnState, DataInFlight, Gone, Marking, Began
  <2> QED
    BY <2>1, <2>2, <2>3, <2>4
<1>4. ASSUME NEW e \in End, MarkDraining(e) PROVE IInv'
  <2>1. ASSUME NEW f \in End PROVE OwnState(f)'
    BY <1>4 DEF MarkDraining, fsm, OwnState, HeardState, DrainInFlight, Gone, Marking, Began
  <2>2. ASSUME NEW f \in End PROVE HeardState(f)'
    BY <1>4 DEF MarkDraining, fsm, OwnState, HeardState, DrainInFlight, Gone, Marking, Began
  <2>3. ASSUME NEW m \in net' PROVE DrainInFlight(m)'
    BY <1>4 DEF MarkDraining, fsm, OwnState, HeardState, DrainInFlight, Gone, Marking, Began
  <2>4. ASSUME NEW m \in net' PROVE DataInFlight(m)'
    BY <1>4 DEF MarkDraining, fsm, OwnState, DataInFlight, Gone, Marking, Began
  <2> QED
    BY <2>1, <2>2, <2>3, <2>4
<1>5. ASSUME NEW e \in End, Confirmed(e) PROVE IInv'
  <2>1. ASSUME NEW f \in End PROVE OwnState(f)'
    BY <1>5 DEF Confirmed, DrainArrives, BeginGrace, OwnState, HeardState, DrainInFlight, Gone, Marking, Began
  <2>2. ASSUME NEW f \in End PROVE HeardState(f)'
    BY <1>5 DEF Confirmed, DrainArrives, BeginGrace, OwnState, HeardState, DrainInFlight, Gone, Marking, Began
  <2>3. ASSUME NEW m \in net' PROVE DrainInFlight(m)'
    BY <1>5 DEF Confirmed, DrainArrives, BeginGrace, OwnState, HeardState, DrainInFlight, Gone, Marking, Began
  <2>4. ASSUME NEW m \in net' PROVE DataInFlight(m)'
    BY <1>5 DEF Confirmed, DrainArrives, BeginGrace, OwnState, DataInFlight, Gone, Marking, Began
  <2> QED
    BY <2>1, <2>2, <2>3, <2>4
<1>6. ASSUME NEW e \in End, ConfirmAgain(e) PROVE IInv'
  <2>1. ASSUME NEW f \in End PROVE OwnState(f)'
    BY <1>6 DEF ConfirmAgain, DrainTo, DrainArrives, AnswersRepeat, OwnState, HeardState, DrainInFlight, Gone, Marking, Began
  <2>2. ASSUME NEW f \in End PROVE HeardState(f)'
    BY <1>6 DEF ConfirmAgain, DrainTo, DrainArrives, AnswersRepeat, OwnState, HeardState, DrainInFlight, Gone, Marking, Began
  <2>3. ASSUME NEW m \in net' PROVE DrainInFlight(m)'
    BY <1>6 DEF ConfirmAgain, DrainTo, DrainArrives, AnswersRepeat, OwnState, HeardState, DrainInFlight, Gone, Marking, Began
  <2>4. ASSUME NEW m \in net' PROVE DataInFlight(m)'
    BY <1>6 DEF ConfirmAgain, DrainTo, DrainArrives, AnswersRepeat, OwnState, DataInFlight, Gone, Marking, Began
  <2> QED
    BY <2>1, <2>2, <2>3, <2>4
<1>7. ASSUME NEW e \in End, GiveUp(e) PROVE IInv'
  <2>1. ASSUME NEW f \in End PROVE OwnState(f)'
    BY <1>7 DEF GiveUp, ConfirmExpired, BeginGrace, OwnState, HeardState, DrainInFlight, Gone, Marking, Began
  <2>2. ASSUME NEW f \in End PROVE HeardState(f)'
    BY <1>7 DEF GiveUp, ConfirmExpired, BeginGrace, OwnState, HeardState, DrainInFlight, Gone, Marking, Began
  <2>3. ASSUME NEW m \in net' PROVE DrainInFlight(m)'
    BY <1>7 DEF GiveUp, ConfirmExpired, BeginGrace, OwnState, HeardState, DrainInFlight, Gone, Marking, Began
  <2>4. ASSUME NEW m \in net' PROVE DataInFlight(m)'
    BY <1>7 DEF GiveUp, ConfirmExpired, BeginGrace, OwnState, DataInFlight, Gone, Marking, Began
  <2> QED
    BY <2>1, <2>2, <2>3, <2>4
<1>8. ASSUME NEW e \in End, RequestAgain(e) PROVE IInv'
  <2>1. ASSUME NEW f \in End PROVE OwnState(f)'
    BY <1>8 DEF RequestAgain, DrainTo, ConfirmExpired, OwnState, HeardState, DrainInFlight, Gone, Marking, Began
  <2>2. ASSUME NEW f \in End PROVE HeardState(f)'
    BY <1>8 DEF RequestAgain, DrainTo, ConfirmExpired, OwnState, HeardState, DrainInFlight, Gone, Marking, Began
  <2>3. ASSUME NEW m \in net' PROVE DrainInFlight(m)'
    BY <1>8 DEF RequestAgain, DrainTo, ConfirmExpired, OwnState, HeardState, DrainInFlight, Gone, Marking, Began
  <2>4. ASSUME NEW m \in net' PROVE DataInFlight(m)'
    BY <1>8 DEF RequestAgain, DrainTo, ConfirmExpired, OwnState, DataInFlight, Gone, Marking, Began
  <2> QED
    BY <2>1, <2>2, <2>3, <2>4
<1>9. ASSUME NEW e \in End, Close(e) PROVE IInv'
  <2>1. ASSUME NEW f \in End PROVE OwnState(f)'
    BY <1>9 DEF Close, OwnState, HeardState, DrainInFlight, Gone, Marking, Began
  <2>2. ASSUME NEW f \in End PROVE HeardState(f)'
    BY <1>9 DEF Close, OwnState, HeardState, DrainInFlight, Gone, Marking, Began
  <2>3. ASSUME NEW m \in net' PROVE DrainInFlight(m)'
    BY <1>9 DEF Close, OwnState, HeardState, DrainInFlight, Gone, Marking, Began
  <2>4. ASSUME NEW m \in net' PROVE DataInFlight(m)'
    BY <1>9 DEF Close, OwnState, DataInFlight, Gone, Marking, Began
  <2> QED
    BY <2>1, <2>2, <2>3, <2>4
<1>10. ASSUME NEW e \in End, SendData(e) PROVE IInv'
  <2>1. ASSUME NEW f \in End PROVE OwnState(f)'
    BY <1>10 DEF SendData, fsm, OwnState, HeardState, DrainInFlight, Gone, Marking, Began
  <2>2. ASSUME NEW f \in End PROVE HeardState(f)'
    BY <1>10 DEF SendData, fsm, OwnState, HeardState, DrainInFlight, Gone, Marking, Began
  <2>3. ASSUME NEW m \in net' PROVE DrainInFlight(m)'
    BY <1>10 DEF SendData, fsm, OwnState, HeardState, DrainInFlight, Gone, Marking, Began
  <2>4. ASSUME NEW m \in net' PROVE DataInFlight(m)'
    BY <1>10 DEF SendData, fsm, OwnState, DataInFlight, Gone, Marking, Began
  <2> QED
    BY <2>1, <2>2, <2>3, <2>4
<1>11. CASE UNCHANGED vars
  BY <1>11 DEF vars, fsm, OwnState, HeardState, DrainInFlight, DataInFlight, Gone, Marking, Began
<1> QED
  BY <1>1, <1>2, <1>3, <1>4, <1>5, <1>6, <1>7, <1>8, <1>9, <1>10, <1>11 DEF Next

-----------------------------------------------------------------------------
LEMMA Invariance == Spec => []IInv
  BY InitIInv, StepIInv, PTL DEF Spec

\* The types, the order of an end's own moments, and the age of a message
\* (drain.rs:37-47, the State and Drain types).
THEOREM TypeCorrect == Spec => []TypeOK
<1>1. IInv => TypeOK
  BY DEF IInv
<1> QED
  BY <1>1, Invariance, PTL

\* No end drains a hole behind the back of its other end (drain.rs:7-12).
THEOREM NoUnilateralStopHolds == Spec => []NoUnilateralStop
<1>1. ASSUME IInv, NEW e \in End, Gone(e), ~heard[e]
      PROVE  requested[e] /\ until[e] - GRACE - started[e] >= CONFIRM_WAIT
  <2>1. requested[e] /\ Began(e) >= started[e] + CONFIRM_WAIT
    BY <1>1 DEF IInv, OwnState
  <2> QED
    BY <1>1, <2>1, DrainAssumption DEF IInv, TypeOK, Began
<1>2. IInv => NoUnilateralStop
  BY <1>1 DEF IInv, NoUnilateralStop, HeardState, Gone
<1> QED
  BY <1>2, Invariance, PTL

\* The exchange of Drain messages ends: a confirmation only ever answers a
\* request (drain.rs:78-84).
THEOREM AnswersOnlyRequestsHolds == Spec => []AnswersOnlyRequests
<1>1. IInv => AnswersOnlyRequests
  BY PeerFacts DEF IInv, AnswersOnlyRequests, DrainInFlight, TypeOK, Message
<1> QED
  BY <1>1, Invariance, PTL

\* The arithmetic both remaining theorems rest on: when the grace of an end is
\* over, a peer that heard of the drain, or that this end only answered, has
\* stopped sending, and nothing it sent is still on its way.
LEMMA GraceSuffices ==
  ASSUME IInv, NEW e \in End,
         Gone(e), ~Marking(e), until[e] <= now,
         heard[Peer(e)] \/ ~requested[e]
  PROVE  /\ ~sending[Peer(e)]
         /\ \A m \in net : ~(m.kind = "data" /\ m.to = e)
<1> DEFINE p == Peer(e)
<1> USE DrainAssumption, PeerFacts DEF TypeOK, Message, Phase
<1>1. OwnState(e) /\ OwnState(p) /\ HeardState(e) /\ HeardState(p)
  BY DEF IInv
<1>2. TypeOK
  BY DEF IInv
<1>3. now >= Began(e) + GRACE
  BY <1>2 DEF Began
<1>4. Gone(p)
  <2>1. CASE heard[p]
    BY <2>1, <1>1 DEF HeardState
  <2>2. CASE ~requested[e]
    <3>1. phase[p] # "open" /\ started[p] <= Began(e)
      BY <2>2, <1>1 DEF OwnState, HeardState
    <3>2. phase[p] # "confirming"
      BY <3>1, <1>1, <1>2, <1>3 DEF OwnState, Began
    <3> QED
      BY <3>1, <3>2, <1>2 DEF Gone
  <2> QED
    BY <2>1, <2>2
<1>5. requested[p] => Began(p) <= started[p] + CONFIRM_WAIT + Lateness
  BY <1>1, <1>4 DEF OwnState
<1>6. ~requested[p] => heard[p] /\ requested[e]
  BY <1>1, <1>4 DEF OwnState, HeardState
<1>7. requested[e] => Began(p) <= Began(e) + NetDelay
  BY <1>1, <1>2, <1>4 DEF OwnState, HeardState, Began
<1>8. requested[p] => Began(p) + NetDelay < now
  <2>1. CASE requested[e]
    BY <2>1, <1>2, <1>3, <1>7 DEF Began
  <2>2. CASE ~requested[e]
    <3>1. requested[p] => started[p] <= Began(e)
      BY <2>2, <1>1 DEF OwnState, HeardState
    <3> QED
      BY <3>1, <1>2, <1>3, <1>5 DEF Began
  <2> QED
    BY <2>1, <2>2
<1>9. ~requested[p] => Began(p) + NetDelay + Lateness < now
  BY <1>2, <1>3, <1>6, <1>7 DEF Began
<1>10. ~sending[p]
  BY <1>1, <1>2, <1>4, <1>8, <1>9 DEF OwnState, Gone, Marking, Began
<1>11. ASSUME NEW m \in net, m.kind = "data", m.to = e
       PROVE  FALSE
  <2>1. m.at <= Began(p) + Lateness /\ (requested[p] => m.at <= Began(p))
    BY <1>4, <1>11 DEF IInv, DataInFlight
  <2>2. now <= m.at + NetDelay
    BY <1>2
  <2> QED
    BY <2>1, <2>2, <1>2, <1>8, <1>9 DEF Began
<1> QED
  BY <1>10, <1>11

\* Whatever the other end sent before it stopped arrives while this end still
\* receives: why GRACE (2100 ms) is longer than CONFIRM_WAIT (2000 ms)
\* (drain.rs:13-14, 20-24).
THEOREM LateDataIsReceivedHolds == Spec => []LateDataIsReceived
<1>1. ASSUME IInv PROVE LateDataIsReceived
  <2>1. ASSUME NEW e \in End, phase[e] = "closed"
        PROVE  Gone(e) /\ ~Marking(e) /\ until[e] <= now
    BY <1>1, <2>1 DEF IInv, OwnState, Gone, Marking
  <2> QED
    BY <1>1, <2>1, GraceSuffices DEF LateDataIsReceived
<1> QED
  BY <1>1, Invariance, PTL

\* The state machine at both ends, its shell and the network implement the
\* agreement: an end learns of the drain while both ends still receive, and
\* closes only when nobody who was told still sends (drain.rs:7-14).
THEOREM Refinement == Spec => ClosesByAgreement
<1> USE DEF Promise!Init, Promise!Next, Promise!vars, Promise!Tell,
            Promise!StopSending, Promise!StopReceiving
<1>1. Init => Promise!Init
  BY DEF Init
<1>2. ASSUME IInv, [Next]_vars PROVE [Promise!Next]_(Promise!vars)
  <2> USE DrainAssumption, PeerFacts, <1>2
  <2>t. TypeOK
    BY DEF IInv
  <2>o. \A e \in End : OwnState(e) /\ HeardState(e)
    BY DEF IInv
  <2>1. ASSUME NEW e \in End, phase[e] \in {"open", "confirming"}, DrainArrives(e)
        PROVE  phase[Peer(e)] # "closed"
    <3> DEFINE p == Peer(e)
    <3>1. PICK m \in net : m.kind = "drain" /\ m.to = e
      BY <2>1 DEF DrainArrives
    <3>2. DrainInFlight(m)
      BY DEF IInv
    <3>3. now <= m.at + NetDelay /\ m.at \in Int
      BY <2>t DEF TypeOK, Message
    <3>4. SUFFICES ASSUME phase[p] = "closed" PROVE FALSE
      OBVIOUS
    <3>5. until[p] <= now
      BY <3>4, <2>o DEF OwnState
    <3>6. ~requested[p]
      BY <3>1, <3>2, <3>3, <3>4, <3>5, <2>o, <2>t
      DEF DrainInFlight, OwnState, Gone, Began, TypeOK
    <3>7. requested[e] /\ phase[e] = "confirming"
      BY <3>1, <3>2, <3>6, <2>1, <2>o DEF DrainInFlight, OwnState
    <3>8. started[e] <= Began(p)
      BY <3>4, <3>6, <3>7, <2>o DEF OwnState, HeardState, Gone
    <3>9. now <= started[e] + CONFIRM_WAIT + Lateness
      BY <3>7, <2>o DEF OwnState
    <3> QED
      BY <3>5, <3>8, <3>9, <2>t DEF Began, TypeOK
  <2>2. ASSUME NEW e \in End, Receive(e) PROVE Promise!Tell(e)
    BY <2>1, <2>2, <2>t, <2>o DEF Receive, BeginGrace, OwnState, TypeOK
  <2>3. ASSUME NEW e \in End, Confirmed(e) PROVE Promise!Tell(e)
    BY <2>1, <2>3, <2>t, <2>o DEF Confirmed, BeginGrace, OwnState, TypeOK
  <2>4. ASSUME NEW e \in End, MarkDraining(e) PROVE Promise!StopSending(e)
    BY <2>4 DEF MarkDraining, Marking, fsm
  <2>5. ASSUME NEW e \in End, GiveUp(e) PROVE Promise!StopSending(e)
    BY <2>5, <2>t, <2>o DEF GiveUp, BeginGrace, OwnState, TypeOK
  <2>6. ASSUME NEW e \in End, Close(e) PROVE Promise!StopReceiving(e)
    <3>1. Gone(e) /\ ~Marking(e) /\ until[e] <= now /\ ~sending[e] /\ phase[e] # "closed"
      BY <2>6, <2>t DEF Close, Gone, Marking, TypeOK
    <3>2. \A d \in End : heard[d] => ~sending[d]
      BY <3>1, GraceSuffices
    <3> QED
      BY <2>6, <2>t, <3>1, <3>2 DEF Close, TypeOK
  <2>7. ASSUME NEW e \in End,
               Retire(e) \/ ConfirmAgain(e) \/ RequestAgain(e) \/ SendData(e)
        PROVE  UNCHANGED Promise!vars
    BY <2>7, <2>t DEF Retire, ConfirmAgain, RequestAgain, SendData, fsm, TypeOK
  <2>8. CASE Tick \/ UNCHANGED vars
    BY <2>8 DEF Tick, vars, fsm
  <2> QED
    BY <2>2, <2>3, <2>4, <2>5, <2>6, <2>7, <2>8 DEF Next
<1> QED
  BY <1>1, <1>2, Invariance, PTL DEF Spec, ClosesByAgreement, Promise!Spec

-----------------------------------------------------------------------------
(* The policy (PoolPolicy): what an evaluation opens and asks to leave.      *)

LEMMA ShortCount ==
    ASSUME NEW n \in Nat, NEW S \in SUBSET (1 .. n)
    PROVE  IsFiniteSet(S) /\ Cardinality(S) \in Nat
<1>1. IsFiniteSet(1 .. n)
  BY FS_Interval
<1>2. IsFiniteSet(S)
  BY <1>1, FS_Subset
<1> QED
  BY <1>2, FS_CardinalityType

LEMMA LatestOf ==
    ASSUME NEW n \in Nat, NEW S \in SUBSET (1 .. n), S # {}
    PROVE  \E last \in S : \A i \in S : i <= last
<1> DEFINE Less == OpToRel(<, Nat)
           bounds == {k \in Nat : \A i \in S : i <= k}
<1>1. n \in bounds /\ bounds \subseteq Nat
  OBVIOUS
<1>2. PICK k \in bounds : \A m \in bounds : <<m, k>> \notin Less
  <2>1. IsWellFoundedOn(Less, Nat)
    BY NatLessThanWellFounded
  <2> HIDE DEF Less, bounds
  <2> QED
    BY <1>1, <2>1, WFMin, Zenon
<1>3. \A m \in bounds : ~(m < k)
  BY <1>2 DEF OpToRel
<1>4. k \in S
  <2>1. SUFFICES ASSUME k \notin S
                 PROVE  FALSE
    OBVIOUS
  <2>2. \A i \in S : i \in Nat /\ i >= 1 /\ i <= k /\ i # k
    BY <2>1
  <2>3. k >= 1
    <3>1. PICK i : i \in S
      OBVIOUS
    <3> QED
      BY <2>2, <3>1
  <2>4. k - 1 \in bounds
    BY <2>2, <2>3
  <2> QED
    BY <1>3, <2>4
<1> QED
  BY <1>4

(* No more are the oldest than one asks for.                               *)
LEMMA OldestIs ==
    ASSUME NEW n \in Nat, NEW S \in SUBSET (1 .. n), NEW few \in Nat
    PROVE  Oldest(S, few) \subseteq S /\ Cardinality(Oldest(S, few)) <= few
<1>1. Oldest(S, few) \subseteq S
  BY DEF Oldest
<1>2. CASE Oldest(S, few) = {}
  BY <1>2, FS_EmptySet
<1>3. CASE Oldest(S, few) # {}
  <2>1. Oldest(S, few) \in SUBSET (1 .. n)
    BY <1>1
  <2>2. PICK last \in Oldest(S, few) : \A i \in Oldest(S, few) : i <= last
    BY <1>3, <2>1, LatestOf
  <2>3. PICK older : older = {j \in S : j < last}
    OBVIOUS
  <2>4. Cardinality(older) < few
    BY <2>2, <2>3 DEF Oldest
  <2>5. older \in SUBSET (1 .. n) /\ last \in 1 .. n
    BY <2>1, <2>3
  <2>6. IsFiniteSet(older) /\ Cardinality(older) \in Nat
    BY <2>5, ShortCount
  <2>7. last \notin older
    BY <2>3, <2>5
  <2>8. IsFiniteSet(older \cup {last}) /\ Cardinality(older \cup {last}) = Cardinality(older) + 1
    BY <2>6, <2>7, FS_AddElement
  <2>9. Oldest(S, few) \subseteq older \cup {last}
    <3>1. \A i \in Oldest(S, few) : i \in S /\ i <= last /\ i \in Int /\ last \in Int
      BY <1>1, <2>1, <2>2
    <3> QED
      BY <2>3, <3>1
  <2>10. Cardinality(Oldest(S, few)) <= Cardinality(older) + 1
    BY <2>8, <2>9, FS_Subset
  <2>11. Cardinality(Oldest(S, few)) \in Nat
    BY <2>1, ShortCount
  <2>12. PICK a, b \in Nat : a = Cardinality(older) /\ b = Cardinality(Oldest(S, few))
    BY <2>6, <2>11
  <2>13. a < few /\ b <= a + 1
    BY <2>4, <2>10, <2>12
  <2>14. b <= few
    BY <2>13
  <2> QED
    BY <1>1, <2>12, <2>14
<1> QED
  BY <1>2, <1>3

LEMMA CountsAre ==
    ASSUME NEW hs \in Seq(Hole)
    PROVE  /\ Live(hs) \in SUBSET (1 .. Len(hs)) /\ InWork(hs) \in SUBSET (1 .. Len(hs))
           /\ Expired(hs) \in SUBSET (1 .. Len(hs)) /\ BadlyLossy(hs) \in SUBSET (1 .. Len(hs))
           /\ Cullable(hs) \in SUBSET (1 .. Len(hs)) /\ DOMAIN hs = 1 .. Len(hs)
           /\ Len(hs) \in Nat
           /\ Cardinality(Live(hs)) \in Nat /\ Cardinality(InWork(hs)) \in Nat
           /\ Cardinality(BadlyLossy(hs)) \in Nat /\ Slack(hs) \in Nat
<1>1. Len(hs) \in Nat /\ DOMAIN hs = 1 .. Len(hs)
  OBVIOUS
<1>2. /\ Live(hs) \in SUBSET (1 .. Len(hs)) /\ InWork(hs) \in SUBSET (1 .. Len(hs))
      /\ Expired(hs) \in SUBSET (1 .. Len(hs)) /\ BadlyLossy(hs) \in SUBSET (1 .. Len(hs))
      /\ Cullable(hs) \in SUBSET (1 .. Len(hs))
  BY <1>1 DEF Live, InWork, Expired, BadlyLossy, Cullable, InState, Index
<1>3. /\ Cardinality(Live(hs)) \in Nat /\ Cardinality(InWork(hs)) \in Nat
      /\ Cardinality(BadlyLossy(hs)) \in Nat
  BY <1>1, <1>2, ShortCount
<1>4. Slack(hs) \in Nat
  BY <1>3, PolicyAssumption DEF Slack
<1> QED
  BY <1>1, <1>2, <1>3, <1>4

(* While no hole is badly lossy no more are asked to leave than may be spared. *)
LEMMA PlanIs ==
    ASSUME NEW hs \in Seq(Hole), NEW grow, NEW decision \in Plan(hs, grow)
    PROVE  /\ decision.open \in Nat
           /\ BadlyLossy(hs) = {} =>
                 /\ decision.retire \subseteq 1 .. Len(hs)
                 /\ Cardinality(decision.retire) <= Slack(hs)
<1>1. PICK live, bad, slack : live = Cardinality(Live(hs)) /\ bad = BadlyLossy(hs) /\ slack = Slack(hs)
  OBVIOUS
<1>2. /\ live \in Nat /\ slack \in Nat /\ Cardinality(bad) \in Nat /\ Len(hs) \in Nat
      /\ Expired(hs) \in SUBSET (1 .. Len(hs)) /\ Cullable(hs) \in SUBSET (1 .. Len(hs))
  BY <1>1, CountsAre
<1>3. min_active \in Nat
  BY PolicyAssumption
<1>4. \/ live < min_active /\ decision = [open |-> min_active - live, retire |-> {}]
      \/ bad # {} /\ decision = [open |-> Cardinality(bad), retire |-> bad]
      \/ decision = [open |-> 0, retire |-> Oldest(Expired(hs), slack)]
      \/ decision = [open |-> 1, retire |-> {}]
      \/ slack > 0 /\ \E i \in Cullable(hs) : decision = [open |-> 0, retire |-> {i}]
      \/ decision = [open |-> 0, retire |-> {}]
  BY <1>1 DEF Plan
<1>5. Cardinality({}) = 0
  BY FS_EmptySet
<1>6. CASE live < min_active /\ decision = [open |-> min_active - live, retire |-> {}]
  BY <1>1, <1>2, <1>3, <1>5, <1>6
<1>7. CASE bad # {} /\ decision = [open |-> Cardinality(bad), retire |-> bad]
  BY <1>1, <1>2, <1>7
<1>8. CASE decision = [open |-> 0, retire |-> Oldest(Expired(hs), slack)]
  <2>1. /\ Oldest(Expired(hs), slack) \subseteq Expired(hs)
        /\ Cardinality(Oldest(Expired(hs), slack)) <= slack
    BY <1>2, OldestIs
  <2>2. decision.open = 0 /\ decision.retire = Oldest(Expired(hs), slack)
    BY <1>8
  <2> QED
    BY <1>1, <1>2, <2>1, <2>2
<1>9. CASE decision = [open |-> 1, retire |-> {}] \/ decision = [open |-> 0, retire |-> {}]
  <2>1. decision.open \in Nat /\ decision.retire = {}
    BY <1>9
  <2> QED
    BY <1>1, <1>2, <1>5, <2>1
<1>10. CASE slack > 0 /\ \E i \in Cullable(hs) : decision = [open |-> 0, retire |-> {i}]
  <2>1. PICK i \in Cullable(hs) : decision = [open |-> 0, retire |-> {i}]
    BY <1>10
  <2>2. Cardinality({i}) = 1
    BY FS_Singleton
  <2>3. decision.open = 0 /\ decision.retire = {i} /\ i \in 1 .. Len(hs)
    BY <1>2, <2>1
  <2>4. slack >= 1
    BY <1>2, <1>10
  <2>5. Cardinality(decision.retire) <= slack /\ decision.retire \subseteq 1 .. Len(hs)
    BY <2>2, <2>3, <2>4
  <2> QED
    BY <1>1, <2>3, <2>5
<1> QED
  BY <1>4, <1>6, <1>7, <1>8, <1>9, <1>10

-----------------------------------------------------------------------------
(* What an evaluation does to the holes it sees.                           *)

LEMMA AskedAre ==
    ASSUME NEW hs \in Seq(Hole), NEW retire
    PROVE  LET asked == AskToRetire(hs, retire)
           IN  /\ asked \in Seq(Hole) /\ Len(asked) = Len(hs)
               /\ \A i \in 1 .. Len(hs) :
                     /\ asked[i].state = hs[i].state
                     /\ i \notin retire => asked[i] = hs[i]
<1> DEFINE asked == AskToRetire(hs, retire)
           n == Len(hs)
<1>1. n \in Nat /\ DOMAIN hs = 1 .. n
  OBVIOUS
<1>2. asked = [i \in 1 .. n |-> IF i \in retire /\ hs[i].state \in {"opening", "active"}
                               THEN [hs[i] EXCEPT !.asked = TRUE] ELSE hs[i]]
  BY <1>1 DEF AskToRetire, Index
<1> HIDE DEF asked
<1>3. ASSUME NEW i \in 1 .. n
      PROVE  /\ asked[i] \in Hole /\ asked[i].state = hs[i].state
             /\ i \notin retire => asked[i] = hs[i]
  <2>1. hs[i] \in Hole
    BY <1>1
  <2> QED
    BY <1>2, <2>1 DEF Hole
<1>4. asked \in [1 .. n -> Hole]
  BY <1>2, <1>3
<1>5. asked \in Seq(Hole) /\ Len(asked) = n
  BY <1>1, <1>4
<1>6. asked \in Seq(Hole) /\ Len(asked) = n
      /\ \A i \in 1 .. n : asked[i].state = hs[i].state /\ (i \notin retire => asked[i] = hs[i])
  BY <1>3, <1>5
<1> QED
  BY <1>6 DEF asked

(* What comes of an evaluation: those in work and not asked to leave stay.   *)
Kept(hs) ==
    /\ holes' \in Seq(Hole) /\ Len(holes') <= max_total * 2 /\ mayGrow' \in BOOLEAN
    /\ BadlyLossy(hs) = {} =>
          \E retire \in SUBSET (1 .. Len(hs)) :
             Cardinality(retire) <= Slack(hs) /\ Staying(hs) \ retire \subseteq Staying(holes')

LEMMA NewHoleIs == NewHole \in Hole
BY DEF NewHole, Hole, State, Age, Loss

LEMMA EvaluateKeeps ==
    ASSUME NEW hs \in Seq(Hole), Len(hs) <= max_total * 2, mayGrow \in BOOLEAN, Evaluate(hs)
    PROVE  Kept(hs)
<1>1. PICK decision \in Plan(hs, mayGrow) :
        /\ holes' = AskToRetire(hs, decision.retire)
                       \o [i \in 1 .. Openable(hs, decision.open) |-> NewHole]
        /\ mayGrow' = (mayGrow /\ Openable(hs, decision.open) = 0)
  BY DEF Evaluate
<1>2. PICK many, retire : many = Openable(hs, decision.open) /\ retire = decision.retire
  OBVIOUS
<1>3. Len(hs) \in Nat /\ DOMAIN hs = 1 .. Len(hs)
  OBVIOUS
<1>4. many \in Nat /\ Len(hs) + many <= max_total * 2
  <2>1. decision.open \in Nat /\ max_total \in Nat
    BY PlanIs, PolicyAssumption
  <2> QED
    BY <1>2, <1>3, <2>1 DEF Openable
<1>5. PICK asked : asked = AskToRetire(hs, retire)
  OBVIOUS
<1>6. /\ asked \in Seq(Hole) /\ Len(asked) = Len(hs)
      /\ \A i \in 1 .. Len(hs) : asked[i].state = hs[i].state /\ (i \notin retire => asked[i] = hs[i])
  BY <1>5, AskedAre
<1>7. PICK more : more = [i \in 1 .. many |-> NewHole]
  OBVIOUS
<1>8. more \in Seq(Hole) /\ Len(more) = many
  <2>1. more \in [1 .. many -> Hole]
    BY <1>7, NewHoleIs
  <2> QED
    BY <1>4, <2>1
<1>9. holes' = asked \o more
  BY <1>1, <1>2, <1>5, <1>7
<1>10. /\ holes' \in Seq(Hole) /\ Len(holes') = Len(hs) + many
       /\ \A i \in 1 .. Len(hs) : holes'[i] = asked[i]
  <2>1. /\ asked \o more \in Seq(Hole) /\ Len(asked \o more) = Len(asked) + Len(more)
        /\ \A i \in 1 .. Len(asked) + Len(more) :
              (asked \o more)[i] = IF i <= Len(asked) THEN asked[i] ELSE more[i - Len(asked)]
    BY <1>6, <1>8, ConcatProperties
  <2>2. \A i \in 1 .. Len(hs) : i \in 1 .. Len(hs) + many /\ i <= Len(hs)
    BY <1>3, <1>4
  <2>3. holes' \in Seq(Hole) /\ Len(holes') = Len(hs) + many
    BY <1>6, <1>8, <1>9, <2>1
  <2>4. ASSUME NEW i \in 1 .. Len(hs)
        PROVE  holes'[i] = asked[i]
    BY <1>6, <1>8, <1>9, <2>1, <2>2, Zenon
  <2> QED
    BY <2>3, <2>4
<1>11. mayGrow' \in BOOLEAN
  BY <1>1
<1>12. Staying(hs) \ retire \subseteq Staying(holes')
  <2> SUFFICES ASSUME NEW i \in Staying(hs), i \notin retire
               PROVE  i \in Staying(holes')
    OBVIOUS
  <2>1. i \in 1 .. Len(hs) /\ hs[i].state = "active" /\ ~hs[i].asked
    BY <1>3 DEF Staying, InState, Index
  <2>2. holes'[i] = hs[i]
    BY <1>6, <1>10, <2>1
  <2>3. i \in DOMAIN holes'
    <3>1. DOMAIN holes' = 1 .. Len(holes')
      BY <1>10
    <3> QED
      BY <1>3, <1>4, <1>10, <2>1, <3>1
  <2> QED
    BY <2>1, <2>2, <2>3 DEF Staying, InState, Index
<1>13. BadlyLossy(hs) = {} => retire \in SUBSET (1 .. Len(hs)) /\ Cardinality(retire) <= Slack(hs)
  BY <1>2, PlanIs
<1> QED
  BY <1>4, <1>10, <1>11, <1>12, <1>13 DEF Kept

(* Enough of those that stay remain after an evaluation.                   *)
LEMMA EnoughStay ==
    ASSUME NEW hs \in Seq(Hole), Kept(hs), BadlyLossy(hs) = {}, InWork(hs) = Staying(hs)
    PROVE  \/ Cardinality(Staying(holes')) >= min_active
           \/ Cardinality(Staying(holes')) >= Cardinality(Staying(hs))
<1>1. PICK retire \in SUBSET (1 .. Len(hs)) :
        Cardinality(retire) <= Slack(hs) /\ Staying(hs) \ retire \subseteq Staying(holes')
  BY DEF Kept
<1>2. PICK stay, before, after : /\ before = Staying(hs) /\ stay = before \ retire
                                 /\ after = Staying(holes')
  OBVIOUS
<1>3. before \in SUBSET (1 .. Len(hs)) /\ stay \in SUBSET (1 .. Len(hs)) /\ Len(hs) \in Nat
  BY <1>2, CountsAre DEF Staying, InState, Index
<1>4. IsFiniteSet(before) /\ IsFiniteSet(stay) /\ IsFiniteSet(retire)
      /\ Cardinality(before) \in Nat /\ Cardinality(stay) \in Nat /\ Cardinality(retire) \in Nat
  BY <1>3, ShortCount
<1>5. IsFiniteSet(after) /\ Cardinality(after) \in Nat
  <2>1. holes' \in Seq(Hole)
    BY DEF Kept
  <2>2. Len(holes') \in Nat /\ after \in SUBSET (1 .. Len(holes'))
    BY <1>2, <2>1 DEF Staying, InState, Index
  <2> QED
    BY <2>2, ShortCount
<1>6. Cardinality(stay) <= Cardinality(after)
  BY <1>1, <1>2, <1>5, FS_Subset
<1>7. Cardinality(before) <= Cardinality(stay) + Cardinality(retire)
  <2>1. IsFiniteSet(stay \cup retire) /\ Cardinality(stay \cup retire)
          = Cardinality(stay) + Cardinality(retire) - Cardinality(stay \cap retire)
    BY <1>4, FS_Union
  <2>2. Cardinality(stay \cap retire) = 0
    <3>1. stay \cap retire = {}
      BY <1>2
    <3> QED
      BY <3>1, FS_EmptySet
  <2>3. Cardinality(before) <= Cardinality(stay \cup retire)
    BY <1>2, <2>1, FS_Subset
  <2>4. Cardinality(stay \cup retire) = Cardinality(stay) + Cardinality(retire)
    BY <1>4, <2>1, <2>2
  <2> QED
    BY <2>3, <2>4
<1>8. Slack(hs) = IF Cardinality(before) > min_active THEN Cardinality(before) - min_active ELSE 0
  BY <1>2 DEF Slack
<1>9. min_active \in Nat
  BY PolicyAssumption
<1>10. Cardinality(after) >= min_active \/ Cardinality(after) >= Cardinality(before)
  BY <1>1, <1>4, <1>5, <1>6, <1>7, <1>8, <1>9
<1> QED
  BY <1>2, <1>10
(* A hole that is forgotten: the others stay, in their order.              *)
LEMMA WithoutIs ==
    ASSUME NEW S, NEW list \in Seq(S), NEW k \in DOMAIN list
    PROVE  /\ RemoveAt(list, k) \in Seq(S) /\ Len(RemoveAt(list, k)) = Len(list) - 1
           /\ \A i \in 1 .. Len(list) - 1 :
                 RemoveAt(list, k)[i] = IF i < k THEN list[i] ELSE list[i + 1]
<1> DEFINE n == Len(list)
           a == SubSeq(list, 1, k - 1)
           b == SubSeq(list, k + 1, n)
<1>0. n \in Nat /\ DOMAIN list = 1 .. n /\ k \in 1 .. n
  OBVIOUS
<1>1. a \in Seq(S) /\ Len(a) = k - 1 /\ \A i \in 1 .. k - 1 : a[i] = list[i]
  BY <1>0
<1>2. b \in Seq(S) /\ Len(b) = n - k /\ \A i \in 1 .. n - k : b[i] = list[i + k]
  BY <1>0
<1> HIDE DEF a, b
<1>3. /\ a \o b \in Seq(S) /\ Len(a \o b) = n - 1
      /\ \A i \in 1 .. n - 1 : (a \o b)[i] = IF i < k THEN list[i] ELSE list[i + 1]
  <2>0. /\ a \o b \in Seq(S) /\ Len(a \o b) = Len(a) + Len(b)
        /\ \A i \in 1 .. Len(a) + Len(b) :
              (a \o b)[i] = IF i <= Len(a) THEN a[i] ELSE b[i - Len(a)]
    <3>1. a \in Seq(S) /\ b \in Seq(S)
      BY <1>1, <1>2
    <3> QED
      BY <3>1, ConcatProperties
  <2>a. Len(a) = k - 1 /\ Len(a) + Len(b) = n - 1
    BY <1>0, <1>1, <1>2
  <2>1. a \o b \in Seq(S) /\ Len(a \o b) = n - 1
    BY <2>0, <2>a, Zenon
  <2>2. ASSUME NEW i \in 1 .. n - 1
        PROVE  (a \o b)[i] = IF i <= k - 1 THEN a[i] ELSE b[i - (k - 1)]
    BY <2>0, <2>a, Zenon
  <2>3. \A i \in 1 .. n - 1 : i >= k => i - (k - 1) \in 1 .. n - k
    BY <1>0
  <2>4. ASSUME NEW i \in 1 .. n - 1, i >= k
        PROVE  b[i - (k - 1)] = list[i + 1]
    <3>1. b[i - (k - 1)] = list[i - (k - 1) + k]
      BY <1>2, <2>3, <2>4, Zenon
    <3>2. i - (k - 1) + k = i + 1
      BY <1>0
    <3> QED
      BY <3>1, <3>2
  <2> QED
    BY <1>0, <1>1, <2>1, <2>2, <2>4
<1>4. RemoveAt(list, k) = a \o b
  BY DEF RemoveAt, a, b
<1> QED
  BY <1>3, <1>4


-----------------------------------------------------------------------------
(* The holes one by one.                                                   *)

LEMMA BecomesIs ==
    ASSUME PoolTypeOK, NEW i \in DOMAIN holes, NEW hole \in Hole, Becomes(i, hole)
    PROVE  /\ holes' \in Seq(Hole) /\ Len(holes') <= max_total * 2 /\ mayGrow' \in BOOLEAN
           /\ DOMAIN holes' = DOMAIN holes /\ holes'[i] = hole
           /\ \A j \in DOMAIN holes : j # i => holes'[j] = holes[j]
<1>1. holes \in Seq(Hole) /\ Len(holes) <= max_total * 2 /\ mayGrow \in BOOLEAN
  BY DEF PoolTypeOK
<1>2. holes' = [holes EXCEPT ![i] = hole] /\ mayGrow' = mayGrow
  BY DEF Becomes
<1>3. holes' \in Seq(Hole) /\ Len(holes') = Len(holes)
  BY <1>1, <1>2
<1> QED
  BY <1>1, <1>2, <1>3

HolesTyped == holes' \in Seq(Hole) /\ Len(holes') <= max_total * 2 /\ mayGrow' \in BOOLEAN

(* A step at a hole that does not take it from those that stay.            *)
LEMMA BecomesKeeps ==
    ASSUME PoolTypeOK, NEW i \in DOMAIN holes, NEW hole \in Hole, Becomes(i, hole),
           i \in Staying(holes) => hole.state = "active" /\ ~hole.asked
    PROVE  HolesTyped /\ Cardinality(Staying(holes')) >= Cardinality(Staying(holes))
<1>1. /\ HolesTyped /\ DOMAIN holes' = DOMAIN holes /\ holes'[i] = hole
      /\ \A j \in DOMAIN holes : j # i => holes'[j] = holes[j]
  BY BecomesIs DEF HolesTyped
<1>2. Staying(holes) \subseteq Staying(holes')
  BY <1>1 DEF Staying, InState, Index
<1>3. PICK before, after : before = Staying(holes) /\ after = Staying(holes')
  OBVIOUS
<1>4. IsFiniteSet(after)
  <2>1. Len(holes') \in Nat /\ after \in SUBSET (1 .. Len(holes'))
    BY <1>1, <1>3 DEF HolesTyped, Staying, InState, Index
  <2> QED
    BY <2>1, ShortCount
<1>5. Cardinality(before) <= Cardinality(after) /\ IsFiniteSet(before)
  BY <1>2, <1>3, <1>4, FS_Subset
<1>6. Cardinality(before) \in Nat /\ Cardinality(after) \in Nat
  BY <1>4, <1>5, FS_CardinalityType
<1>7. Cardinality(after) >= Cardinality(before)
  BY <1>5, <1>6
<1> QED
  BY <1>1, <1>3, <1>7

LEMMA HolesAre ==
    ASSUME PoolTypeOK, NEW i \in DOMAIN holes
    PROVE  holes[i] \in Hole
BY DEF PoolTypeOK

LEMMA LeavingIs ==
    ASSUME NEW state \in State
    PROVE  Leaving(state) \in Hole /\ Leaving(state).state = state
BY NewHoleIs DEF Leaving, Hole, NewHole

(* What a step may do: the state stays right, and while nothing goes wrong   *)
(* and no hole is on its way out of work enough holes stay.                *)
Good ==
    HolesTyped /\ (Planned /\ InWork(holes) = Staying(holes) => KeepsMinimum)

LEMMA BecomesGood ==
    ASSUME PoolTypeOK, NEW i \in DOMAIN holes, NEW hole \in Hole, Becomes(i, hole),
           Planned /\ InWork(holes) = Staying(holes) /\ i \in Staying(holes)
              => hole.state = "active" /\ ~hole.asked
    PROVE  Good
<1>1. HolesTyped
  BY BecomesIs DEF HolesTyped
<1>2. CASE Planned /\ InWork(holes) = Staying(holes)
  BY <1>1, <1>2, BecomesKeeps DEF Good, KeepsMinimum
<1> QED
  BY <1>1, <1>2 DEF Good

LEMMA TickGood ==
    ASSUME PoolTypeOK, ManagerTick
    PROVE  Good
<1>1. Kept(holes)
  BY EvaluateKeeps DEF ManagerTick, PoolTypeOK
<1>2. holes \in Seq(Hole)
  BY DEF PoolTypeOK
<1> QED
  BY <1>1, <1>2, EnoughStay DEF Good, HolesTyped, Kept, Planned, KeepsMinimum

(* A hole that is gone is not one of those that stay.                      *)
LEMMA EndedGood ==
    ASSUME PoolTypeOK, NEW i \in DOMAIN holes, Ended(i)
    PROVE  Good
<1>1. holes \in Seq(Hole) /\ Len(holes) <= max_total * 2 /\ mayGrow \in BOOLEAN
  BY DEF PoolTypeOK
<1>2. holes[i].state = "gone" /\ Evaluate(RemoveAt(holes, i))
  BY DEF Ended, InState
<1>3. PICK hs, n : hs = RemoveAt(holes, i) /\ n = Len(holes)
  OBVIOUS
<1>4. /\ hs \in Seq(Hole) /\ Len(hs) = n - 1 /\ n \in Nat /\ i \in 1 .. n
      /\ \A j \in 1 .. n - 1 : hs[j] = IF j < i THEN holes[j] ELSE holes[j + 1]
  BY <1>1, <1>3, WithoutIs
<1>5. DOMAIN hs = 1 .. n - 1 /\ DOMAIN holes = 1 .. n
  <2>1. DOMAIN hs = 1 .. Len(hs)
    BY <1>4
  <2> QED
    BY <1>1, <1>3, <1>4, <2>1
<1>6. Kept(hs)
  <2>1. Len(hs) <= max_total * 2
    BY <1>1, <1>3, <1>4, PolicyAssumption
  <2> QED
    BY <1>1, <1>2, <1>3, <1>4, <2>1, EvaluateKeeps
<1>7. PICK at : at = [j \in 1 .. n - 1 |-> IF j < i THEN j ELSE j + 1]
  OBVIOUS
<1>8. /\ at \in [1 .. n - 1 -> 1 .. n] /\ \A j \in 1 .. n - 1 : hs[j] = holes[at[j]] /\ at[j] # i
      /\ \A j, k \in 1 .. n - 1 : at[j] = at[k] => j = k
  BY <1>4, <1>7
<1>9. \A k \in 1 .. n : k # i => \E j \in 1 .. n - 1 : at[j] = k
  <2> SUFFICES ASSUME NEW k \in 1 .. n, k # i
               PROVE  \E j \in 1 .. n - 1 : at[j] = k
    OBVIOUS
  <2>1. CASE k < i
    <3>1. k \in 1 .. n - 1 /\ at[k] = k
      BY <1>4, <1>7, <2>1
    <3> QED
      BY <3>1
  <2>2. CASE k > i
    <3>1. k - 1 \in 1 .. n - 1 /\ ~(k - 1 < i)
      BY <1>4, <2>2
    <3>2. at[k - 1] = k
      BY <1>4, <1>7, <3>1
    <3> QED
      BY <3>1, <3>2
  <2> QED
    BY <1>4, <2>1, <2>2
<1>10. ASSUME Planned, InWork(holes) = Staying(holes)
       PROVE  KeepsMinimum
  <2>1. BadlyLossy(hs) = {}
    <3>1. SUFFICES ASSUME NEW j \in BadlyLossy(hs)
                   PROVE  FALSE
      OBVIOUS
    <3>2. at[j] \in BadlyLossy(holes)
      BY <1>5, <1>8 DEF BadlyLossy, Live, InState, Index
    <3> QED
      BY <1>10, <3>2 DEF Planned
  <2>2. InWork(hs) = Staying(hs)
    <3>1. ASSUME NEW j \in InWork(hs)
          PROVE  j \in Staying(hs)
      <4>1. j \in 1 .. n - 1 /\ at[j] \in InWork(holes)
        BY <1>5, <1>8 DEF InWork, InState, Index
      <4>2. at[j] \in Staying(holes)
        BY <1>10, <4>1
      <4> QED
        BY <1>5, <1>8, <4>1, <4>2 DEF Staying, InState, Index
    <3>2. Staying(hs) \subseteq InWork(hs)
      BY DEF Staying, InWork, InState, Index
    <3> QED
      BY <3>1, <3>2
  <2>3. PICK before, stay : before = Staying(holes) /\ stay = Staying(hs)
    OBVIOUS
  <2>4. stay \in SUBSET (1 .. n - 1) /\ before \in SUBSET (1 .. n)
    BY <1>5, <2>3 DEF Staying, InState, Index
  <2>5. PICK places : places = [j \in stay |-> at[j]]
    OBVIOUS
  <2>6. places \in Surjection(stay, before)
    <3>1. \A j \in stay : at[j] \in before
      BY <1>5, <1>8, <2>3, <2>4 DEF Staying, InState, Index
    <3>2. ASSUME NEW k \in before
          PROVE  \E j \in stay : places[j] = k
      <4>1. k \in 1 .. n /\ holes[k].state = "active" /\ ~holes[k].asked
        BY <1>5, <2>3 DEF Staying, InState, Index
      <4>2. PICK j \in 1 .. n - 1 : at[j] = k
        BY <1>2, <1>9, <4>1
      <4>3. j \in stay
        BY <1>5, <1>8, <2>3, <4>1, <4>2 DEF Staying, InState, Index
      <4> QED
        BY <2>5, <4>2, <4>3
    <3> QED
      BY <2>5, <3>1, <3>2 DEF Surjection
  <2>7. n - 1 \in Nat
    BY <1>4
  <2>8. IsFiniteSet(stay) /\ Cardinality(stay) \in Nat
    BY <2>4, <2>7, ShortCount
  <2>9. Cardinality(before) <= Cardinality(stay) /\ Cardinality(before) \in Nat
    BY <2>6, <2>8, <1>4, <2>4, ShortCount, FS_Surjection
  <2>10. PICK after : after = Staying(holes')
    OBVIOUS
  <2>11. Cardinality(after) >= min_active \/ Cardinality(after) >= Cardinality(stay)
    BY <1>4, <1>6, <2>1, <2>2, <2>3, <2>10, EnoughStay
  <2>12. Cardinality(after) \in Nat
    <3>1. holes' \in Seq(Hole)
      BY <1>6 DEF Kept
    <3>2. Len(holes') \in Nat /\ after \in SUBSET (1 .. Len(holes'))
      BY <2>10, <3>1 DEF Staying, InState, Index
    <3> QED
      BY <3>2, ShortCount
  <2>13. Cardinality(after) >= min_active \/ Cardinality(after) >= Cardinality(before)
    BY <2>8, <2>9, <2>11, <2>12
  <2> QED
    BY <2>3, <2>10, <2>13 DEF KeepsMinimum
<1> QED
  BY <1>6, <1>10 DEF Good, HolesTyped, Kept

-----------------------------------------------------------------------------
(* The steps of the pool.                                                  *)

TroublesRight == troubles' \in 0 .. MaxTroubles

LEMMA TroubleIs ==
    ASSUME PoolTypeOK
    PROVE  /\ UNCHANGED troubles => TroublesRight
           /\ Trouble => TroublesRight /\ ~Planned
BY TroublesAssumption DEF PoolTypeOK, TroublesRight, Trouble, Planned

LEMMA HoleStepGood ==
    ASSUME PoolTypeOK, NEW i \in DOMAIN holes, HoleStep(i)
    PROVE  Good /\ TroublesRight
<1>0. holes[i] \in Hole
  BY HolesAre
<1>1. CASE Connected(i)
  <2>1. PICK hole : hole = [NewHole EXCEPT !.state = "active"]
    OBVIOUS
  <2>2. hole \in Hole /\ hole.state = "active" /\ ~hole.asked
    BY <2>1, NewHoleIs DEF Hole, NewHole, State
  <2>3. Becomes(i, hole) /\ UNCHANGED troubles
    BY <1>1, <2>1 DEF Connected
  <2> QED
    BY <2>2, <2>3, BecomesGood, TroubleIs
<1>2. CASE TakeRetire(i)
  <2>1. PICK leaving, asks : /\ leaving = Leaving("gone")
                             /\ asks = [holes[i] EXCEPT !.state = "confirming", !.asked = FALSE]
    OBVIOUS
  <2>2. leaving \in Hole /\ asks \in Hole
    BY <1>0, <2>1, LeavingIs DEF Hole, State
  <2>3. i \notin Staying(holes)
    BY <1>2 DEF TakeRetire, Staying
  <2>4. (Becomes(i, leaving) \/ Becomes(i, asks)) /\ UNCHANGED troubles
    BY <1>2, <2>1 DEF TakeRetire
  <2> QED
    BY <2>2, <2>3, <2>4, BecomesGood, TroubleIs
<1>3. CASE DrainBegins(i) \/ DrainEnds(i)
  <2>1. PICK begins, ends : begins = Leaving("draining") /\ ends = Leaving("gone")
    OBVIOUS
  <2>2. begins \in Hole /\ ends \in Hole
    BY <2>1, LeavingIs DEF State
  <2>3. i \notin Staying(holes)
    BY <1>3 DEF DrainBegins, DrainEnds, Staying, InState
  <2>4. (Becomes(i, begins) \/ Becomes(i, ends)) /\ UNCHANGED troubles
    BY <1>3, <2>1 DEF DrainBegins, DrainEnds
  <2> QED
    BY <2>2, <2>3, <2>4, BecomesGood, TroubleIs
<1>4. CASE Ended(i)
  BY <1>4, EndedGood, TroubleIs DEF Ended
<1> QED
  BY <1>1, <1>2, <1>3, <1>4 DEF HoleStep

LEMMA TroubledGood ==
    ASSUME PoolTypeOK, NEW i \in DOMAIN holes,
           NotOpened(i) \/ PeerDrains(i) \/ Lost(i) \/ BadLink(i)
    PROVE  Good /\ TroublesRight
<1>0. holes[i] \in Hole
  BY HolesAre
<1>1. PICK drains, gone, asked :
        /\ drains = Leaving("draining") /\ gone = Leaving("gone")
        /\ asked = [holes[i] EXCEPT !.asked = TRUE]
  OBVIOUS
<1>2. drains \in Hole /\ gone \in Hole /\ asked \in Hole
  BY <1>0, <1>1, LeavingIs DEF Hole, State
<1>3. Becomes(i, drains) \/ Becomes(i, gone) \/ Becomes(i, asked)
  BY <1>1 DEF NotOpened, PeerDrains, Lost, BadLink
<1>4. Trouble
  BY DEF NotOpened, PeerDrains, Lost, BadLink
<1> QED
  BY <1>2, <1>3, <1>4, BecomesGood, TroubleIs

LEMMA MeasuredGood ==
    ASSUME PoolTypeOK, NEW i \in DOMAIN holes, Ages(i) \/ \E loss \in Loss : Report(i, loss)
    PROVE  Good /\ TroublesRight
<1>0. holes[i] \in Hole
  BY HolesAre
<1>1. CASE Ages(i)
  <2>1. PICK hole : hole = [holes[i] EXCEPT !.age = IF @ = "young" THEN "mature" ELSE "expired"]
    OBVIOUS
  <2>2. hole \in Hole /\ hole.state = holes[i].state /\ hole.asked = holes[i].asked
    BY <1>0, <2>1 DEF Hole, Age
  <2>3. Becomes(i, hole) /\ UNCHANGED troubles
    BY <1>1, <2>1 DEF Ages
  <2>4. i \in Staying(holes) => hole.state = "active" /\ ~hole.asked
    BY <2>2 DEF Staying, InState
  <2> QED
    BY <2>2, <2>3, <2>4, BecomesGood, TroubleIs
<1>2. ASSUME NEW loss \in Loss, Report(i, loss)
      PROVE  Good /\ TroublesRight
  <2>1. PICK hole : hole = [holes[i] EXCEPT !.loss = loss]
    OBVIOUS
  <2>2. hole \in Hole /\ hole.state = holes[i].state /\ hole.asked = holes[i].asked
    BY <1>0, <2>1 DEF Hole
  <2>3. Becomes(i, hole) /\ (UNCHANGED troubles \/ Trouble)
    BY <1>2, <2>1 DEF Report
  <2>4. i \in Staying(holes) => hole.state = "active" /\ ~hole.asked
    BY <2>2 DEF Staying, InState
  <2> QED
    BY <2>2, <2>3, <2>4, BecomesGood, TroubleIs
<1> QED
  BY <1>1, <1>2

LEMMA UnchangedGood ==
    ASSUME PoolTypeOK, UNCHANGED holes, mayGrow' \in BOOLEAN
    PROVE  Good
<1>1. PICK stay : stay = Staying(holes)
  OBVIOUS
<1>2. Staying(holes') = stay
  BY <1>1
<1>3. Cardinality(stay) \in Nat
  <2>1. holes \in Seq(Hole)
    BY DEF PoolTypeOK
  <2>2. Len(holes) \in Nat /\ stay \in SUBSET (1 .. Len(holes))
    BY <1>1, <2>1 DEF Staying, InState, Index
  <2> QED
    BY <2>2, ShortCount
<1>4. HolesTyped
  BY DEF HolesTyped, PoolTypeOK
<1>5. KeepsMinimum
  <2>1. Cardinality(Staying(holes')) >= Cardinality(Staying(holes))
    BY <1>1, <1>2, <1>3
  <2> QED
    BY <2>1 DEF KeepsMinimum
<1> QED
  BY <1>4, <1>5 DEF Good

LEMMA PoolStep ==
    ASSUME PoolTypeOK, [PoolNext]_poolVars
    PROVE  PoolTypeOK' /\ (Planned /\ InWork(holes) = Staying(holes) => KeepsMinimum)
<1>1. ASSUME ManagerTick
      PROVE  Good /\ TroublesRight
  BY <1>1, TickGood, TroubleIs DEF ManagerTick
<1>2. ASSUME AddIntervalPasses
      PROVE  Good /\ TroublesRight
  BY <1>2, UnchangedGood, TroubleIs DEF AddIntervalPasses
<1>3. ASSUME NEW i \in DOMAIN holes,
             \/ HoleStep(i) \/ NotOpened(i) \/ PeerDrains(i) \/ Lost(i) \/ BadLink(i)
             \/ Ages(i) \/ \E loss \in Loss : Report(i, loss)
      PROVE  Good /\ TroublesRight
  BY <1>3, HoleStepGood, TroubledGood, MeasuredGood
<1>4. ASSUME UNCHANGED poolVars
      PROVE  Good /\ TroublesRight
  <2>1. UNCHANGED holes /\ mayGrow' \in BOOLEAN /\ UNCHANGED troubles
    BY <1>4 DEF poolVars, PoolTypeOK
  <2> QED
    BY <2>1, UnchangedGood, TroubleIs
<1>5. Good /\ TroublesRight
  BY <1>1, <1>2, <1>3, <1>4 DEF PoolNext, Index
<1> QED
  BY <1>5 DEF Good, HolesTyped, TroublesRight, PoolTypeOK

LEMMA PoolStarts == PoolInit => PoolTypeOK
<1> SUFFICES ASSUME PoolInit
             PROVE  PoolTypeOK
  OBVIOUS
<1>1. holes = <<>> /\ <<>> \in Seq(Hole) /\ Len(<<>>) = 0
  BY DEF PoolInit
<1>2. Len(holes) <= max_total * 2 /\ holes \in Seq(Hole)
  BY <1>1, PolicyAssumption
<1> QED
  BY <1>2, TroublesAssumption DEF PoolInit, PoolTypeOK

(* Whatever the policy asks for and whatever happens to holes, the manager   *)
(* holds no more than max_total * 2 of them (Manager::evaluate).           *)
THEOREM PoolTypeCorrect == PoolSpec => []PoolTypeOK
<1>1. PoolTypeOK /\ [PoolNext]_poolVars => PoolTypeOK'
  BY PoolStep
<1> QED
  BY <1>1, PoolStarts, PTL DEF PoolSpec

(* An evaluation that finds no hole on its way out of work and none badly    *)
(* lossy leaves min_active holes in work, or as many as there were           *)
(* (holes::plan).                                                          *)
THEOREM LonePlanKeepsMinimumHolds == PoolSpec => LonePlanKeepsMinimum
<1>1. PoolTypeOK /\ [PoolNext]_poolVars
        => [Planned /\ InWork(holes) = Staying(holes) => KeepsMinimum]_poolVars
  BY PoolStep
<1> QED
  BY <1>1, PoolTypeCorrect, PTL DEF PoolSpec, LonePlanKeepsMinimum
=============================================================================
