------------------------------- MODULE Drain -------------------------------
(***************************************************************************)
(* Closing one hole by agreement: the state machine of drain.rs at both    *)
(* ends of the hole, the shell SlotBase::drain that executes its actions,  *)
(* and the network between the ends.                                       *)
(*                                                                         *)
(* Time is a counter.  A message sent at time t may arrive, any number of  *)
(* times (Drain goes over three holes), at every moment of                 *)
(* t .. t + NetDelay, or never.  A timer that is due runs at most Lateness *)
(* after its moment.                                                       *)
(***************************************************************************)
EXTENDS Integers

CONSTANTS
    CONFIRM_WAIT,     \* how long the requester waits for a confirmation
    RETRY,            \* period of repeated requests and confirmations
    GRACE,            \* how long a draining hole still receives
    NetDelay,         \* the longest time a delivered message travels
    Lateness,         \* how late the scheduler may run a due timer
    Horizon           \* no drain is requested later (bounds the clock)

\* GRACE exceeds CONFIRM_WAIT (2100 ms and 2000 ms in the code): what is left,
\* 100 ms, is the budget for the network and for the scheduler.
ASSUME DrainAssumption ==
    /\ CONFIRM_WAIT \in Nat /\ RETRY \in Nat /\ GRACE \in Nat
    /\ NetDelay \in Nat /\ Lateness \in Nat /\ Horizon \in Nat
    /\ 0 < RETRY /\ NetDelay <= CONFIRM_WAIT
    /\ CONFIRM_WAIT + NetDelay + Lateness < GRACE

End == {"a", "b"}
Peer(e) == IF e = "a" THEN "b" ELSE "a"

VARIABLES
    now,
    phase,            \* "open" (in SlotBase::hold) or the state of Drain
    requested,        \* Drain.requested
    started,          \* State::Confirming.started
    lastSent,         \* State::Confirming.last_sent
    until,            \* State::Draining.until
    lastConfirm,      \* State::Draining.last_confirm
    sending,          \* the registry does not yet say Draining
    heard,            \* history: a Drain of the peer changed this end's state
    net               \* messages that may still arrive

fsm == <<phase, requested, started, lastSent, until, lastConfirm>>
vars == <<now, fsm, sending, heard, net>>

Phase == {"open", "confirming", "draining", "closed"}
Message == [kind : {"drain", "data"}, to : End, at : Int]

\* The fields of both ends, and their moments in the order they happen: the
\* request, its last repeat, now; no draining hole waits longer than GRACE.
TypeOK ==
    /\ now \in Nat
    /\ phase \in [End -> Phase]
    /\ requested \in [End -> BOOLEAN]
    /\ started \in [End -> Nat]
    /\ lastSent \in [End -> Nat]
    /\ until \in [End -> Nat]
    /\ lastConfirm \in [End -> Nat]
    /\ sending \in [End -> BOOLEAN]
    /\ heard \in [End -> BOOLEAN]
    /\ net \subseteq Message
    /\ \A e \in End : started[e] <= lastSent[e] /\ lastSent[e] <= now
    /\ \A e \in End : lastConfirm[e] <= now /\ until[e] <= now + GRACE
    /\ \A m \in net : m.at <= now /\ now <= m.at + NetDelay

Init ==
    /\ now = 0
    /\ phase = [e \in End |-> "open"]
    /\ requested = [e \in End |-> FALSE]
    /\ started = [e \in End |-> 0]
    /\ lastSent = [e \in End |-> 0]
    /\ until = [e \in End |-> 0]
    /\ lastConfirm = [e \in End |-> 0]
    /\ sending = [e \in End |-> TRUE]
    /\ heard = [e \in End |-> FALSE]
    /\ net = {}

-----------------------------------------------------------------------------
\* Helpers of the state machine.

\* notify_drain: the message to the peer, over this hole and two others.
DrainTo(e) == [kind |-> "drain", to |-> e, at |-> now]

DrainArrives(e) == \E m \in net : m.kind = "drain" /\ m.to = e

\* Mutant: the wait counts from the last repeat of the request.
ConfirmExpiredSinceRepeat(e) == now - lastSent[e] >= CONFIRM_WAIT

ConfirmExpired(e) == now - started[e] >= CONFIRM_WAIT

\* The peer repeats its request: our confirmation seems lost.  A requester
\* never answers.
AnswersRepeat(e) == ~requested[e] /\ now - lastConfirm[e] >= RETRY

\* Mutant: the shell never executes MarkDraining.
NeverMarking(e) == FALSE

\* The shell has received the request but has not executed MarkDraining yet:
\* it is still awaiting the sends of notify_drain.
Marking(e) == phase[e] = "draining" /\ sending[e]

\* Drain::next_wakeup.
NextWakeup(e) ==
    IF phase[e] = "confirming"
    THEN IF lastSent[e] + RETRY < started[e] + CONFIRM_WAIT
         THEN lastSent[e] + RETRY
         ELSE started[e] + CONFIRM_WAIT
    ELSE until[e]

\* Mutant: the hole receives only as long as the requester waits.
BeginShortGrace(e) ==
    /\ phase' = [phase EXCEPT ![e] = "draining"]
    /\ until' = [until EXCEPT ![e] = now + CONFIRM_WAIT]
    /\ lastConfirm' = [lastConfirm EXCEPT ![e] = now]

\* Enter State::Draining at this moment.
BeginGrace(e) ==
    /\ phase' = [phase EXCEPT ![e] = "draining"]
    /\ until' = [until EXCEPT ![e] = now + GRACE]
    /\ lastConfirm' = [lastConfirm EXCEPT ![e] = now]

-----------------------------------------------------------------------------
\* One action per event of the shell.

\* HoleCmd::Retire in hold: Drain::request, SendDrain.
Retire(e) ==
    /\ phase[e] = "open"
    /\ now <= Horizon
    /\ phase' = [phase EXCEPT ![e] = "confirming"]
    /\ requested' = [requested EXCEPT ![e] = TRUE]
    /\ started' = [started EXCEPT ![e] = now]
    /\ lastSent' = [lastSent EXCEPT ![e] = now]
    /\ net' = net \cup {DrainTo(Peer(e))}
    /\ UNCHANGED <<now, until, lastConfirm, sending, heard>>

\* HoleCmd::PeerDrain in hold: Drain::receive, SendDrain; MarkDraining follows.
Receive(e) ==
    /\ phase[e] = "open"
    /\ DrainArrives(e)
    /\ BeginGrace(e)
    /\ heard' = [heard EXCEPT ![e] = TRUE]
    /\ net' = net \cup {DrainTo(Peer(e))}
    /\ UNCHANGED <<now, requested, started, lastSent, sending>>

\* Action::MarkDraining after the awaited sends of Receive.
MarkDraining(e) ==
    /\ Marking(e)
    /\ sending' = [sending EXCEPT ![e] = FALSE]
    /\ UNCHANGED <<now, fsm, heard, net>>

\* Drain::on_peer_drain in Confirming: the confirmation, or the peer's own
\* request; MarkDraining with no await before it.
Confirmed(e) ==
    /\ phase[e] = "confirming"
    /\ DrainArrives(e)
    /\ BeginGrace(e)
    /\ heard' = [heard EXCEPT ![e] = TRUE]
    /\ sending' = [sending EXCEPT ![e] = FALSE]
    /\ UNCHANGED <<now, requested, started, lastSent, net>>

\* Drain::on_peer_drain in Draining: the confirmation is repeated.
ConfirmAgain(e) ==
    /\ phase[e] = "draining" /\ ~Marking(e)
    /\ DrainArrives(e)
    /\ AnswersRepeat(e)
    /\ lastConfirm' = [lastConfirm EXCEPT ![e] = now]
    /\ net' = net \cup {DrainTo(Peer(e))}
    /\ UNCHANGED <<now, phase, requested, started, lastSent, until, sending, heard>>

\* Drain::on_tick in Confirming, the wait is over: drain without an answer.
GiveUp(e) ==
    /\ phase[e] = "confirming"
    /\ ConfirmExpired(e)
    /\ BeginGrace(e)
    /\ sending' = [sending EXCEPT ![e] = FALSE]
    /\ UNCHANGED <<now, requested, started, lastSent, heard, net>>

\* Drain::on_tick in Confirming: the request is repeated.
RequestAgain(e) ==
    /\ phase[e] = "confirming"
    /\ ~ConfirmExpired(e)
    /\ now - lastSent[e] >= RETRY
    /\ lastSent' = [lastSent EXCEPT ![e] = now]
    /\ net' = net \cup {DrainTo(Peer(e))}
    /\ UNCHANGED <<now, phase, requested, started, until, lastConfirm, sending, heard>>

\* Drain::on_tick in Draining: Action::Close, the socket is dropped.
Close(e) ==
    /\ phase[e] = "draining" /\ ~Marking(e)
    /\ now >= until[e]
    /\ phase' = [phase EXCEPT ![e] = "closed"]
    /\ UNCHANGED <<now, requested, started, lastSent, until, lastConfirm, sending, heard, net>>

\* choose_link picks the hole for a data packet: it is in work at this end.
\* (Another hole is Active, so the fallback to a Draining one is not taken.)
SendData(e) ==
    /\ sending[e]
    /\ net' = net \cup {[kind |-> "data", to |-> Peer(e), at |-> now]}
    /\ UNCHANGED <<now, fsm, sending, heard>>

\* The clock moves; messages older than NetDelay are gone.  It cannot pass a
\* due timer by more than Lateness, and stands while no drain is going on.
Tick ==
    /\ \E e \in End : phase[e] \in {"confirming", "draining"}
    /\ \A e \in End :
          /\ phase[e] \in {"confirming", "draining"} => now < NextWakeup(e) + Lateness
          /\ Marking(e) => now < lastConfirm[e] + Lateness
    /\ now' = now + 1
    /\ net' = {m \in net : now' <= m.at + NetDelay}
    /\ UNCHANGED <<fsm, sending, heard>>

Timer(e) == GiveUp(e) \/ RequestAgain(e) \/ Close(e) \/ MarkDraining(e)

Next ==
    \/ Tick
    \/ \E e \in End :
          \/ Retire(e) \/ Receive(e) \/ MarkDraining(e)
          \/ Confirmed(e) \/ ConfirmAgain(e)
          \/ GiveUp(e) \/ RequestAgain(e) \/ Close(e)
          \/ SendData(e)

\* The runtime polls the task when its timer fires, and time passes.
Fairness == WF_vars(Tick) /\ \A e \in End : WF_vars(Timer(e))

Spec == Init /\ [][Next]_vars
FairSpec == Spec /\ Fairness
-----------------------------------------------------------------------------
\* Properties.

\* An end that stopped sending either heard a Drain, and then the other end has
\* left hold too, or asked and waited CONFIRM_WAIT without an answer
\* (drain.rs:6-11): a hole is never drained behind the back of its other end.
NoUnilateralStop ==
    \A e \in End :
        /\ heard[e] => phase[Peer(e)] # "open"
        /\ (phase[e] \in {"draining", "closed"} /\ ~heard[e])
              => /\ requested[e]
                 /\ until[e] - GRACE - started[e] >= CONFIRM_WAIT

\* Whatever the other end sent before it stopped arrives while this end still
\* receives (drain.rs:12-13): once an end is closed, no data of a peer that
\* heard of the drain is on its way to it, and such a peer sends no more.  An
\* end that only answered has this whether or not its confirmation got through.
LateDataIsReceived ==
    \A e \in End :
        (phase[e] = "closed" /\ (heard[Peer(e)] \/ ~requested[e]))
            => /\ ~sending[Peer(e)]
               /\ \A m \in net : ~(m.kind = "data" /\ m.to = e)

\* The exchange of Drain messages ends (drain.rs:72-73): a requester sends none
\* after its last request, and what a receiver sends answers a request that was
\* at most NetDelay old, never another confirmation.
AnswersOnlyRequests ==
    \A m \in net :
        m.kind = "drain" =>
            LET e == Peer(m.to)
            IN IF requested[e]
               THEN m.at <= lastSent[e]
               ELSE requested[m.to] /\ m.at <= lastSent[m.to] + NetDelay

\* The state machine and the shell implement the agreement of GracefulClose.
Promise == INSTANCE GracefulClose
    WITH End <- End,
         receiving <- [e \in End |-> phase[e] # "closed"],
         told <- heard

ClosesByAgreement == Promise!Spec

\* A drain that began ends with the hole closed, whatever the network loses.
DrainCompletes ==
    \A e \in End : (phase[e] \in {"confirming", "draining"}) ~> (phase[e] = "closed")
=============================================================================
