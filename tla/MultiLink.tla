----------------------------- MODULE MultiLink -----------------------------
(***************************************************************************)
(* The set of holes to one peer (multilink.rs): the tasks that own the     *)
(* holes, the registry of live holes, the channels of commands, the phases *)
(* of the status, the journal of events, and the choice of a hole for      *)
(* every packet.                                                           *)
(*                                                                         *)
(* A number names one hole: the modes do not use a number twice (what a    *)
(* restarted client does to that is in VpsServer).  A task may be aborted  *)
(* at every await.  When a drain of a hole asks, is confirmed and ends is  *)
(* in Drain; here its steps come in their order at any time.               *)
(***************************************************************************)
EXTENDS Integers, FiniteSets, SequencesExt

CONSTANTS
    Slot,                \* numbers of the holes
    ConfirmPeer,         \* HoleFactory::make(confirm_peer): TRUE at the server
    TARGET_LINKS,        \* room of the picker
    DataHoles,           \* MultiLinkOptions::data_holes, 0 for all
    COMMANDS,            \* capacity of a channel of commands
    MIN_STATS_SAMPLE,    \* fewer packets of the peer say nothing about a hole
    MaxSent,             \* bound on the packets of the peer over a hole
    MaxOrders            \* bound on the commands given to holes

\* SlotId is a u32.
ASSUME MultiLinkAssumption ==
    /\ Slot \subseteq Nat /\ IsFiniteSet(Slot)
    /\ ConfirmPeer \in BOOLEAN
    /\ TARGET_LINKS \in Nat \ {0} /\ COMMANDS \in Nat \ {0}
    /\ DataHoles \in Nat /\ MIN_STATS_SAMPLE \in Nat /\ MaxSent \in Nat /\ MaxOrders \in Nat

VARIABLES
    stage,         \* where the task of a hole is
    confirmed,     \* PeerLink::is_confirmed: a packet of the peer came after the punch
    ctl,           \* HoleCtl: queues of commands of the running tasks
    by_slot,       \* LinkRegistry::by_slot: states of the live holes
    index,         \* LinkRegistry::index: the holes with a link id
    reports,       \* LinkRegistry::reports: holes the peer reported on
    phases,        \* StateTracker: phases of the holes that began
    shown,         \* StateTracker: the state of the connection it told last
    log,           \* HoleLog: events of every hole, in their order
    traffic,       \* [peer |-> sent by the peer, got |-> received here] of a hole
    remaining,     \* SlotPicker::remaining
    orders,        \* commands given so far
    passed         \* history: packets sent past a hole that could have had them

registry == <<by_slot, index, reports>>
tracker == <<phases, shown>>
sending == <<remaining, passed>>
vars == <<stage, confirmed, ctl, registry, tracker, log, traffic, orders, sending>>

Early == {"starting", "rendezvous", "punching"}
Held == {"warming", "holding"}
Draining == {"asking", "draining"}
Alive == Early \cup Held \cup Draining \cup {"leaving"}
Ended == {"gone", "aborted"}

Command == {"Retire", "PeerDrain"}
Ending == {"lost", "drained_by_us", "drained_by_peer", "not_confirmed"}
Kind == Ending \cup {"opened", "bad"}

\* Maps that a key enters and leaves.
Without(f, s) == [x \in DOMAIN f \ {s} |-> f[x]]
With(f, s, v) == [x \in DOMAIN f \cup {s} |-> IF x = s THEN v ELSE f[x]]

NoTraffic == [peer |-> 0, got |-> 0]

TypeOK ==
    /\ stage \in [Slot -> Alive \cup Ended \cup {"none"}]
    /\ confirmed \in [Slot -> BOOLEAN]
    /\ \A s \in DOMAIN ctl : s \in Slot /\ ctl[s] \in BoundedSeq(Command, COMMANDS)
    /\ \A s \in DOMAIN by_slot : s \in Slot /\ by_slot[s] \in {"Warming", "Active", "Draining"}
    /\ index \subseteq Slot /\ reports \subseteq Slot
    /\ \A s \in Slot : \A i \in DOMAIN log[s] : log[s][i] \in Kind
    /\ \A s \in Slot : traffic[s].got <= traffic[s].peer
    /\ remaining \subseteq Slot /\ Cardinality(remaining) < TARGET_LINKS
    /\ \A s \in Slot : passed[s] \in Nat

Init ==
    /\ stage = [s \in Slot |-> "none"]
    /\ confirmed = [s \in Slot |-> FALSE]
    /\ ctl = <<>> /\ by_slot = <<>> /\ index = {} /\ reports = {} /\ phases = <<>> /\ shown = <<"none", 0>>
    /\ log = [s \in Slot |-> <<>>]
    /\ traffic = [s \in Slot |-> NoTraffic]
    /\ orders = 0 /\ remaining = {} /\ passed = [s \in Slot |-> 0]

\* Where the task is, the phase it reports, and the next event in the journal.
Move(s, to) == stage' = [stage EXCEPT ![s] = to]

\* aggregate: how many holes are connected, else whether one is being punched.
Aggregate(all) ==
    LET Count(phase) == Cardinality({s \in DOMAIN all : all[s] = phase}) IN
    IF Count("connected") > 0 THEN <<"connected", Count("connected")>>
    ELSE IF Count("punching") > 0 THEN <<"punching", 0>> ELSE <<"rendezvous", 0>>

\* StateTracker::set and remove.
Tracked(all) == phases' = all /\ shown' = Aggregate(all)
Phase(s, phase) == Tracked(With(phases, s, phase))
Record(s, kind) == log' = [log EXCEPT ![s] = Append(@, kind)]
Queued(s) == s \in DOMAIN ctl /\ ctl[s] # <<>>

\* send_command: try_send to the task, if there is one.
Commanded(s, cmd) ==
    IF s \in DOMAIN ctl /\ Len(ctl[s]) < COMMANDS
    THEN [ctl EXCEPT ![s] = Append(@, cmd)] ELSE ctl

-----------------------------------------------------------------------------
\* The task of a hole, up to the hole.

\* HoleFactory::make, then the first phase of the mode.
Make(s) ==
    /\ stage[s] = "none"
    /\ ctl' = With(ctl, s, <<>>)
    /\ \E first \in {"starting", "punching"} : Move(s, first) /\ Phase(s, first)
    /\ UNCHANGED <<confirmed, registry, log, traffic, orders, sending>>

NextPhase(s) ==
    /\ \/ stage[s] = "starting" /\ Move(s, "rendezvous") /\ Phase(s, "rendezvous")
       \/ stage[s] = "rendezvous" /\ Move(s, "punching") /\ Phase(s, "punching")
    /\ UNCHANGED <<confirmed, ctl, registry, log, traffic, orders, sending>>

\* LinkRegistry::insert.
Inserted(s, state) ==
    /\ by_slot' = With(by_slot, s, state)
    /\ index' = index \cup {s}
    /\ reports' = reports \ {s}

\* The beginning of SlotBase::hold: commands of before are not for this hole.
Hold(s) ==
    /\ stage[s] = "punching"
    /\ ctl' = [ctl EXCEPT ![s] = <<>>]
    /\ LET warming == ConfirmPeer /\ ~confirmed[s] IN
       /\ Inserted(s, IF warming THEN "Warming" ELSE "Active")
       /\ Move(s, IF warming THEN "warming" ELSE "holding")
    /\ Record(s, "opened")
    /\ Phase(s, "connected")
    /\ UNCHANGED <<confirmed, traffic, orders, sending>>

-----------------------------------------------------------------------------
\* The hole is held.

\* LinkRegistry::mark_active, mark_draining.
Marked(s, states, state) ==
    by_slot' = IF s \in DOMAIN by_slot /\ by_slot[s] \in states
               THEN [by_slot EXCEPT ![s] = state] ELSE by_slot

\* confirm_tick, with the path confirmed.
Warm(s) ==
    /\ stage[s] = "warming" /\ confirmed[s]
    /\ Marked(s, {"Warming"}, "Active") /\ Move(s, "holding")
    /\ UNCHANGED <<confirmed, ctl, index, reports, tracker, log, traffic, orders, sending>>

\* LinkRegistry::remove, the last step of hold.
Removed(s) ==
    /\ by_slot' = Without(by_slot, s)
    /\ index' = index \ {s}
    /\ reports' = reports \ {s}

\* hold ends at once, with an event in the journal.
Leave(s, kind) ==
    /\ Record(s, kind) /\ Removed(s) /\ Move(s, "leaving")
    /\ UNCHANGED <<confirmed, ctl, tracker, traffic, orders, sending>>

\* PeerLink::lost.
Lost(s) == stage[s] \in Held /\ Leave(s, "lost")

\* confirm_tick, CONFIRM_TIMEOUT after the hole was opened.
NotConfirmed(s) == stage[s] = "warming" /\ ~confirmed[s] /\ Leave(s, "not_confirmed")

\* A command in hold begins the drain; in drain PeerDrain confirms our own
\* request, and the rest changes nothing.
Take(s) ==
    /\ stage[s] \in Held \cup Draining /\ Queued(s)
    /\ ctl' = [ctl EXCEPT ![s] = Tail(@)]
    /\ IF Head(ctl[s]) = "PeerDrain" /\ stage[s] # "draining"
       THEN /\ Move(s, "draining") /\ Phase(s, "draining")
            /\ Marked(s, {"Warming", "Active"}, "Draining")
       ELSE /\ Move(s, IF stage[s] \in Held THEN "asking" ELSE stage[s])
            /\ UNCHANGED <<by_slot, tracker>>
    /\ IF stage[s] \in Held
       THEN Record(s, IF Head(ctl[s]) = "Retire" THEN "drained_by_us" ELSE "drained_by_peer")
       ELSE UNCHANGED log
    /\ UNCHANGED <<confirmed, index, reports, traffic, orders, sending>>

\* Mutant: a request waits for its confirmation for ever.
NeverStopsAsking(s) == FALSE

\* on_tick: nobody confirmed for CONFIRM_WAIT.
StopAsking(s) ==
    /\ stage[s] = "asking"
    /\ Move(s, "draining") /\ Phase(s, "draining")
    /\ Marked(s, {"Warming", "Active"}, "Draining")
    /\ UNCHANGED <<confirmed, ctl, index, reports, log, traffic, orders, sending>>

\* Action::Close, then the end of hold.
Close(s) ==
    /\ stage[s] = "draining"
    /\ Removed(s) /\ Move(s, "leaving")
    /\ UNCHANGED <<confirmed, ctl, tracker, log, traffic, orders, sending>>

\* Mutant: the base leaves the registry to hold.
DropWithoutRemoval(s, to) ==
    /\ Move(s, to)
    /\ ctl' = Without(ctl, s) /\ Tracked(Without(phases, s))
    /\ confirmed' = [confirmed EXCEPT ![s] = FALSE] /\ traffic' = [traffic EXCEPT ![s] = NoTraffic]
    /\ UNCHANGED <<registry, log, orders, sending>>

\* SlotBase::drop; the link and its counters go with the task.
Drop(s, to) ==
    /\ Move(s, to)
    /\ ctl' = Without(ctl, s) /\ Tracked(Without(phases, s))
    /\ confirmed' = [confirmed EXCEPT ![s] = FALSE] /\ traffic' = [traffic EXCEPT ![s] = NoTraffic]
    /\ Removed(s)
    /\ UNCHANGED <<log, orders, sending>>

Finish(s) == stage[s] = "leaving" /\ Drop(s, "gone")

\* AbortOnDrop of the task; a punch that failed ends it as well.
Abort(s) == stage[s] \in Alive \ {"leaving"} /\ Drop(s, "aborted")

-----------------------------------------------------------------------------
\* What comes from the peer.

\* A packet of the peer over the hole, or its loss.
Packet(s) ==
    /\ stage[s] \in {"punching"} \cup Held \cup Draining
    /\ traffic[s].peer < MaxSent
    /\ \E got \in {0, 1} :
         /\ traffic' = [traffic EXCEPT ![s] = [peer |-> @.peer + 1, got |-> @.got + got]]
         /\ confirmed' = [confirmed EXCEPT ![s] = @ \/ got = 1]
    /\ UNCHANGED <<stage, ctl, registry, tracker, log, orders, sending>>

LinkIsBad(sent, received) == sent >= MIN_STATS_SAMPLE /\ received * 2 < sent

\* is_link_bad: of a hole that is not in the registry nothing is said.
ReceivedOn(s) == IF s \in DOMAIN by_slot THEN traffic[s].got ELSE MaxSent

\* PeerStats: a count the peer had of its packets at some time.
PeerStats(s) ==
    \E sent \in 0 .. traffic[s].peer :
        LET bad == LinkIsBad(sent, ReceivedOn(s)) IN
        /\ stage[s] \notin {"none", "starting", "rendezvous"}
        /\ bad => orders < MaxOrders
        /\ reports' = IF s \in DOMAIN by_slot THEN reports \cup {s} ELSE reports
        /\ IF bad THEN Record(s, "bad") /\ ctl' = Commanded(s, "Retire") /\ orders' = orders + 1
                  ELSE UNCHANGED <<log, ctl, orders>>
        /\ UNCHANGED <<stage, confirmed, by_slot, index, tracker, traffic, sending>>

\* PeerDrain and DeleteLink of the peer; move_slot and the policy.
Order(s, cmd) ==
    /\ s \in DOMAIN ctl /\ orders < MaxOrders
    /\ ctl' = Commanded(s, cmd) /\ orders' = orders + 1
    /\ UNCHANGED <<stage, confirmed, registry, tracker, log, traffic, sending>>

-----------------------------------------------------------------------------
\* The choice of a hole for a packet.

InState(state) == {s \in DOMAIN by_slot : by_slot[s] = state}

\* Active holes, or draining ones when there are no others.
Wanted == IF InState("Active") # {} THEN InState("Active") ELSE InState("Draining")

\* limit_slots: the holes with the lowest numbers.
Limited(slots) ==
    IF DataHoles = 0 THEN slots
    ELSE {s \in slots : Cardinality({t \in slots : t < s}) < DataHoles}

\* Mutant: the cycle begins anew with every packet.
CycleOfAll(live) == live

\* SlotPicker::pick: what is left of the cycle, or a new cycle.
Cycle(live) == IF remaining \cap live # {} THEN remaining \cap live ELSE live

\* choose_link; with more holes than TARGET_LINKS it sees some of them.
Send(s) ==
    \E seen \in SUBSET Wanted :
        /\ Cardinality(seen) = IF Cardinality(Wanted) < TARGET_LINKS
                               THEN Cardinality(Wanted) ELSE TARGET_LINKS
        /\ s \in Cycle(Limited(seen))
        /\ remaining' = Cycle(Limited(seen)) \ {s}
        /\ passed' = [t \in Slot |-> IF t \in Limited(seen) \ {s} THEN passed[t] + 1 ELSE 0]
        /\ UNCHANGED <<stage, confirmed, ctl, registry, tracker, log, traffic, orders>>

Step(s) ==
    \/ Make(s) \/ NextPhase(s) \/ Hold(s)
    \/ Warm(s) \/ Lost(s) \/ NotConfirmed(s) \/ Take(s) \/ StopAsking(s) \/ Close(s) \/ Finish(s)

Next ==
    \E s \in Slot :
        \/ Step(s) \/ Abort(s) \/ Packet(s) \/ PeerStats(s) \/ Send(s)
        \/ \E cmd \in Command : Order(s, cmd)

\* Timers and tasks run; the network, the peer and the application do what they will.
Fairness == \A s \in Slot :
    /\ WF_vars(Take(s)) /\ WF_vars(StopAsking(s)) /\ WF_vars(Close(s)) /\ WF_vars(Finish(s))
    /\ WF_vars(Warm(s) \/ NotConfirmed(s))

Spec == Init /\ [][Next]_vars
FairSpec == Spec /\ Fairness
-----------------------------------------------------------------------------
In(s, stages) == stage[s] \in stages

\* "No traces are left" (SlotBase::drop): whatever order the commands, reports,
\* losses and aborts come in, the channels, phases, live holes, link ids and
\* reports are those of the running tasks, and the states of the registry are
\* the ones the tasks are in.  The status counts the holes that are not draining.
TracesFollowTasks ==
    /\ DOMAIN ctl = {s \in Slot : In(s, Alive)}
    /\ DOMAIN phases = DOMAIN ctl
    /\ DOMAIN by_slot = {s \in Slot : In(s, Held \cup Draining)}
    /\ index = DOMAIN by_slot /\ reports \subseteq index
    /\ \A s \in DOMAIN by_slot :
         /\ by_slot[s] = "Draining" <=> In(s, {"draining"})
         /\ by_slot[s] = "Warming" => In(s, {"warming", "asking"})
         /\ phases[s] = IF by_slot[s] = "Draining" THEN "draining" ELSE "connected"
    /\ shown[2] = Cardinality({s \in DOMAIN phases : phases[s] # "draining" /\
                                     In(s, Held \cup {"asking", "leaving"})})

\* The load is shared: a hole that packets may go over is passed by at most
\* twice the other holes, whichever holes come, drain and go meanwhile.
LoadIsShared == \A s \in Slot : passed[s] <= 2 * (Cardinality(Slot) - 1)

\* A hole that was told to go, by us or by the peer, goes, and leaves nothing.
RetiredHolesGo ==
    \A s \in Slot : (In(s, Held) /\ Queued(s)) \/ In(s, Draining) ~> In(s, Ended)
=============================================================================
