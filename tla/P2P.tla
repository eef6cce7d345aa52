-------------------------------- MODULE P2P --------------------------------
(***************************************************************************)
(* P2P mode (p2p/mod.rs): two sides behind NATs, without roles.  Each keeps *)
(* a set of holes by the same policy (holes::plan, PoolPolicy); a          *)
(* record of the peer about a hole that is not known makes a side open its *)
(* end of it.  Records go over the holes that work, and while there is     *)
(* none through the MQTT broker, which retains them (p2p/mqtt.rs).         *)
(*                                                                         *)
(* Every hole that is opened has a session of its own; sessions of a side  *)
(* are numbered in the order they are opened.  Two ends of a hole meet     *)
(* when each is punching to the session of the other (module HoleLink).    *)
(***************************************************************************)
EXTENDS PoolPolicy

CONSTANTS
    FirstId,                \* the number the holes of a side start from
    CLOSED_MEMORY,          \* how many closed holes a side remembers
    Bounds                  \* bounds on the sessions of a side, on troubles (restarts
                            \* and holes that fail), and whether add_interval passes

ASSUME P2PAssumption ==
    /\ FirstId \in [{"a", "b"} -> Nat] /\ CLOSED_MEMORY \in Nat \ {0}
    /\ Bounds \subseteq [sessions : Nat, troubles : Nat, growth : SUBSET BOOLEAN]

Side == {"a", "b"}
OtherSide(s) == IF s = "a" THEN "b" ELSE "a"
NoSession == 0

VARIABLES
    holes,            \* Core.holes with the task of each
    closed,           \* Core.closed: numbers with the peer's session, the last at the end
    next_id,
    grace,            \* START_GRACE has not passed
    opened,           \* sessions of a side so far
    broker,           \* retained records of each side
    seen,             \* records each side has had from the broker
    served,           \* history: the record each number was last answered for
    bound, troubles

core == <<closed, next_id, grace, opened, served>>
p2pVars == <<holes, core, broker, seen, bound, troubles>>

\* A hole with its external addresses known: its number, our session, its phase, the
\* session it punches to, the last session of the peer that came for it, whether its
\* record has reached the peer.
Hole(id, session, last) ==
    [id |-> id, session |-> session, phase |-> IF last = NoSession THEN "waiting" ELSE "punching",
     peer |-> last, last |-> last, told |-> FALSE]

Unlinked == {"waiting", "punching"}

\* The holes of a side are in the order they were opened.
InPhase(s, phases) == {i \in DOMAIN holes[s] : holes[s][i].phase \in phases}
Turns(s, i, phase) == holes' = [holes EXCEPT ![s][i].phase = phase]

P2PInit ==
    /\ holes = [s \in Side |-> <<>>]
    /\ closed = holes
    /\ broker = [s \in Side |-> {}] /\ seen = broker /\ served = broker
    /\ next_id = FirstId
    /\ grace = [s \in Side |-> TRUE] /\ opened = [s \in Side |-> 0] /\ bound \in Bounds /\ troubles = 0

-----------------------------------------------------------------------------
\* execute and spawn_hole: a task for the hole id, beside the holes hs, with a session
\* of its own.
Spawn(s, hs, id, last) == Append(hs, Hole(id, opened[s] + 1, last))

\* Core.

\* What the policy sees of the holes (holes::snapshot).
View(hs) ==
    [i \in DOMAIN hs |-> [state |-> IF hs[i].phase \in Unlinked THEN "opening" ELSE hs[i].phase,
                          asked |-> FALSE, loss |-> "fine", age |-> "young"]]

\* The next number of ours, past those that the peer has taken.
FreeId(s, hs) ==
    LET taken == {hs[i].id : i \in DOMAIN hs}
    IN  Min(next_id[s] .. next_id[s] + Len(hs) \ taken)

\* evaluate: what the policy opens beside the holes hs, one at a time; add_interval
\* may have passed or not.
Evaluate(s, hs) ==
    \E mayGrow \in bound.growth : \E decision \in Plan(View(hs), mayGrow) :
        IF Openable(View(hs), decision.open) > 0 /\ opened[s] < bound.sessions
        THEN /\ holes' = [holes EXCEPT ![s] = Spawn(s, hs, FreeId(s, hs), NoSession)]
             /\ opened' = [opened EXCEPT ![s] = @ + 1]
             /\ next_id' = [next_id EXCEPT ![s] = FreeId(s, hs) + 1]
        ELSE holes' = [holes EXCEPT ![s] = hs] /\ UNCHANGED <<opened, next_id>>

\* Mutant: every hole takes a place.
MatchedAll(s) == DOMAIN holes[s]

\* The holes that take a place when the peer opens one: not those it has yet to answer.
Matched(s) == {i \in DOMAIN holes[s] : holes[s][i].last # NoSession}

\* A record of the peer for a hole of ours: the task takes it while it waits or punches.
Forwarded(h, session) ==
    [h EXCEPT !.last = session,
              !.peer = IF h.phase \in Unlinked THEN session ELSE @,
              !.phase = IF h.phase = "waiting" THEN "punching" ELSE @]

\* The end of the peer whose record reaches us knows no more than that it was sent.
Told(s, r) ==
    [holes EXCEPT ![s] =
        [i \in DOMAIN @ |-> IF @[i].id = r.id /\ @[i].session = r.session
                            THEN [@[i] EXCEPT !.told = TRUE] ELSE @[i]]]

\* History: a record of a number replaces the earlier one.
Answered(s, r) == [served EXCEPT ![s] = {q \in @ : q[1] # r.id} \cup {<<r.id, r.session>>}]

\* on_peer, when the record r of the other side reaches s: it is forwarded, or the
\* hole is opened, or there is no place for it, or it was closed before.
OnPeer(s, r) ==
    LET told == Told(OtherSide(s), r)
        known == {i \in DOMAIN holes[s] : holes[s][i].id = r.id}
    IN  \/ /\ known # {}
           /\ holes' = [told EXCEPT ![s] = [i \in DOMAIN @ |->
                           IF i \in known THEN Forwarded(@[i], r.session) ELSE @[i]]]
           /\ served' = Answered(s, r)
           /\ UNCHANGED <<closed, next_id, grace, opened>>
        \/ /\ known = {}
           /\ <<r.id, r.session>> \in ToSet(closed[s]) \/ Cardinality(Matched(s)) >= max_total
           /\ holes' = told /\ UNCHANGED core
        \/ /\ known = {} /\ <<r.id, r.session>> \notin ToSet(closed[s])
           /\ Cardinality(Matched(s)) < max_total /\ opened[s] < bound.sessions
           /\ holes' = [told EXCEPT ![s] = Spawn(s, @, r.id, r.session)]
           /\ opened' = [opened EXCEPT ![s] = @ + 1]
           /\ served' = Answered(s, r)
           /\ UNCHANGED <<closed, next_id, grace>>

\* The memory has room for CLOSED_MEMORY holes: the one closed first is forgotten.
Recent(list) == IF Len(list) > CLOSED_MEMORY THEN Tail(list) ELSE list

\* Mutant: only a hole that was linked is remembered.
RememberedLinked(s, h) ==
    IF h.peer = NoSession \/ h.told THEN closed[s]
    ELSE Recent(Append(closed[s], <<h.id, h.last>>))

\* on_ended: the number is remembered with the session that came for it.
Remembered(s, h) ==
    IF h.last = NoSession THEN closed[s] ELSE Recent(Append(closed[s], <<h.id, h.last>>))

\* Mutant: the record of a hole stays when its task ends.
LeftInPlace(hs, i) == hs

\* The holes without that of the task that has ended.
Left(hs, i) == RemoveAt(hs, i)

\* The manager hears that a task has ended, and looks at once what is missing.
Ended(s) ==
    \E i \in InPhase(s, {"gone"}) :
        /\ closed' = [closed EXCEPT ![s] = Remembered(s, holes[s][i])]
        /\ \/ grace[s] /\ holes' = [holes EXCEPT ![s] = Left(@, i)]
                       /\ UNCHANGED <<opened, next_id>>
           \/ ~grace[s] /\ Evaluate(s, Left(holes[s], i))
        /\ UNCHANGED <<grace, served, broker, seen, troubles>>

\* The ticker of the manager.
Manage(s) ==
    /\ ~grace[s] /\ Evaluate(s, holes[s])
    /\ UNCHANGED <<closed, grace, served, broker, seen, troubles>>

\* START_GRACE is over.
GraceIsOver(s) ==
    /\ grace[s] /\ grace' = [grace EXCEPT ![s] = FALSE]
    /\ UNCHANGED <<holes, closed, next_id, opened, served, broker, seen, troubles>>

-----------------------------------------------------------------------------
\* One hole: P2pHole::serve.

\* Whether the other side has an end in one of the phases that h and it punch to
\* each other.
Met(s, h, phases) ==
    \E j \in InPhase(OtherSide(s), phases) :
        LET g == holes[OtherSide(s)][j]
        IN  g.id = h.id /\ g.session = h.peer /\ g.peer = h.session

\* Holes that records go over.
Links(s) == InPhase(s, {"active"})

\* our_record, signed for the peer.
RecordOf(h) == [id |-> h.id, session |-> h.session]

\* publish_slot: each hole of ours has a topic, and its last record is retained there.
Published(s, r) == [broker EXCEPT ![s] = {q \in @ : q.id # r.id} \cup {r}]

\* spawn_announce: over the holes, if there are any, else to the broker.
Announce(s) ==
    \E i \in InPhase(s, Unlinked) :
        LET r == RecordOf(holes[s][i]) IN
        \/ /\ Links(s) = {}
           /\ broker' = Published(s, r)
           /\ UNCHANGED <<holes, core, seen, troubles>>
        \/ /\ \E j \in Links(s) : Met(s, holes[s][j], {"active"})
           /\ OnPeer(OtherSide(s), r)
           /\ UNCHANGED <<broker, seen, troubles>>

\* A record comes from the broker: each is handed to the manager once.
FromBroker(s) ==
    \E r \in broker[OtherSide(s)] \ seen[s] :
        /\ seen' = [seen EXCEPT ![s] = @ \cup {r}]
        /\ OnPeer(s, r)
        /\ UNCHANGED <<broker, troubles>>

\* establish, and hold's confirmation, when the other end punches to us as well.
Link(s) ==
    \E i \in InPhase(s, {"punching"}) :
        /\ Met(s, holes[s][i], {"punching", "active"}) /\ Turns(s, i, "active")
        /\ UNCHANGED <<core, broker, seen, troubles>>

\* All that takes a few seconds has been done: the ends of tasks have been heard of, links
\* without their other end are gone, what a side told the broker has reached the other,
\* and so has the record of each hole that has yet to link.
Quiet ==
    \A s \in Side :
        /\ InPhase(s, {"gone"}) = {} /\ broker[s] \subseteq seen[OtherSide(s)]
        /\ \A i \in Links(s) : Met(s, holes[s][i], {"punching", "active"})
        /\ \A i \in InPhase(s, Unlinked) : holes[s][i].told

\* Holes that punch in vain: to a session that is gone, or has met another.
InVain(s) ==
    {i \in InPhase(s, {"punching"}) :
        \A j \in InPhase(OtherSide(s), Unlinked \cup {"active"}) :
            LET h == holes[s][i]
                g == holes[OtherSide(s)][j]
            IN  g.session = h.peer => g.phase = "active" /\ g.peer # h.session}

\* The link is lost; or HOLE_DEADLINE or RECORD_WAIT is over, 90 and 15 seconds, longer
\* than all that settles.  A wait that ends sooner, or while the other side still
\* punches in vain (it may six times), is one of the troubles: Fail.
HoleEnds(s) ==
    \E i \in DOMAIN holes[s] :
        /\ \/ i \in Links(s) /\ ~Met(s, holes[s][i], {"punching", "active"})
           \/ Quiet /\ i \in InVain(s)
           \/ Quiet /\ i \in InPhase(s, {"waiting"}) /\ InVain(OtherSide(s)) = {}
        /\ Turns(s, i, "gone")
        /\ UNCHANGED <<core, broker, seen, troubles>>

-----------------------------------------------------------------------------
\* Outside.

\* Holes that both sides have in work.
Common == {i \in InPhase("a", {"active"}) : Met("a", holes["a"][i], {"active"})}

\* A hole fails at one end, in any phase: the keepalive, a timer of HoleEnds that is not
\* as slow as there, an error, or the policy retires it.
Fail(s) ==
    /\ troubles < bound.troubles /\ troubles' = troubles + 1
    /\ \E i \in DOMAIN holes[s] \ InPhase(s, {"gone"}) : Turns(s, i, "gone")
    /\ UNCHANGED <<core, broker, seen>>

\* The process of a side is replaced; what it told the broker stays there.
Restart(s) ==
    /\ Common # {} /\ troubles < bound.troubles /\ troubles' = troubles + 1
    /\ holes' = [holes EXCEPT ![s] = <<>>] /\ closed' = [closed EXCEPT ![s] = <<>>]
    /\ seen' = [seen EXCEPT ![s] = {}] /\ served' = [served EXCEPT ![s] = {}]
    /\ next_id' = [next_id EXCEPT ![s] = FirstId[s]] /\ grace' = [grace EXCEPT ![s] = TRUE]
    /\ UNCHANGED <<opened, broker>>

\* What the processes do of themselves.
Step(s) ==
    /\ \/ Manage(s) \/ Ended(s) \/ GraceIsOver(s)
       \/ Announce(s) \/ FromBroker(s) \/ Link(s) \/ HoleEnds(s)
    /\ UNCHANGED bound

P2PNext == \E s \in Side : Step(s) \/ ((Fail(s) \/ Restart(s)) /\ UNCHANGED bound)

P2PSpec == P2PInit /\ [][P2PNext]_p2pVars
\* The manager's loop, the tasks of the holes and their timers run; the broker and
\* STUN answer.
P2PFairSpec == P2PSpec /\ WF_p2pVars(\E s \in Side : Step(s))
-----------------------------------------------------------------------------
P2PTypeOK ==
    \A s \in Side :
        /\ InPhase(s, Unlinked \cup {"active", "gone"}) = DOMAIN holes[s]
        /\ \A i, j \in DOMAIN holes[s] : holes[s][i].id = holes[s][j].id => i = j

\* A late copy of the record that a number was last answered for, by whatever way it
\* comes, opens no hole for an end that is gone, as long as the memory has room.  Of an
\* end that was answered for two records only the later is remembered.
NoneServedTwice ==
    [][\A s \in Side : \A i \in DOMAIN holes'[s] :
          LET h == holes'[s][i]
          IN  h.session > opened[s] /\ h.last # NoSession /\ Len(closed[s]) < CLOSED_MEMORY
                 => <<h.id, h.last>> \notin served[s]]_p2pVars

\* Nothing has gone wrong: the sides come to a full set, also when each opens a hole
\* for the last place at once (Core::on_peer's "тупик").
GrowTogether == <>[](bound.troubles > 0 \/ Cardinality(Common) >= max_total)

\* After a trouble there is a hole in work on both sides again.  It may be the restart of
\* a side while the other still holds its ends, the broker still hands out the records of
\* sessions that are gone, and numbers are taken again.
Recover == <>[](Cardinality(Common) >= min_active)
=============================================================================
