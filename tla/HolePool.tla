------------------------------ MODULE HolePool ------------------------------
(***************************************************************************)
(* The set of holes a VPS client keeps: the Manager that evaluates the     *)
(* policy (PoolPolicy; vps/mod.rs) and the holes it opens and asks         *)
(* to drain, as far as the policy sees them (SlotBase::hold, ClientHole).  *)
(*                                                                         *)
(* The holes are a sequence, the oldest first.  Ages are abstracted to the *)
(* two thresholds the policy compares them with, losses to three grades,   *)
(* and the moments of both are free; holes opened by one evaluation, whose *)
(* ages are equal, keep the order of the sequence.                         *)
(***************************************************************************)
EXTENDS PoolPolicy

CONSTANT MaxTroubles  \* bound on holes lost, not opened, bad, drained by the peer

ASSUME TroublesAssumption == MaxTroubles \in Nat

VARIABLES
    holes,            \* Manager.holes with each hole's entry in the registry
    mayGrow,          \* add_interval has passed since last_open
    troubles          \* counts towards MaxTroubles

poolVars == <<holes, mayGrow, troubles>>

\* opening: not in the registry yet (asking, connecting); confirming: asks the
\* peer to drain, Active in the registry; gone: left the registry, its Ended
\* not yet received by the manager.
State == {"opening", "active", "confirming", "draining", "gone"}
Age == {"young", "mature", "expired"}   \* under grace, under max_age, over it
Loss == {"fine", "lossy", "bad"}        \* over cull_loss (a full sample), over bad_loss

\* asked: a Retire is in the channel of the hole's commands.
Hole == [state : State, asked : BOOLEAN, age : Age, loss : Loss]

NewHole == [state |-> "opening", asked |-> FALSE, age |-> "young", loss |-> "fine"]

PoolInit == holes = <<>> /\ mayGrow = TRUE /\ troubles = 0

-----------------------------------------------------------------------------
\* Manager::evaluate.

\* HoleCmd::Retire goes into the hole's channel; a hole that is being drained
\* ignores it, and one that is gone has no channel.
AskToRetire(hs, retire) ==
    [i \in Index(hs) |->
        IF i \in retire /\ hs[i].state \in {"opening", "active"}
        THEN [hs[i] EXCEPT !.asked = TRUE] ELSE hs[i]]

Evaluate(hs) ==
    \E decision \in Plan(hs, mayGrow) :
        LET opened == Openable(hs, decision.open)
        IN  /\ holes' = AskToRetire(hs, decision.retire) \o [i \in 1 .. opened |-> NewHole]
            /\ mayGrow' = (mayGrow /\ opened = 0)

\* The ticker, once in MANAGE_INTERVAL.
ManagerTick == Evaluate(holes) /\ UNCHANGED troubles

\* Mutant: the record of the hole is kept.
EndedKeepsRecord(i) ==
    /\ i \in InState(holes, {"gone"})
    /\ Evaluate(holes)
    /\ UNCHANGED troubles

\* Ended of a hole: it is forgotten, and the pool evaluated at once.
Ended(i) ==
    /\ i \in InState(holes, {"gone"})
    /\ Evaluate(RemoveAt(holes, i))
    /\ UNCHANGED troubles

AddIntervalPasses == ~mayGrow /\ mayGrow' = TRUE /\ UNCHANGED <<holes, troubles>>

-----------------------------------------------------------------------------
\* One hole (ClientHole::serve, SlotBase::hold, SlotBase::drain).

Becomes(i, hole) == holes' = [holes EXCEPT ![i] = hole] /\ UNCHANGED mayGrow

\* Out of work: its age and losses matter no more.
Leaving(state) == [NewHole EXCEPT !.state = state]

Trouble == troubles < MaxTroubles /\ troubles' = troubles + 1

\* The hole is established; hold throws away the commands that came before.
Connected(i) ==
    /\ i \in InState(holes, {"opening"})
    /\ Becomes(i, [NewHole EXCEPT !.state = "active"])
    /\ UNCHANGED troubles

\* OPEN_TIMEOUT, no socket, or the connection failed.
NotOpened(i) ==
    /\ i \in InState(holes, {"opening"})
    /\ Becomes(i, Leaving("gone")) /\ Trouble

\* The hole receives Retire.
TakeRetire(i) ==
    /\ i \in Index(holes) /\ holes[i].asked
    /\ \/ holes[i].state = "opening" /\ Becomes(i, Leaving("gone"))
       \/ /\ holes[i].state = "active"
          /\ Becomes(i, [holes[i] EXCEPT !.state = "confirming", !.asked = FALSE])
    /\ UNCHANGED troubles

\* The peer confirmed the drain, or did not in CONFIRM_WAIT: MarkDraining.
DrainBegins(i) ==
    /\ i \in InState(holes, {"confirming"})
    /\ Becomes(i, Leaving("draining"))
    /\ UNCHANGED troubles

\* GRACE is over: the hole leaves the registry, its task ends.
DrainEnds(i) ==
    /\ i \in InState(holes, {"draining"})
    /\ Becomes(i, Leaving("gone"))
    /\ UNCHANGED troubles

\* The peer asks to drain the hole: Drain or DeleteLink.
PeerDrains(i) ==
    /\ \/ i \in InState(holes, {"active"}) /\ Becomes(i, Leaving("draining"))
       \/ i \in InState(holes, {"opening"}) /\ Becomes(i, Leaving("gone"))
    /\ Trouble

\* Nothing came over the hole for its lost timeout.
Lost(i) ==
    /\ i \in InState(holes, {"active"})
    /\ Becomes(i, Leaving("gone")) /\ Trouble

\* control_loop finds that over half of the peer's packets were lost.
BadLink(i) ==
    /\ i \in InState(holes, {"active"}) /\ ~holes[i].asked
    /\ Becomes(i, [holes[i] EXCEPT !.asked = TRUE]) /\ Trouble

Ages(i) ==
    /\ i \in InWork(holes) /\ holes[i].age # "expired"
    /\ Becomes(i, [holes[i] EXCEPT !.age = IF @ = "young" THEN "mature" ELSE "expired"])
    /\ UNCHANGED troubles

\* A report of the peer: the losses of the hole are counted anew.
Report(i, loss) ==
    /\ i \in InWork(holes) /\ loss # holes[i].loss
    /\ Becomes(i, [holes[i] EXCEPT !.loss = loss])
    /\ IF loss = "fine" THEN UNCHANGED troubles ELSE Trouble

HoleStep(i) == Connected(i) \/ TakeRetire(i) \/ DrainBegins(i) \/ DrainEnds(i) \/ Ended(i)

PoolNext ==
    \/ ManagerTick
    \/ AddIntervalPasses
    \/ \E i \in Index(holes) :
          \/ HoleStep(i) \/ NotOpened(i) \/ PeerDrains(i) \/ Lost(i) \/ BadLink(i)
          \/ Ages(i) \/ \E loss \in Loss : Report(i, loss)

\* The manager's ticker and the timers of each hole run; a hole that meets no
\* trouble opens.  Nothing is assumed of ages, reports and troubles.
PoolFairness ==
    /\ WF_poolVars(ManagerTick) /\ WF_poolVars(AddIntervalPasses)
    /\ \A i \in 1 .. max_total * 2 : WF_poolVars(HoleStep(i))

PoolSpec == PoolInit /\ [][PoolNext]_poolVars
PoolFairSpec == PoolSpec /\ PoolFairness

-----------------------------------------------------------------------------
\* Properties.

\* Every hole is in a known state, and the manager never holds more holes than
\* max_total * 2, whatever the policy asks for (vps/mod.rs:808).
PoolTypeOK ==
    /\ holes \in Seq(Hole) /\ Len(holes) <= max_total * 2
    /\ mayGrow \in BOOLEAN
    /\ troubles \in 0 .. MaxTroubles

\* Holes in work that nobody has asked to leave.
Staying(hs) == {i \in InState(hs, {"active"}) : ~hs[i].asked}

\* A step in which no hole meets trouble and none is badly lossy; the holes in
\* work become fewer only by the plan.
Planned == troubles' = troubles /\ BadlyLossy(holes) = {}

KeepsMinimum ==
    \/ Cardinality(Staying(holes')) >= min_active
    \/ Cardinality(Staying(holes')) >= Cardinality(Staying(holes))

\* "Only if it does not take the holes in work below the minimum"
\* (holes.rs:194): while no hole is on its way out of work, no planned retirement
\* leaves fewer than min_active holes in work; what is still opening never
\* stands in for a hole that works (holes.rs:175-176).
LonePlanKeepsMinimum ==
    [][Planned /\ InWork(holes) = Staying(holes) => KeepsMinimum]_poolVars

\* Once troubles end, a pool with too few holes in work gets enough of them.
MinimumRestored ==
    Cardinality(Staying(holes)) < min_active ~> Cardinality(Staying(holes)) >= min_active

\* The oldest hole does not outlive its lifetime for ever: there will be slack
\* to drain it, whatever the losses and the other holes do.
OldestExpired == Len(holes) > 0 /\ Head(holes).age = "expired"
OldestIsRotated == OldestExpired ~> ~OldestExpired
=============================================================================
