----------------------------- MODULE PoolPolicy -----------------------------
(***************************************************************************)
(* The policy of a set of holes, holes::plan: what to open and what to     *)
(* retire, for the holes as holes::snapshot shows them, the oldest first.  *)
(* The VPS client's manager (HolePool) and both sides of P2P mode (P2P)    *)
(* evaluate it.                                                            *)
(***************************************************************************)
EXTENDS Integers, FiniteSets, SequencesExt

CONSTANTS
    min_active,       \* PoolPolicy::min_active
    max_total         \* PoolPolicy::max_total

ASSUME PolicyAssumption ==
    min_active \in Nat \ {0} /\ max_total \in Nat /\ min_active < max_total

Index(hs) == DOMAIN hs
InState(hs, states) == {i \in Index(hs) : hs[i].state \in states}

\* What is not in the registry counts as Warming.
Live(hs) == Index(hs) \ InState(hs, {"draining"})

\* HoleState::Active in the registry.
InWork(hs) == InState(hs, {"active", "confirming"})

BadlyLossy(hs) == {i \in Live(hs) : hs[i].loss = "bad" /\ hs[i].age # "young"}

Expired(hs) == {i \in Live(hs) : hs[i].age = "expired"}

Cullable(hs) ==
    {i \in InWork(hs) : hs[i].loss = "lossy" /\ hs[i].age # "young"}

\* The first n of a set of indices: the oldest holes.
Oldest(S, n) == {i \in S : Cardinality({j \in S : j < i}) < n}

\* Mutant: what is still opening counts as a replacement in work.
SlackWithOpening(hs) ==
    IF Cardinality(Live(hs)) > min_active THEN Cardinality(Live(hs)) - min_active ELSE 0

\* How many holes may leave work.
Slack(hs) ==
    IF Cardinality(InWork(hs)) > min_active THEN Cardinality(InWork(hs)) - min_active ELSE 0

\* Mutant: the pool never grows past the minimum, nor culls.
PlanWithoutGrowth(hs, mayGrow) ==
    LET live == Cardinality(Live(hs))
        decide(open, retire) == [open |-> open, retire |-> retire]
    IN  IF live < min_active THEN {decide(min_active - live, {})}
        ELSE {decide(Cardinality(BadlyLossy(hs)),
                     BadlyLossy(hs) \cup Oldest(Expired(hs), Slack(hs)))}

\* What an evaluation may decide: how many holes to open, which to retire.
Plan(hs, mayGrow) ==
    LET live == Cardinality(Live(hs))
        bad == BadlyLossy(hs)
        decide(open, retire) == [open |-> open, retire |-> retire]
    IN  CASE live < min_active ->
               {decide(min_active - live, {})}
          [] live >= min_active /\ bad # {} ->
               {decide(Cardinality(bad), bad)}
          [] live >= min_active /\ bad = {} /\ Slack(hs) > 0 /\ Expired(hs) # {} ->
               {decide(0, Oldest(Expired(hs), Slack(hs)))}
          [] OTHER ->
               IF Len(hs) < max_total /\ mayGrow THEN {decide(1, {})}
               ELSE IF Slack(hs) > 0 /\ Cullable(hs) # {}
                    THEN {decide(0, {i}) : i \in Cullable(hs)}
                    ELSE {decide(0, {})}

\* Action::Open is executed while there are fewer than max_total * 2 holes.
Openable(hs, n) == IF n < max_total * 2 - Len(hs) THEN n ELSE max_total * 2 - Len(hs)
=============================================================================
