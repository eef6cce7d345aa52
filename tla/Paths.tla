------------------------------- MODULE Paths -------------------------------
(***************************************************************************)
(* How a VPS client judges the paths of its holes, directly to the server  *)
(* or through a relay, and which it may take for a new one (vps/paths.rs,  *)
(* relay_wanted of vps/mod.rs).  Pure functions: the clock is in the       *)
(* modules that use them.  Losses are integers, in thousandths.            *)
(***************************************************************************)
EXTENDS Integers, FiniteSetsExt

CONSTANTS
    Relay,            \* bootstrap ports of relays; their order is the order of the list
    MIN_SAMPLE

\* Route::None.
Direct == 0

ASSUME PathsAssumption ==
    IsFiniteSet(Relay) /\ Relay \subseteq Nat \ {Direct} /\ MIN_SAMPLE \in Nat \ {0}

Route == Relay \cup {Direct}

RATIO == 2
FLOOR == 10

-----------------------------------------------------------------------------
\* path_losses.  A hole has a route, counts of the packets sent and received, the losses
\* of each direction, if they are known yet, and is old enough (MIN_AGE) or not.

NotKnown == -1

OldOn(holes, route) == {h \in DOMAIN holes : holes[h].old /\ holes[h].route = route}

Judgeable(holes) == {route \in Route : OldOn(holes, route) # {}}

Sum(holes, on, Value(_)) == MapThenSumSet(LAMBDA h : Value(holes[h]), on)

Ratio(lost, total) == IF total = 0 THEN 0 ELSE lost \div total

\* The holes of a route whose losses are known in one direction.
Outward(holes, route) == {h \in OldOn(holes, route) : holes[h].loss_out # NotKnown}
Inward(holes, route) == {h \in OldOn(holes, route) : holes[h].loss_in # NotKnown}

Sent(holes, route) == Sum(holes, Outward(holes, route), LAMBDA s : s.sent)
Received(holes, route) == Sum(holes, Inward(holes, route), LAMBDA s : s.received)

Sample(holes, route) == Max({Sent(holes, route), Received(holes, route)})

\* The worse of the two directions, each weighted by packets.
PathLoss(holes, route) ==
    Max({Ratio(Sum(holes, Outward(holes, route), LAMBDA s : s.loss_out * s.sent),
               Sent(holes, route)),
         Ratio(Sum(holes, Inward(holes, route), LAMBDA s : s.loss_in * s.received),
               Received(holes, route))})

\* judge: the paths that lose more than RATIO times what the best one loses.
Judged(holes) ==
    LET eligible == {r \in Judgeable(holes) : Sample(holes, r) >= MIN_SAMPLE}
        best == Min({PathLoss(holes, r) : r \in eligible})
    IN  IF Cardinality(eligible) < 2 THEN {}
        ELSE {r \in eligible : PathLoss(holes, r) > RATIO * Max({best, FLOOR})}

-----------------------------------------------------------------------------
\* Blacklist::allowed: when every path is on the list, none is.
Allowed(banned, granted) ==
    IF (granted \cup {Direct}) \subseteq banned
    THEN [direct |-> TRUE, relays |-> granted]
    ELSE [direct |-> Direct \notin banned, relays |-> granted \ banned]

\* relay_wanted: the next hole of `total` goes through a relay while fewer than
\* `share` per cent of the holes do.
RelayWanted(share, relayed, total) == relayed * 100 < Min({share, 100}) * (total + 1)
=============================================================================
