------------------------------- MODULE Relays -------------------------------
(***************************************************************************)
(* The relays of a VPS server (vps/relay.rs) and the holes a client opens  *)
(* directly or through them (vps/mod.rs): the server's registry of relays  *)
(* and its announcements, the permission the client holds, the paths it    *)
(* takes, the orders "open a session" and their answers, the sessions of a *)
(* relay, and relays that crash and start again.                           *)
(*                                                                         *)
(* Messages over the holes of a relay, and announcements over the holes of *)
(* a client, are lost or late.  A hole has its number on both sides; the   *)
(* number is taken anew only when both sides have forgotten it, and stands *)
(* for the server's port of the hole as well.  Tokens are taken anew when  *)
(* nothing of the old order is left.                                       *)
(***************************************************************************)
EXTENDS Paths, SequencesExt

CONSTANTS
    Hole,             \* numbers of holes: as many as the client keeps
    Share,            \* the server's share of new holes through relays, %
    ANNOUNCE_COPIES,
    SessionPort,      \* the ports a relay has for sessions
    Token,            \* tokens of orders at once
    Turns,            \* next_relay is kept modulo this
    Measured,         \* what the client may have measured on a hole
    MaxTroubles,      \* bound on breaks, losses, stops and missed times
    None

ASSUME RelaysAssumption ==
    /\ Share \in 0 .. 100 /\ ANNOUNCE_COPIES \in Nat \ {0}
    /\ Turns \in Nat \ {0} /\ \A n \in 1 .. Cardinality(Relay) : Turns % n = 0
    /\ IsFiniteSet(Hole) /\ MaxTroubles \in Nat

VARIABLES
    up,               \* relays that run and are linked to the server
    reach,            \* routes the client's packets get through
    public, alive,    \* Relays: relays whose bootstrap port is known; not silent
    last,             \* announce: the list sent last
    offers,           \* copies of each list on their way to the client
    grant,            \* the relays permitted to the client now
    banned, next_relay,
    mine,             \* the client's holes
    theirs,           \* the server's
    pending,          \* Relays.pending: token -> the hole that waits
    wire,             \* RelayOpen or RelayReady of a token, on its way
    sessions,         \* relay -> port of a session -> the server's hole it leads to
    troubles          \* counts towards MaxTroubles

world == <<up, reach, troubles>>
clientVars == <<banned, next_relay, mine>>
announceVars == <<public, alive, last>>
sessionVars == <<pending, wire, sessions>>
vars == <<world, announceVars, offers, grant, clientVars, theirs, sessionVars>>

Lists == SUBSET Relay

\* Client: asking since it was opened, or live.
Mine == [route : Route, live : BOOLEAN]

\* Server: ServerHole waits for the relay's session, waits for the client on
\* its port, or holds the link.  orphan (history): its relay was started anew
\* since the hole was ordered.
Theirs == [route : Route, stage : {"opening", "offered", "live"},
           port : SessionPort \cup {None}, orphan : BOOLEAN]

Message == [kind : {"open", "ready"}, relay : Relay, hole : Hole \cup {None},
            port : SessionPort \cup {None}]

\* Option::None is nothing else.
ASSUME NoneAssumption ==
    None \notin Hole \cup SessionPort \cup Mine \cup Theirs \cup Message

\* The state of the three programs.
TypeOK ==
    /\ up \subseteq Relay /\ reach \subseteq Route
    /\ public \subseteq Relay /\ alive \subseteq Relay
    /\ last \in Lists \cup {None}
    /\ offers \in [Lists -> 0 .. ANNOUNCE_COPIES] /\ grant \in Lists
    /\ banned \subseteq Route /\ next_relay \in 0 .. Turns - 1
    /\ mine \in [Hole -> Mine \cup {None}] /\ theirs \in [Hole -> Theirs \cup {None}]
    /\ pending \in [Token -> Hole \cup {None}] /\ wire \in [Token -> Message \cup {None}]
    /\ sessions \in [Relay -> [SessionPort -> Hole \cup {None}]]
    /\ troubles \in 0 .. MaxTroubles

Init ==
    /\ up = {} /\ reach = Route /\ troubles = 0
    /\ public = {} /\ alive = {} /\ last = None
    /\ offers = [l \in Lists |-> 0] /\ grant = {}
    /\ banned = {} /\ next_relay = 0
    /\ mine = [h \in Hole |-> None] /\ theirs = [h \in Hole |-> None]
    /\ pending = [t \in Token |-> None] /\ wire = [t \in Token |-> None]
    /\ sessions = [r \in Relay |-> [q \in SessionPort |-> None]]

Asking(h) == mine[h] # None /\ ~mine[h].live
Live(h) == mine[h] # None /\ mine[h].live
Waits(h, stage) == theirs[h] # None /\ theirs[h].stage = stage

Trouble == troubles < MaxTroubles /\ troubles' = troubles + 1

\* A timeout is a trouble when what it waits for could still come.
TroubleIf(could) == IF could THEN Trouble ELSE UNCHANGED troubles

\* Packets get from the client to the server over a route.
Works(route) == route \in reach /\ (route = Direct \/ route \in up)

-----------------------------------------------------------------------------
\* The server's registry of relays and its announcements.

\* A relay that runs repeats RelayHello for ever, and is heard by it.
Heard(r) == r \in up

\* RelayHello: the server learns the bootstrap port of the relay.
Hello(r) ==
    /\ Heard(r) /\ r \notin public
    /\ public' = public \cup {r}
    /\ UNCHANGED <<world, alive, last, offers, grant, clientVars, theirs, sessionVars>>

\* The check of liveness, once in LIVENESS_CHECK: SILENCE, or packets again.
CheckAlive(r) ==
    /\ (r \in alive) # Heard(r)
    /\ alive' = IF Heard(r) THEN alive \cup {r} ELSE alive \ {r}
    /\ UNCHANGED <<world, public, last, offers, grant, clientVars, theirs, sessionVars>>

\* Relays::offer.
Listed == IF Share = 0 THEN {} ELSE alive \cap public

\* Mutant: the client is told when the list changes, and never reminded.
DueOnce == last # Listed /\ ~(last = None /\ Listed = {})

\* announce: is there something to tell the client?  A list that is not empty is
\* repeated every ANNOUNCE, which may be over at any moment.
Due == Listed # {} \/ last \notin {None, {}}

\* One copy over each of a few live holes; without one the list stays due.
Announce ==
    LET links == {h \in Hole : Waits(h, "live")}
    IN  /\ Due /\ links # {}
        /\ offers' = [offers EXCEPT ![Listed] = Max({@, Min({Cardinality(links), ANNOUNCE_COPIES})})]
        /\ last' = Listed
        /\ UNCHANGED <<world, public, alive, grant, clientVars, theirs, sessionVars>>

\* RelayGrant::from_offer, and control_loop keeps what it makes of the offer.
FromOffer(list) == list

ReceiveOffer(list) ==
    /\ offers[list] > 0
    /\ offers' = [offers EXCEPT ![list] = @ - 1]
    /\ grant' = FromOffer(list)
    /\ UNCHANGED <<world, announceVars, clientVars, theirs, sessionVars>>

LoseOffer(list) ==
    /\ offers[list] > 0
    /\ offers' = [offers EXCEPT ![list] = @ - 1]
    /\ Trouble
    /\ UNCHANGED <<up, reach, announceVars, grant, clientVars, theirs, sessionVars>>

\* VALID is over: RelayGrant::valid.
GrantExpires ==
    /\ grant # {} /\ grant' = {}
    /\ UNCHANGED <<world, announceVars, offers, clientVars, theirs, sessionVars>>

-----------------------------------------------------------------------------
\* The client's holes.

\* Manager::check_paths, once a minute, on whatever was measured.
CheckPaths ==
    /\ \E seen \in [{h \in Hole : Live(h)} -> Measured] :
          banned' = banned \cup Judged([h \in DOMAIN seen |-> [route |-> mine[h].route] @@ seen[h]])
    /\ banned' # banned
    /\ UNCHANGED <<world, announceVars, offers, grant, next_relay, mine, theirs, sessionVars>>

\* BAN is over: Blacklist::expire, and banned() says no.
BanExpires(route) ==
    /\ route \in banned
    /\ banned' = banned \ {route}
    /\ UNCHANGED <<world, announceVars, offers, grant, next_relay, mine, theirs, sessionVars>>

\* The relay whose turn it is, in the order of the list.
InTurn(relays, turn) ==
    CHOOSE r \in relays :
        Cardinality({s \in relays : s < r}) = turn % Cardinality(relays)

\* Manager::open: one more hole, h, after those opened before it.
Opened(acc, h) ==
    LET holes == {i \in Hole : acc.holes[i] # None}
        relayed == {i \in holes : acc.holes[i].route # Direct}
        allowed == Allowed(banned, grant)
        share == IF grant = {} THEN 0 ELSE Share
        throughRelay == allowed.relays # {} /\
            (~allowed.direct \/ RelayWanted(share, Cardinality(relayed), Cardinality(holes)))
        route == IF throughRelay THEN InTurn(allowed.relays, acc.next) ELSE Direct
    IN  [holes |-> [acc.holes EXCEPT ![h] = [route |-> route, live |-> FALSE]],
         next |-> IF throughRelay THEN (acc.next + 1) % Turns ELSE acc.next]

\* Manager::evaluate: a hole for every number that is free.
Free == {h \in Hole : mine[h] = None /\ theirs[h] = None}

Evaluate ==
    LET opened == FoldLeft(Opened, [holes |-> mine, next |-> next_relay], SetToSeq(Free))
    IN  /\ Free # {}
        /\ mine' = opened.holes /\ next_relay' = opened.next
        /\ UNCHANGED <<world, announceVars, offers, grant, banned, theirs, sessionVars>>

\* A hole over a path that works, with a session to be had, opens in time.
CouldOpen(h) ==
    LET route == mine[h].route
    IN  /\ Works(route)
        /\ route # Direct => \E q \in SessionPort : sessions[route][q] \in {None, h}

\* Mutant: a hole asks and punches without a limit of time.
GiveUpNever(h) == FALSE

\* OPEN_TIMEOUT.
GiveUp(h) ==
    /\ Asking(h)
    /\ mine' = [mine EXCEPT ![h] = None]
    /\ TroubleIf(CouldOpen(h))
    /\ UNCHANGED <<up, reach, announceVars, offers, grant, banned, next_relay, theirs, sessionVars>>

-----------------------------------------------------------------------------
\* The server's holes and the sessions of relays.

\* Mutant: the answer is given to any hole that waits for one.
AnsweredAny(t) == {h \in Hole : Waits(h, "opening")}

\* Relays::ready: the hole that waits for the answer to this token.
Answered(t) == {pending[t]} \ {None}

\* Relays::open takes its token back when its wait ends.
Forgotten(t) == [pending EXCEPT ![t] = None]

\* The client's request reaches the server, which has no hole of the number.
Knocks(h) == Asking(h) /\ Works(mine[h].route) /\ theirs[h] = None

\* Directly: ServerHole offers its own port.
KnockDirect(h) ==
    /\ Knocks(h) /\ mine[h].route = Direct
    /\ theirs' = [theirs EXCEPT ![h] =
                     [route |-> Direct, stage |-> "offered", port |-> None, orphan |-> FALSE]]
    /\ UNCHANGED <<world, announceVars, offers, grant, clientVars, sessionVars>>

\* Through the bootstrap port of a relay (RelayKnock, Bootstrap::inject):
\* Relays::open orders a session.
KnockRelay(h, t) ==
    /\ Knocks(h) /\ mine[h].route \in public
    /\ pending[t] = None /\ wire[t] = None
    /\ \A s \in Token : s < t => pending[s] # None \/ wire[s] # None
    /\ theirs' = [theirs EXCEPT ![h] =
                     [route |-> mine[h].route, stage |-> "opening", port |-> None, orphan |-> FALSE]]
    /\ pending' = [pending EXCEPT ![t] = h]
    /\ wire' = [wire EXCEPT ![t] =
                   [kind |-> "open", relay |-> mine[h].route, hole |-> h, port |-> None]]
    /\ UNCHANGED <<world, announceVars, offers, grant, clientVars, sessions>>

Is(t, kind) == wire[t] # None /\ wire[t].kind = kind

\* The relay receives RelayOpen: open_session, then RelayReady.  Without a free
\* port it does not answer.
OpenSession(t) ==
    LET r == wire[t].relay
        free == {q \in SessionPort : sessions[r][q] = None}
    IN  /\ Is(t, "open") /\ r \in up
        /\ \/ \E q \in free :
                /\ sessions' = [sessions EXCEPT ![r][q] = wire[t].hole]
                /\ wire' = [wire EXCEPT ![t].kind = "ready", ![t].hole = None, ![t].port = q]
           \/ /\ free = {}
              /\ wire' = [wire EXCEPT ![t] = None] /\ UNCHANGED sessions
        /\ UNCHANGED <<world, announceVars, offers, grant, clientVars, theirs, pending>>

LoseControl(t) ==
    /\ wire[t] # None /\ TroubleIf(wire[t].relay \in up)
    /\ wire' = [wire EXCEPT ![t] = None]
    /\ UNCHANGED <<up, reach, announceVars, offers, grant, clientVars, theirs, pending, sessions>>

\* RelayReady: the hole is told its session's port and offers it to the client;
\* an answer nobody waits for is dropped.
Ready(t) ==
    /\ Is(t, "ready")
    /\ wire' = [wire EXCEPT ![t] = None]
    /\ \/ \E h \in Answered(t) :
             /\ theirs' = [theirs EXCEPT ![h].stage = "offered", ![h].port = wire[t].port]
             /\ pending' = Forgotten(t)
       \/ Answered(t) = {} /\ UNCHANGED <<theirs, pending>>
    /\ UNCHANGED <<world, announceVars, offers, grant, clientVars, sessions>>

\* OPEN_WAIT: the hole closes.
OpenWaitOver(t) ==
    /\ pending[t] # None
    /\ theirs' = [theirs EXCEPT ![pending[t]] = None]
    /\ pending' = Forgotten(t)
    /\ TroubleIf(wire[t] # None /\ wire[t].relay \in up)
    /\ UNCHANGED <<up, reach, announceVars, offers, grant, clientVars, wire, sessions>>

\* The session at the port the client is offered leads to the hole.
LeadsHome(h) ==
    theirs[h].route # Direct => sessions[theirs[h].route][theirs[h].port] = h

Offered(h) == Waits(h, "offered")

\* The client goes to the port it was offered, and the hole is punched; what a
\* wrong session carries there is not signed for that hole.
Punched(h) ==
    /\ Asking(h) /\ Offered(h)
    /\ Works(mine[h].route) /\ LeadsHome(h)
    /\ mine' = [mine EXCEPT ![h].live = TRUE]
    /\ theirs' = [theirs EXCEPT ![h].stage = "live"]
    /\ UNCHANGED <<world, announceVars, offers, grant, banned, next_relay, sessionVars>>

\* PUNCH_WINDOW: the client did not come.
NobodyCame(h) ==
    /\ Offered(h)
    /\ theirs' = [theirs EXCEPT ![h] = None]
    /\ TroubleIf(Asking(h) /\ Works(mine[h].route) /\ LeadsHome(h))
    /\ UNCHANGED <<up, reach, announceVars, offers, grant, clientVars, sessionVars>>

\* A hole whose path does not work any more.
Broken(h) == Live(h) /\ ~(Works(mine[h].route) /\ LeadsHome(h))

\* A live hole ends: lost, drained or closed, on both sides.
Ends(h) ==
    /\ Live(h) /\ TroubleIf(~Broken(h))
    /\ mine' = [mine EXCEPT ![h] = None] /\ theirs' = [theirs EXCEPT ![h] = None]
    /\ UNCHANGED <<up, reach, announceVars, offers, grant, banned, next_relay, sessionVars>>

\* forward: SESSION_IDLE without packets, longer than any hole stays silent.
InUse(r, q) == \E h \in Hole :
    theirs[h] # None /\ theirs[h].route = r /\ theirs[h].port = q /\ sessions[r][q] = h

SessionIdle(r, q) ==
    /\ sessions[r][q] # None /\ ~InUse(r, q)
    /\ ~ \E t \in Token : Is(t, "ready") /\ wire[t].relay = r /\ wire[t].port = q
    /\ sessions' = [sessions EXCEPT ![r][q] = None]
    /\ UNCHANGED <<world, announceVars, offers, grant, clientVars, theirs, pending, wire>>

-----------------------------------------------------------------------------
\* The world.

\* relay::start: the relay is linked to the server.
RelayStarts(r) ==
    /\ r \notin up /\ up' = up \cup {r}
    /\ UNCHANGED <<reach, troubles, announceVars, offers, grant, clientVars, theirs, sessionVars>>

\* A relay stops: its sessions go with it.
RelayStops(r) ==
    /\ r \in up /\ up' = up \ {r} /\ Trouble
    /\ sessions' = [sessions EXCEPT ![r] = [q \in SessionPort |-> None]]
    /\ theirs' = [h \in Hole |-> IF theirs[h] # None /\ theirs[h].route = r
                                 THEN [theirs[h] EXCEPT !.orphan = TRUE] ELSE theirs[h]]
    /\ UNCHANGED <<reach, announceVars, offers, grant, clientVars, pending, wire>>

\* A path between the client and the server, or a relay, breaks or is mended.
PathChanges(route) ==
    /\ reach' = IF route \in reach THEN reach \ {route} ELSE reach \cup {route}
    /\ TroubleIf(route \in reach)
    /\ UNCHANGED <<up, announceVars, offers, grant, clientVars, theirs, sessionVars>>

Next ==
    \/ \E r \in Relay : \/ Hello(r) \/ CheckAlive(r) \/ RelayStarts(r) \/ RelayStops(r)
                        \/ \E q \in SessionPort : SessionIdle(r, q)
    \/ Announce \/ GrantExpires \/ CheckPaths \/ Evaluate
    \/ \E l \in Lists : ReceiveOffer(l) \/ LoseOffer(l)
    \/ \E route \in Route : BanExpires(route) \/ PathChanges(route)
    \/ \E t \in Token : OpenSession(t) \/ LoseControl(t) \/ Ready(t) \/ OpenWaitOver(t)
    \/ \E h \in Hole : \/ KnockDirect(h) \/ GiveUp(h) \/ Punched(h)
                       \/ NobodyCame(h) \/ Ends(h)
                       \/ \E t \in Token : KnockRelay(h, t)

-----------------------------------------------------------------------------
\* Timers run, messages that are not lost arrive, and a relay that runs says
\* hello; requests over a path that works arrive.  Losses are bounded by
\* MaxTroubles; nothing is assumed of when relays run, paths break, or of the
\* losses that are measured.
Fairness ==
    /\ \A r \in Relay : /\ WF_vars(Hello(r)) /\ WF_vars(CheckAlive(r))
                         /\ \A q \in SessionPort : WF_vars(SessionIdle(r, q))
    /\ WF_vars(Announce) /\ WF_vars(GrantExpires) /\ WF_vars(Evaluate)
    /\ \A l \in Lists : WF_vars(ReceiveOffer(l))
    /\ \A route \in Route : WF_vars(BanExpires(route))
    /\ \A t \in Token : WF_vars(OpenSession(t)) /\ WF_vars(Ready(t)) /\ WF_vars(OpenWaitOver(t))
    /\ \A h \in Hole : /\ WF_vars(KnockDirect(h) \/ \E t \in Token : KnockRelay(h, t))
                       /\ WF_vars(Punched(h)) /\ WF_vars(GiveUp(h)) /\ WF_vars(NobodyCame(h))
                       /\ WF_vars(Broken(h) /\ Ends(h))

Spec == Init /\ [][Next]_vars
FairSpec == Spec /\ Fairness

-----------------------------------------------------------------------------
\* Properties.

\* The port a client is offered through a relay is the session opened for that
\* very hole, until the relay itself is started anew: a late answer to an order
\* that was given up never reaches another hole (relay.rs:101-102).
OfferedLeadsHome ==
    \A h \in Hole :
        (Offered(h) \/ Waits(h, "live")) /\ ~theirs[h].orphan => LeadsHome(h)

\* The permits follow the server's list, though announcements are lost and
\* overtake each other: a relay that stays connected is permitted again and again
\* to a client that keeps a hole, and one that is gone for good is forgotten for
\* good, also where no announcement comes any more (relay.rs:226-228, valid).
PermitsFollowRelays ==
    \A r \in Relay :
        /\ <>[](r \in up) /\ <>[](\E h \in Hole : Live(h)) => []<>(r \in grant)
        /\ <>[](r \notin up) => <>[](r \notin grant)

\* While the client's packets reach the server directly it has a hole again and
\* again, though every relay it is permitted may be out of its reach and the
\* direct path be on the list of bad ones (paths.rs:1-6).
HolesReturn == <>[](Direct \in reach) => []<>(\E h \in Hole : Live(h))
=============================================================================
