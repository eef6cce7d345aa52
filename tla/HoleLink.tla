------------------------------ MODULE HoleLink ------------------------------
(***************************************************************************)
(* One hole (punch.rs): its two ends search for one another with Punch     *)
(* over the ports a NAT may have given the other, answer with PunchAck,    *)
(* and then send Lite messages to wherever the last valid packet came      *)
(* from.  A packet is sealed with a counter and opened once (auth.rs).     *)
(*                                                                         *)
(* Between them is a network that loses, reorders and repeats packets, and *)
(* NATs that let a packet in only from where their end has sent to.        *)
(* An end whose session is over does not come back: a hole opened again    *)
(* has other keys, which the packets of this one do not open.              *)
(***************************************************************************)
EXTENDS Integers, FiniteSets, SequencesExt

CONSTANTS
    MaxPort,          \* the largest port (65535)
    margin,           \* PunchConfig.margin
    KeepaliveTimeout, \* PunchConfig.keepalive_timeout, in ticks
    WINDOW,           \* width of the window against replays (64)
    MIN_STATS_SAMPLE,
    Place,            \* Place[e]: the addresses <<ip, port>> end e may be seen at,
                      \* in the order it moves from one to the next
    Settings          \* what may be different from hole to hole: known[e], the possible
                      \* candidates end e has for the other, a sequence of addresses;
                      \* kinds[e], what it sends when it is open; and the bounds on
                      \* rounds[e], its sweeps over all destinations, on lites[e], its Lite
                      \* messages, on moves of an end, on the packets in flight when one is
                      \* sent unasked, on the losses of packets that could have been
                      \* delivered and on the copies kept to be delivered again

End == {"a", "b"}

ASSUME HoleLinkAssumption ==
    /\ MaxPort \in Nat \ {0} /\ {margin, MIN_STATS_SAMPLE} \subseteq Nat
    /\ WINDOW \in Nat \ {0} /\ KeepaliveTimeout \in Nat \ {0}
    /\ \A e \in End : Place[e] \in Seq(ToSet(Place[e]) \ {<<>>}) \ {<<>>}
    /\ \A s \in Settings :
          /\ DOMAIN s.known = End /\ s.kinds \in [End -> SUBSET {"KeepAlive", "Stats", "TimeProbe"}]
          /\ {s.rounds, s.lites} \subseteq [End -> Nat]
          /\ {s.moves, s.flight, s.losses, s.copies} \subseteq Nat

VARIABLES
    setting,
    destinations,     \* where the sweeper of an end looks for the other
    moves,            \* how often an end has changed its address
    let_in,           \* addresses the NAT of an end lets in
    phase,            \* "punching", "open", or how it ended: "failed", "lost"
    sweeps,           \* Punch messages the sweeper has sent
    endpoint,         \* the watch channel: none, or where the other end is
    confirmed,        \* PeerLink.confirmed
    silent,           \* ticks since last_seen
    stats,            \* LinkStats: sent and received
    next,             \* Sealer.next
    window,           \* ReplayWindow: top and seen
    bad,              \* whether stats of the other end made the hole a bad one
    net,
    losses,           \* packets that were lost, or came too late for the window
    copies            \* packets the network has kept to deliver them again

ends == <<phase, sweeps, endpoint, confirmed, silent, stats, next, window, bad>>
vars == <<ends, setting, destinations, moves, let_in, net, losses, copies>>

Other(e) == IF e = "a" THEN "b" ELSE "a"
None == <<>>

-----------------------------------------------------------------------------
\* Where to look: port_utils.rs.

SmallerOf(x, y) == IF x < y THEN x ELSE y
LargerOf(x, y) == IF x < y THEN y ELSE x

sweep_bounds(my_port, peer_port) ==
    <<LargerOf(SmallerOf(my_port, peer_port) - margin, 1),
      SmallerOf(LargerOf(my_port, peer_port) + margin, MaxPort)>>

\* From the center outwards, the upper one of two that are as near first.
Outwards(center, p) == IF p > center THEN 2 * (p - center) - 1 ELSE 2 * (center - p)

\* Mutant: the upper end of the range is left out.
ZigzagBelow(center, low, high) ==
    SetToSortSeq({center} \cup low .. high - 1, LAMBDA p, q : Outwards(center, p) < Outwards(center, q))

zigzag_ports(center, low, high) ==
    SetToSortSeq(low .. high, LAMBDA p, q : Outwards(center, p) < Outwards(center, q))

\* The candidates take turns, so that none waits for the ports of another.
sweep_order(known, my_port) ==
    LET list == [i \in DOMAIN known |->
                    LET b == sweep_bounds(my_port, known[i][2])
                    IN  zigzag_ports(known[i][2], b[1], b[2])]
        turns == SetToSortSeq(UNION {(DOMAIN list[i]) \X {i} : i \in DOMAIN known},
                    LAMBDA s, t : s[1] < t[1] \/ (s[1] = t[1] /\ s[2] < t[2]))
    IN  [n \in DOMAIN turns |-> <<known[turns[n][2]][1], list[turns[n][2]][turns[n][1]]>>]

-----------------------------------------------------------------------------
\* Packets between the ends.

At(e) == Place[e][moves[e] + 1]

\* What a seal binds together, and the addresses it is sent from and to.
Packet(e, to, kind, sent) ==
    [from |-> e, src |-> At(e), to |-> to, counter |-> next[e], kind |-> kind, sent |-> sent]

\* Only what is sent to where the other end listens can arrive, and does if its NAT
\* lets it in; a passive end has a public address.
Reaches(p) == p.to = At(Other(p.from)) /\ phase[Other(p.from)] \in {"punching", "open"}
LetIn(p) == destinations[Other(p.from)] = <<>> \/ p.src \in let_in[Other(p.from)]

\* What is left on its way when an end's socket is closed, or its address is left.
StillOnTheirWay(e) == {p \in net : p.from = e}

\* The end seals a packet and sends it: the counter is used up in any case.
Sent(e, p, flight) ==
    /\ next' = [next EXCEPT ![e] = @ + 1]
    /\ net' = IF Reaches(p) THEN flight \cup {p} ELSE flight
    /\ let_in' = [let_in EXCEPT ![e] = @ \cup {p.to}]

Init ==
    /\ setting \in Settings
    /\ destinations = [e \in End |-> sweep_order(setting.known[e], Place[e][1][2])]
    /\ moves = [e \in End |-> 0] /\ let_in = [e \in End |-> {}]
    /\ phase = [e \in End |-> "punching"] /\ sweeps = [e \in End |-> 0]
    /\ endpoint = [e \in End |-> None] /\ confirmed = [e \in End |-> FALSE]
    /\ silent = [e \in End |-> 0] /\ stats = [e \in End |-> [sent |-> 0, received |-> 0]]
    /\ next = [e \in End |-> 0] /\ window = [e \in End |-> [top |-> 0, seen |-> {}]]
    /\ bad = [e \in End |-> FALSE] /\ net = {} /\ losses = 0 /\ copies = {}

-----------------------------------------------------------------------------
\* ReplayWindow: the place of a counter in the window is its distance from the top.

\* Mutant: what is inside the window is taken for new.
FreshInside(w, counter) == counter >= w.top \/ w.top - 1 - counter < WINDOW

Fresh(w, counter) ==
    \/ counter >= w.top
    \/ w.top - 1 - counter \in (0 .. WINDOW - 1) \ w.seen

Accepted(w, counter) ==
    IF counter >= w.top
    THEN [top |-> counter + 1,
          seen |-> {0} \cup ({b + counter + 1 - w.top : b \in w.seen} \cap 0 .. WINDOW - 1)]
    ELSE [w EXCEPT !.seen = @ \cup {w.top - 1 - counter}]

-----------------------------------------------------------------------------
\* establish: the sweeper sends to the next destination until the other end is found.

Sweeps(e) ==
    /\ phase[e] = "punching" /\ destinations[e] # <<>>
    /\ sweeps[e] < setting.rounds[e] * Len(destinations[e])

Sweep(e) ==
    /\ Sweeps(e) /\ Cardinality(net) < setting.flight
    /\ sweeps' = [sweeps EXCEPT ![e] = @ + 1]
    /\ Sent(e, Packet(e, destinations[e][(sweeps[e] % Len(destinations[e])) + 1], "Punch", 0), net)
    /\ UNCHANGED <<phase, endpoint, confirmed, silent, stats, window, bad>>
    /\ UNCHANGED <<setting, destinations, moves, losses, copies>>

\* The window for punching is over before the other end was found.
GiveUp(e) ==
    /\ phase[e] = "punching" /\ phase' = [phase EXCEPT ![e] = "failed"] /\ net' = StillOnTheirWay(e)
    /\ UNCHANGED <<sweeps, endpoint, confirmed, silent, stats, next, window, bad>>
    /\ UNCHANGED <<setting, destinations, moves, let_in, losses, copies>>

\* The other end has an open hole: it has heard from us.
Confirms(kind) == kind \notin {"Punch", "PunchAck"}

\* link_is_bad, for what the other end says it has sent and we have received.
LinkIsBad(peer_sent, my_received) == peer_sent >= MIN_STATS_SAMPLE /\ my_received * 2 < peer_sent

\* The answer to a Punch and to a TimeProbe goes to where it came from.
Answer(p) == CASE p.kind = "Punch" -> {"PunchAck"} [] p.kind = "TimeProbe" -> {"TimeEcho"} [] OTHER -> {}

\* Mutant: any packet with the right seal shows that the other end is there.
AnyBreaksSilence(e, p) == TRUE

\* last_seen is set after the packet was opened.
BreaksSilence(e, p) == Fresh(window[e], p.counter)

\* note_packet: the end is where the packet came from.
NotePacket(e, p) ==
    /\ stats' = [stats EXCEPT ![e].received = @ + 1]
    /\ endpoint' = [endpoint EXCEPT ![e] = p.src]

\* What follows for a packet that was opened.
Opened(e, p, flight) ==
    /\ window' = [window EXCEPT ![e] = Accepted(@, p.counter)]
    /\ NotePacket(e, p)
    /\ confirmed' = [confirmed EXCEPT ![e] = @ \/ Confirms(p.kind)]
    /\ phase' = [phase EXCEPT ![e] = "open"]
    /\ bad' = [bad EXCEPT ![e] =
                  @ \/ (p.kind = "Stats" /\ LinkIsBad(p.sent, stats[e].received + 1))]
    /\ \/ Answer(p) = {} /\ net' = flight /\ UNCHANGED <<next, let_in>>
       \/ \E kind \in Answer(p) : Sent(e, Packet(e, p.src, kind, 0), flight)
    /\ UNCHANGED sweeps

\* receive_loop.
Receive(p, flight) ==
    LET e == Other(p.from) IN
    /\ LetIn(p)
    /\ silent' = [silent EXCEPT ![e] = IF BreaksSilence(e, p) THEN 0 ELSE @]
    /\ IF Fresh(window[e], p.counter) THEN Opened(e, p, flight)
       ELSE /\ net' = flight
            /\ UNCHANGED <<phase, sweeps, endpoint, confirmed, stats, next, window, bad, let_in>>
    /\ UNCHANGED <<setting, destinations, moves>>

\* What comes too late for the window is as good as lost.
Deliver(p) ==
    /\ p \in net /\ Receive(p, net \ {p})
    /\ losses' = IF Fresh(window[Other(p.from)], p.counter) THEN losses ELSE losses + 1
    /\ copies' \in {copies} \cup {c \in {copies \cup {p}} : Cardinality(c) <= setting.copies}

Repeat(p) == p \in copies /\ Reaches(p) /\ Receive(p, net) /\ UNCHANGED <<losses, copies>>

-----------------------------------------------------------------------------
\* An open hole: keepalive_loop, stats_loop, probes of the time.

\* Mutant: the statistics count the punches too.
SweepsCount(e) == stats[e].sent + sweeps[e]

\* What LinkStats says was sent: the Lite messages alone.
Counted(e) == stats[e].sent

SendLite(e, kind) ==
    /\ phase[e] = "open" /\ stats[e].sent < setting.lites[e] /\ Cardinality(net) < setting.flight
    /\ stats' = [stats EXCEPT ![e].sent = @ + 1]
    /\ Sent(e, Packet(e, endpoint[e], kind, IF kind = "Stats" THEN Counted(e) ELSE 0), net)
    /\ UNCHANGED <<phase, sweeps, endpoint, confirmed, silent, window, bad>>
    /\ UNCHANGED <<setting, destinations, moves, losses, copies>>

\* PeerLink::lost.
Lost(e) ==
    /\ phase[e] = "open" /\ silent[e] >= KeepaliveTimeout
    /\ phase' = [phase EXCEPT ![e] = "lost"] /\ net' = StillOnTheirWay(e)
    /\ UNCHANGED <<sweeps, endpoint, confirmed, silent, stats, next, window, bad>>
    /\ UNCHANGED <<setting, destinations, moves, let_in, losses, copies>>

-----------------------------------------------------------------------------
\* Outside: the network, the NATs, the time.

Drop(p) ==
    /\ p \in net /\ net' = net \ {p}
    /\ IF LetIn(p) THEN losses < setting.losses /\ losses' = losses + 1 ELSE UNCHANGED losses
    /\ UNCHANGED <<ends, setting, destinations, moves, let_in, copies>>

\* Another provider or NAT mapping: nothing is let in until the end sends.
Move(e) ==
    /\ phase[e] = "open" /\ moves[e] < setting.moves /\ moves[e] + 1 < Len(Place[e])
    /\ moves' = [moves EXCEPT ![e] = @ + 1] /\ let_in' = [let_in EXCEPT ![e] = {}]
    /\ net' = StillOnTheirWay(e)
    /\ UNCHANGED <<ends, setting, destinations, losses, copies>>

\* A tick is much longer than a packet is on its way, and than a sweep.
Settled ==
    /\ \A p \in net : LetIn(p) => ~Fresh(window[Other(p.from)], p.counter)
    /\ \A e \in End : ~Sweeps(e)

Tick ==
    /\ Settled /\ \E e \in End : phase[e] = "open" /\ silent[e] < KeepaliveTimeout
    /\ silent' = [e \in End |-> IF phase[e] = "open" THEN SmallerOf(silent[e] + 1, KeepaliveTimeout)
                                                     ELSE silent[e]]
    /\ UNCHANGED <<phase, sweeps, endpoint, confirmed, stats, next, window, bad>>
    /\ UNCHANGED <<setting, destinations, moves, let_in, net, losses, copies>>

Next ==
    \/ \E e \in End : Sweep(e) \/ GiveUp(e) \/ Lost(e) \/ Move(e)
    \/ \E e \in End : \E kind \in setting.kinds[e] : SendLite(e, kind)
    \/ \E p \in net : Deliver(p) \/ Drop(p)
    \/ \E p \in copies : Repeat(p)
    \/ Tick

Spec == Init /\ [][Next]_vars
\* The sweeper and the timer of lost() run; the network delivers or drops.
FairSpec ==
    /\ Spec
    /\ \A e \in End : WF_vars(Sweep(e)) /\ WF_vars(Lost(e))
    /\ WF_vars(\E p \in net : Deliver(p) \/ (~LetIn(p) /\ Drop(p)))
    /\ WF_vars(Tick)
-----------------------------------------------------------------------------
\* Windows are as wide as they are, an open hole has an endpoint.
TypeOK ==
    \A e \in End :
        /\ phase[e] \in {"punching", "open", "failed", "lost"}
        /\ window[e].top <= next[Other(e)] /\ window[e].seen \subseteq 0 .. WINDOW - 1
        /\ phase[e] \in {"open", "lost"} => endpoint[e] # None

\* No packet counts twice, however the network repeats and reorders: what an
\* end has received is no more than what the other has sealed (LinkStats and the
\* judgement of link_is_bad rest on it).
HeardOnce == \A e \in End : stats[e].received <= next[Other(e)]

Moved == \E e \in End : moves[e] > 0

\* The Lite messages that p has overtaken: it counts them and they are not there.
Overtaken(p) ==
    {q \in net : q.from = p.from /\ q.kind \in {"KeepAlive", "Stats", "TimeProbe"} /\ q.counter < p.counter}

\* While the network has lost nothing, an end judges its hole a bad one only by a
\* Stats that has overtaken more than half of what it counts: neither the punches
\* to ports where nobody is nor packets that come twice or late count against it
\* (link_is_bad: "the peer has sent, we have received").
BadMeansLoss ==
    [][\A e \in End : bad'[e] /\ ~bad[e] =>
          \/ losses > 0 \/ Moved
          \/ \E p \in net \ net' : /\ p.from = Other(e) /\ p.kind = "Stats"
                                   /\ 2 * Cardinality(Overtaken(p)) > p.sent]_vars

\* The ends find each other wherever the other is among the ports swept, if
\* neither gives up: also when the one that is found first stops to sweep.
FindEachOther ==
    <>(\/ \A e \in End : phase[e] = "open"
       \/ \E e \in End : phase[e] = "failed" \/ moves[e] > 0)

\* When one end is gone the other sees it: repeated packets keep no hole open.
NoHalfOpen ==
    \A e \in End : <>[](phase[e] \in {"failed", "lost"} => phase[Other(e)] # "open")
=============================================================================
