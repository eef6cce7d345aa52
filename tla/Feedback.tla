------------------------------ MODULE Feedback ------------------------------
(***************************************************************************)
(* Packets down with numbers (hp-stats): the server numbers what it sends  *)
(* to a peer (multilink.rs, next_pid) and tells the collector; the peer    *)
(* drops numbers it has seen (dedup.rs), reports the others                *)
(* (stats_feedback.rs) and the collector writes a row for each packet:     *)
(* delivered, or lost (stats/collector.rs, csv.rs).                        *)
(*                                                                         *)
(* A packet has a place in the order of sending, `n`, and on the wire its  *)
(* number `pid`, counted by the process of the server modulo Numbers (2^32 *)
(* in the code).  The holes lose and reorder packets and reports; a hole   *)
(* gives each packet up once (its replay window).                          *)
(***************************************************************************)
EXTENDS Integers, FiniteSets, SequencesExt

CONSTANTS
    Peer,             \* the peers of the server, all told to one collector
    Numbers,          \* how many different pids there are
    WINDOW_BITS,      \* the width of the window of seen numbers
    PID_REPORT_BATCH,
    channel_capacity, \* of the channel to the collector
    MaxSent,          \* [Peer -> Nat], bound on the packets sent to each peer
    MaxFlight,        \* bound on the packets under way to a peer
    MaxLosses,        \* bound on the packets and reports lost
    MaxRestarts       \* bound on the restarts of the server

ASSUME FeedbackAssumption ==
    /\ Numbers \in Nat /\ WINDOW_BITS \in Nat \ {0} /\ 2 * WINDOW_BITS < Numbers
    /\ PID_REPORT_BATCH \in Nat \ {0} /\ channel_capacity \in Nat \ {0}
    /\ MaxSent \in [Peer -> Nat] /\ {MaxFlight, MaxLosses, MaxRestarts} \subseteq Nat

VARIABLES
    sent,             \* packets the server has numbered for each peer
    base,             \* of these by processes of the server that are gone
    underway,           \* packets on their way to a peer
    window,           \* DedupWindow of each peer: top (none at first) and seen
    builder,          \* PidFeedbackBuilder.entries of each peer
    reports,          \* reports on their way to the server
    chan,             \* StatsEvents in the channel of the collector
    pending,          \* Collector: pid -> the packet it was sent with
    rows,             \* the rows the collector wrote last
    losses, restarts,
    lost, dropped     \* history: packets lost, and those a peer took for old

server == <<sent, base, chan, pending, rows>>
peers == <<window, builder, dropped>>
feedbackVars == <<server, peers, underway, reports, losses, restarts, lost>>

Numbered(p, n) == [peer |-> p, n |-> n]
Pid(packet) == (packet.n - base[packet.peer]) % Numbers

NoTop == -1
NewWindow == [top |-> NoTop, seen |-> {}]

FeedbackInit ==
    /\ sent = [p \in Peer |-> 0] /\ base = sent /\ underway = {} /\ reports = {}
    /\ window = [p \in Peer |-> NewWindow] /\ builder = [p \in Peer |-> <<>>]
    /\ chan = <<>> /\ pending = {} /\ rows = {}
    /\ losses = 0 /\ restarts = 0 /\ lost = {} /\ dropped = {}

-----------------------------------------------------------------------------
\* The channel of the collector: what finds it full is dropped, and counted.

Told(events) ==
    LET all == chan \o events
        fits == IF Len(all) <= channel_capacity THEN Len(all) ELSE channel_capacity
    IN  chan' = SubSeq(all, 1, fits)

Sent(packet) == [kind |-> "sent", packet |-> packet, pid |-> Pid(packet)]
Ack(packet, pid) == [kind |-> "ack", packet |-> packet, pid |-> pid]

\* The difference as a signed number of the width of a pid.
Delta(pid, top) ==
    LET d == (pid - top) % Numbers IN IF 2 * d >= Numbers THEN d - Numbers ELSE d

\* What is on its way, pending or to be acknowledged.
Outstanding ==
    underway \cup {e.packet : e \in pending} \cup {event.packet : event \in ToSet(chan)}
        \cup (UNION {ToSet(r.packets) : r \in reports})
        \cup (UNION {ToSet(builder[p]) : p \in Peer})

\* In the seconds a packet may be outstanding, or none arrives, the numbers do not
\* come half round.
NotHalfRound(p) ==
    /\ \A x \in Outstanding : x.peer = p => 2 * (sent[p] - x.n) < Numbers
    /\ restarts = 0 /\ window[p].top # NoTop => Delta(Pid(Numbered(p, sent[p])), window[p].top) > 0

\* send_data, send_client, send_ordered: the packet takes the next number, the
\* collector is told, then it goes over the hole.
Send(p) ==
    /\ NotHalfRound(p) /\ sent[p] < MaxSent[p] /\ Cardinality({f \in underway : f.peer = p}) < MaxFlight
    /\ sent' = [sent EXCEPT ![p] = @ + 1]
    /\ underway' = underway \cup {Numbered(p, sent[p])}
    /\ Told(<<Sent(Numbered(p, sent[p]))>>)
    /\ UNCHANGED <<base, peers, reports, pending, rows, losses, restarts, lost>>

Lose ==
    /\ losses < MaxLosses /\ losses' = losses + 1
    /\ \/ \E packet \in underway : underway' = underway \ {packet} /\ lost' = lost \cup {packet}
                                                             /\ UNCHANGED reports
       \/ \E report \in reports : reports' = reports \ {report} /\ UNCHANGED <<underway, lost>>
    /\ UNCHANGED <<server, peers, restarts>>

-----------------------------------------------------------------------------
\* DedupWindow::seen.

\* Mutant: the window moves, and what it had seen stays where it was.
NotShifted(seen, d) == seen

\* The window after a shift by d: what falls out of it is forgotten.
Shifted(seen, d) == {b \in 0 .. WINDOW_BITS - 1 : b - d \in seen}

\* Whether the packet is new, and the window that remembers it.
Admit(w, pid) ==
    LET d == Delta(pid, w.top)
    IN  CASE w.top = NoTop -> [new |-> TRUE, window |-> [top |-> pid, seen |-> {0}]]
          [] w.top # NoTop /\ d > 0 ->
               [new |-> TRUE, window |-> [top |-> pid, seen |-> Shifted(w.seen, d) \cup {0}]]
          [] w.top # NoTop /\ d <= 0 /\ -d >= WINDOW_BITS -> [new |-> TRUE, window |-> w]
          [] OTHER -> [new |-> -d \notin w.seen, window |-> [w EXCEPT !.seen = @ \cup {-d}]]

-----------------------------------------------------------------------------
\* PidFeedbackBuilder.

\* observe_pid: the packet is noted for the next report.
Observed(b, packet) == Append(b, packet)

\* A batch that is reported at once, without the timer.
Full(b) == Len(b) >= PID_REPORT_BATCH

Pids(b) == {Pid(packet) : packet \in ToSet(b)}

\* Mutant: ack_through is the largest pid, as connection.proto has it.
ReportFromLargest(p, b) ==
    [peer |-> p, ack_through |-> Max(Pids(b)), packets |-> b,
     deltas |-> [i \in DOMAIN b |-> Pid(b[i]) - Min(Pids(b))]]

\* take: the smallest pid, and the others from it.
Report(p, b) ==
    [peer |-> p, ack_through |-> Min(Pids(b)), packets |-> b,
     deltas |-> [i \in DOMAIN b |-> Pid(b[i]) - Min(Pids(b))]]

\* A packet comes out of a hole of the peer: control_loop.
Receive(packet) ==
    LET p == packet.peer
        pid == Pid(packet)
        admitted == Admit(window[p], pid)
        observed == IF admitted.new THEN Observed(builder[p], packet) ELSE builder[p]
    IN  /\ packet \in underway /\ underway' = underway \ {packet}
        /\ window' = [window EXCEPT ![p] = admitted.window]
        /\ dropped' = IF admitted.new THEN dropped ELSE dropped \cup {packet}
        /\ builder' = [builder EXCEPT ![p] = IF Full(observed) THEN <<>> ELSE observed]
        /\ reports' = IF Full(observed) THEN reports \cup {Report(p, observed)} ELSE reports
        /\ UNCHANGED <<server, losses, restarts, lost>>

\* pid_report_loop, every PID_REPORT_TICK.
ReportTick(p) ==
    /\ builder[p] # <<>>
    /\ reports' = reports \cup {Report(p, builder[p])}
    /\ builder' = [builder EXCEPT ![p] = <<>>]
    /\ UNCHANGED <<server, window, dropped, underway, losses, restarts, lost>>

\* handle_pid_report: an acknowledgement for every entry.
HandleReport(report) ==
    /\ report \in reports /\ reports' = reports \ {report}
    /\ Told([i \in DOMAIN report.deltas |->
                Ack(report.packets[i], (report.ack_through + report.deltas[i]) % Numbers)])
    /\ UNCHANGED <<sent, base, pending, rows, peers, underway, losses, restarts, lost>>

-----------------------------------------------------------------------------
\* The collector.

Row(packet, delivered) == [packet |-> packet, delivered |-> delivered]

\* handle_ack: the packet pending under the number was delivered; a number that
\* is not pending is ignored.
Acknowledged(pid) ==
    LET known == {e \in pending : e.pid = pid}
    IN  /\ pending' = pending \ known
        /\ rows' = {Row(e.packet, TRUE) : e \in known}

\* An event: a packet replaces one that was pending under its number.
Collect ==
    /\ chan # <<>> /\ chan' = Tail(chan)
    /\ LET event == Head(chan) IN
       \/ /\ event.kind = "sent"
          /\ pending' = {e \in pending : e.pid # event.pid}
                            \cup {[pid |-> event.pid, packet |-> event.packet]}
          /\ rows' = {}
       \/ event.kind = "ack" /\ Acknowledged(event.pid)
    /\ UNCHANGED <<sent, base, peers, underway, reports, losses, restarts, lost>>

\* Mutant: a packet is over only when a later one was sent.
ExpiredButLast == {e \in pending : \E f \in pending : f.packet.peer = e.packet.peer
                                                    /\ f.packet.n > e.packet.n}

\* What may have been pending for loss_timeout: the oldest of a peer first.
Expired == {e \in pending : \A f \in pending : f.packet.peer = e.packet.peer
                                                 => f.packet.n >= e.packet.n}

\* sweep_losses writes it down as lost.
Sweep ==
    /\ \E e \in Expired : pending' = pending \ {e} /\ rows' = {Row(e.packet, FALSE)}
    /\ UNCHANGED <<sent, base, chan, peers, underway, reports, losses, restarts, lost>>

\* The server's process is replaced: it numbers from 0, the holes are new, and
\* so is the collector.  The peers' processes go on; the 50 ms of their reports
\* pass before there is a new hole.
Restart ==
    /\ restarts < MaxRestarts /\ restarts' = restarts + 1
    /\ base' = sent /\ chan' = <<>> /\ pending' = {} /\ rows' = {}
    /\ underway' = {} /\ reports' = {}
    /\ builder' = [p \in Peer |-> <<>>]
    /\ UNCHANGED <<sent, window, dropped, losses, lost>>

FeedbackNext ==
    \/ \E p \in Peer : Send(p) \/ ReportTick(p)
    \/ \E packet \in underway : Receive(packet)
    \/ \E report \in reports : HandleReport(report)
    \/ Lose \/ Collect \/ Sweep \/ Restart

FeedbackSpec == FeedbackInit /\ [][FeedbackNext]_feedbackVars
\* The collector runs, and its timer fires.
FeedbackFairSpec == FeedbackSpec /\ WF_feedbackVars(Collect) /\ WF_feedbackVars(Sweep)
-----------------------------------------------------------------------------
\* Windows remember as many numbers as they are wide, reports are small, the
\* channel is bounded.
FeedbackTypeOK ==
    /\ \A p \in Peer : window[p].seen \subseteq 0 .. WINDOW_BITS - 1
    /\ \A report \in reports : Len(report.deltas) \in 1 .. PID_REPORT_BATCH
    /\ Len(chan) <= channel_capacity

\* What this process of the server has sent and its peer has received.
Arrived == (UNION {{Numbered(p, n) : n \in base[p] .. sent[p] - 1} : p \in Peer})
               \ (underway \cup lost)

\* A row that says "delivered" is about a packet that its peer has received, or
\* another peer has received one under the same number (the collector's table is
\* keyed by the number alone): however packets and reports overtake one another and
\* whatever was dropped in a full channel, the numbers of the reports lead back
\* to packets that came, and those of one peer to the very packet.
RowsAreTrue ==
    \A row \in rows : row.delivered =>
        \E x \in Arrived : /\ Pid(x) = Pid(row.packet)
                           /\ x = row.packet \/ x.peer # row.packet.peer

\* What the statistics are for (REPORT-ML.md:10-11): a row tells whether its own
\* packet came.
RowsTellArrivals == \A row \in rows : row.delivered => row.packet \notin underway \cup lost

\* A number that comes round is a new packet: while the server is not restarted
\* no packet is taken for one that was received before (dedup.rs:91-94).
NoneTakenForOld == restarts = 0 => dropped = {}

\* Once the server sends no more (it stops at MaxSent) every packet the collector
\* has heard of gets its row, acknowledged or not.
AllAreAccounted == <>[](pending = {} /\ chan = <<>>)

=============================================================================
