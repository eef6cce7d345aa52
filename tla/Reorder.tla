------------------------------ MODULE Reorder ------------------------------
(***************************************************************************)
(* The resequencer of received TCP packets (reorder.rs) and the part of    *)
(* control_loop that runs its timer (multilink.rs).                        *)
(*                                                                         *)
(* Each session numbers its packets.  A packet that comes early is held in *)
(* the session's ring until the missing ones come, at most `wait`; what    *)
(* comes late is handed over at once.  The sender may start its numbering  *)
(* anew (epoch).  Which packets arrive is up to the module that uses this  *)
(* one (Flows).                                                            *)
(***************************************************************************)
EXTENDS HeldRing, SequencesExt

CONSTANTS
    Key,              \* SessionKey: flow bucket, or client and flow bucket
    MAX_SESSIONS,
    MAX_SKIPPED,
    IDLE_RESET,
    MIN_WAIT, MAX_WAIT,
    RECALC_EVERY,     \* lateness samples between two adaptations of wait
    MaxArrivals,      \* bound on the packets that arrive
    MaxNow,           \* bound on the clock
    Lateness          \* how late control_loop may serve the deadline

ASSUME ReorderAssumption ==
    /\ MAX_SESSIONS \in Nat \ {0} /\ MAX_SKIPPED \in Nat
    /\ IDLE_RESET \in Nat /\ MIN_WAIT \in Nat /\ MAX_WAIT \in Nat
    /\ MIN_WAIT <= MAX_WAIT
    /\ RECALC_EVERY \in Nat \ {0}
    /\ MaxArrivals \in Nat /\ MaxNow \in Nat /\ Lateness \in Nat

MAX_GAP == RING - 1

VARIABLES
    now,
    sessions,         \* partial function Key -> Session
    wait,             \* how long a missing packet is waited for
    sinceRecalc,
    arrived,          \* history: packets accepted
    out,              \* what the last step handed over, per session key
    delivered,        \* history: everything handed over
    pruned            \* history: held packets of sessions that were evicted

vars == <<now, sessions, wait, sinceRecalc, arrived, out, delivered, pruned>>

HeldPackets(s) == {s.held.slots[i].packet : i \in DOMAIN s.held.slots}

Held == UNION {HeldPackets(sessions[k]) : k \in DOMAIN sessions}

Silent == [k \in Key |-> <<>>]

\* Resequencer::adaptive: the initial wait is DEFAULT_REORDER_WAIT = MAX_WAIT.
Init ==
    /\ now = 0
    /\ sessions = <<>>
    /\ wait = MAX_WAIT
    /\ sinceRecalc = 0
    /\ arrived = {} /\ delivered = {} /\ pruned = {}
    /\ out = Silent

-----------------------------------------------------------------------------
\* Handing over held packets.

\* The lowest held packet goes out, if there is one.
TakeLowest(acc) ==
    IF acc.ring.count = 0 THEN acc
    ELSE [ring |-> RingRemove(acc.ring, acc.ring.lo),
          out |-> Append(acc.out, acc.ring.slots[RingIndex(acc.ring.lo)].packet)]

\* The n lowest, one after the other.
Release(ring, n) ==
    FoldLeft(LAMBDA acc, i : TakeLowest(acc), [ring |-> ring, out |-> <<>>], [i \in 1 .. n |-> i])

\* The end of the run of held counters that starts at from.
RunEnd(ring, from) == MinOf({c \in from .. from + RING : ~RingHas(ring, c)})

\* drain: the run that starts at from goes out.
ReleaseRun(ring, from) == Release(ring, RunEnd(ring, from) - from)

\* flush: everything goes out by ascending counter.
ReleaseAll(ring) == Release(ring, ring.count)

Due(s) == s.held.count > 0 /\ now >= s.held.oldest + wait

\* The counters given up, remembered to measure how late they come.
SkippedNow(s, lowest) ==
    (IF Cardinality(s.skipped) + (lowest - s.next) > MAX_SKIPPED THEN {} ELSE s.skipped)
        \cup (s.next .. MinOf({lowest, s.next + MAX_SKIPPED}) - 1)

\* One turn of expire_into: the gap is skipped, release_lowest.
SkipGap(s) ==
    LET got == ReleaseRun(s.held, s.held.lo)
    IN  [session |-> [s EXCEPT !.skipped = SkippedNow(s, s.held.lo),
                               !.next = s.held.lo + Len(got.out),
                               !.held = got.ring],
         out |-> got.out]

SkipIfDue(acc) ==
    IF ~Due(acc.session) THEN acc
    ELSE LET one == SkipGap(acc.session)
         IN  [session |-> one.session, out |-> acc.out \o one.out]

\* expire_into for one session: gaps are skipped until nothing is due.
ExpireSession(s) ==
    FoldLeft(LAMBDA acc, i : SkipIfDue(acc), [session |-> s, out |-> <<>>], [i \in 1 .. RING |-> i])

-----------------------------------------------------------------------------
\* push_into.

NewSession(p) == [next |-> p.counter, held |-> EmptyRing, lastSeen |-> now, skipped |-> {}]

\* prune: with MAX_SESSIONS sessions a new key evicts the one seen longest ago
\* (any of them if several were: the map has no order).
Evicted(p) ==
    IF Cardinality(DOMAIN sessions) >= MAX_SESSIONS /\ p.key \notin DOMAIN sessions
    THEN {{k} : k \in {k \in DOMAIN sessions :
              \A j \in DOMAIN sessions : sessions[k].lastSeen <= sessions[j].lastSeen}}
    ELSE {{}}

SessionOf(p) == IF p.key \in DOMAIN sessions THEN sessions[p.key] ELSE NewSession(p)

\* The number went back by more than the window, or after a silence.
NumberingRestarted(s, p) ==
    /\ p.counter < s.next
    /\ s.next - p.counter > MAX_GAP \/ now - s.lastSeen >= IDLE_RESET

\* What push_into makes of the packet: the new session, the packets handed
\* over, and whether a lateness is measured.
Pushed(s, p) ==
    LET all == ReleaseAll(s.held)
        run == ReleaseRun(s.held, p.counter + 1)
        result(session, packets, measured) ==
            [session |-> [session EXCEPT !.lastSeen = now], out |-> packets,
             measured |-> measured]
    IN  CASE NumberingRestarted(s, p) ->
               result([s EXCEPT !.held = all.ring, !.next = p.counter + 1, !.skipped = {}],
                      Append(all.out, p), FALSE)
          [] p.counter < s.next /\ ~NumberingRestarted(s, p) ->
               result([s EXCEPT !.skipped = @ \ {p.counter}], <<p>>, p.counter \in s.skipped)
          [] p.counter = s.next ->
               result([s EXCEPT !.held = run.ring, !.next = p.counter + 1 + Len(run.out)],
                      <<p>> \o run.out, s.held.count > 0)
          [] p.counter - s.next > MAX_GAP ->
               result([s EXCEPT !.held = all.ring, !.next = p.counter + 1],
                      Append(all.out, p), FALSE)
          [] OTHER ->
               result([s EXCEPT !.held = RingInsert(@, p.counter, [packet |-> p, arrived |-> now])],
                      <<>>, FALSE)

\* record_lateness, recalc_wait: each RECALC_EVERY samples the wait becomes the
\* 99th percentile of the samples plus a quarter, within its limits.
RecordLateness(measured) ==
    IF measured /\ sinceRecalc + 1 >= RECALC_EVERY
    THEN sinceRecalc' = 0 /\ wait' \in MIN_WAIT .. MAX_WAIT
    ELSE sinceRecalc' = sinceRecalc + (IF measured THEN 1 ELSE 0) /\ UNCHANGED wait

\* control_loop receives a numbered packet and hands over what is ready.
Arrive(p) ==
    /\ p \notin arrived /\ Cardinality(arrived) < MaxArrivals
    /\ LET r == Pushed(SessionOf(p), p)
       IN  /\ \E evicted \in Evicted(p) :
                 /\ sessions' = [k \in (DOMAIN sessions \ evicted) \cup {p.key} |->
                                    IF k = p.key THEN r.session ELSE sessions[k]]
                 /\ pruned' = pruned \cup UNION {HeldPackets(sessions[k]) : k \in evicted}
           /\ RecordLateness(r.measured)
           /\ out' = [Silent EXCEPT ![p.key] = r.out]
           /\ delivered' = delivered \cup ToSet(r.out)
    /\ arrived' = arrived \cup {p}
    /\ UNCHANGED now

\* next_deadline has come: expire_into.
Expire ==
    /\ \E k \in DOMAIN sessions : Due(sessions[k])
    /\ LET done == [k \in DOMAIN sessions |-> ExpireSession(sessions[k])]
       IN  /\ sessions' = [k \in DOMAIN sessions |-> done[k].session]
           /\ out' = [k \in Key |-> IF k \in DOMAIN sessions THEN done[k].out ELSE <<>>]
           /\ delivered' = delivered \cup UNION {ToSet(done[k].out) : k \in DOMAIN sessions}
    /\ UNCHANGED <<now, wait, sinceRecalc, arrived, pruned>>

\* Time passes; a deadline is served at most Lateness after its moment.
Tick ==
    /\ now < MaxNow
    /\ \A k \in DOMAIN sessions :
          sessions[k].held.count > 0 => now < sessions[k].held.oldest + wait + Lateness
    /\ now' = now + 1
    /\ out' = Silent
    /\ UNCHANGED <<sessions, wait, sinceRecalc, arrived, delivered, pruned>>

-----------------------------------------------------------------------------
\* Properties.

\* Two packets of the session came with one number: the sender began its
\* numbering anew while the old one was still held.
NumberRepeated(k) ==
    \E p, q \in arrived :
        p.key = k /\ q.key = k /\ p.counter = q.counter /\ p.epoch # q.epoch

\* What the resequencer accepted it hands over or holds, and holds no longer
\* than the longest wait (reorder.rs:6, MAX_WAIT): nothing is forgotten in a ring.
\* A packet vanishes only with the eviction of its session, or when a packet
\* with its number takes its place.
NothingIsForgotten ==
    /\ \A p \in arrived \ (delivered \cup Held \cup pruned) : NumberRepeated(p.key)
    /\ \A k \in DOMAIN sessions :
          \A i \in DOMAIN sessions[k].held.slots :
              now <= sessions[k].held.slots[i].arrived + MAX_WAIT + Lateness

\* A gap is given up by the timer only when a packet the timer hands over has
\* waited for it the whole wait (reorder.rs:69-70).
GapsAreWaitedFor ==
    [][(sinceRecalc' = sinceRecalc /\ arrived' = arrived) =>
          \A k \in DOMAIN sessions :
              \/ out'[k] = <<>>
              \/ \E i \in DOMAIN sessions[k].held.slots :
                    LET h == sessions[k].held.slots[i]
                    IN  h.packet \in ToSet(out'[k]) /\ now - h.arrived >= wait
              \/ NumberRepeated(k)]_vars
=============================================================================
