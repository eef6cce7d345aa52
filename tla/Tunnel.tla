------------------------------- MODULE Tunnel -------------------------------
(***************************************************************************)
(* The process at the client's end of the tunnel: vps-client and hp-router *)
(* (run in their main.rs), the routes they keep (tun/routes.rs and the     *)
(* commands of platform/linux/routes.rs), the address they ask for         *)
(* (tun/bridge.rs) and the scripts they call.                              *)
(*                                                                         *)
(* The table of routes belongs to the system: netifd, DHCP and a user      *)
(* change it while the process works on it, one `ip` command after         *)
(* another.  When the process ends its TUN vanishes, and the routes        *)
(* through it; procd starts the process again.                             *)
(***************************************************************************)
EXTENDS Integers, FiniteSets, Sequences, SequencesExt

CONSTANTS
    Programs,        \* which of "vps-client" and "hp-router" to look at
    Uplink,          \* interfaces to the internet, by the metric of their default
    Relay,           \* hosts the server may allow as relays
    MaxChanges,      \* bound on the changes of the system
    MaxEnds          \* bound on the signals, kills and failed starts of the rest

ASSUME TunnelAssumption ==
    /\ Programs \subseteq {"vps-client", "hp-router"}
    /\ Uplink \subseteq Nat \ {0} /\ IsFiniteSet(Uplink)
    /\ IsFiniteSet(Relay) /\ "vps" \notin Relay
    /\ MaxChanges \in Nat /\ MaxEnds \in Nat

VARIABLES
    program,
    pc, todo, then,   \* where run is, the commands of a sync and what follows it
    uplink,           \* Routes::uplink, 0 before it is found
    bypass,           \* Routes::bypass
    tunnel_up,        \* Routes::tunnel_up
    tun,              \* the TUN device exists
    granted, fresh,   \* the watched relays, and whether they changed since last read
    adding,           \* relays of the last reading that have not been looked at
    via,              \* the table: uplink of the /32 of a host, 0 for none
    halves,           \* the table: halves of the addresses that go into the TUN
    byhand,           \* the table: a default into the TUN
    alive, defaults,  \* interfaces that are up, those with a default
    changes, ends,
    hook,             \* history: the script that ran last
    torn,             \* history: the table lost routes since the last whole sync
    last              \* history: how the last run ended

process == <<pc, todo, then, uplink, bypass, tunnel_up, tun>>
relays == <<granted, fresh, adding>>
table == <<via, halves, byhand>>
system == <<alive, defaults, changes>>
history == <<hook, torn, last>>
vars == <<program, process, relays, table, system, ends, history>>

Host == {"vps"} \cup Relay
Half == {"0.0.0.0/1", "128.0.0.0/1"}

\* The stages of run; between them come syncs of the table.
Stage == {"off", "finding", "asking", "creating", "raising", "hooking", "serving",
          "loop", "adding", "lowering", "unhooking", "leaving"}

TypeOK ==
    /\ program \in Programs
    /\ pc \in Stage \cup {"sync"} /\ then \in Stage
    /\ uplink \in Uplink \cup {0} /\ tunnel_up \in BOOLEAN /\ tun \in BOOLEAN
    /\ ToSet(bypass) \subseteq Host /\ granted \subseteq Relay
    /\ via \in [Host -> alive \cup {0}] /\ halves \subseteq Half
    /\ (halves # {} \/ byhand) => tun
    /\ defaults \subseteq alive /\ alive \subseteq Uplink
    /\ hook \in {"none", "up", "down"} /\ last \in {"none", "signal", "error", "fault", "kill"}

Init ==
    /\ program \in Programs
    /\ pc = "off" /\ todo = {} /\ then = "off" /\ uplink = 0 /\ bypass = <<>>
    /\ tunnel_up = FALSE /\ tun = FALSE
    /\ granted = {} /\ fresh = FALSE /\ adding = <<>>
    /\ via = [h \in Host |-> 0] /\ halves = {} /\ byhand = FALSE
    /\ alive = Uplink /\ defaults = Uplink /\ changes = 0 /\ ends = 0
    /\ hook = "none" /\ torn = FALSE /\ last = "none"

Goes(to) == pc' = to /\ UNCHANGED <<todo, then>>

-----------------------------------------------------------------------------
\* The table of routes.

Best(set) == IF set = {} THEN 0 ELSE CHOOSE u \in set : \A v \in set : u <= v

\* current_uplink: the default with the lowest metric that is not the TUN.
Current == Best(defaults)

\* probe_uplink: the way to the server that is left, unless it leads into the TUN.
Probed == via["vps"]

Command(op, to) == [op |-> op, to |-> to]

\* Mutant: a host has a route if it has any.
MissingHostsWithout(hosts, up) == {h \in ToSet(hosts) : via[h] = 0}

MissingHosts(hosts, up) == {h \in ToSet(hosts) : via[h] # up}

\* missing: the commands that set what the table lacks.
Missing(hosts, up, raised) ==
    {Command("host", h) : h \in MissingHosts(hosts, up)}
        \cup (IF raised THEN {Command("half", x) : x \in Half \ halves} ELSE {})
        \cup (IF raised /\ byhand THEN {Command("undefault", "tun")} ELSE {})

\* The order in which missing lists them.
Place(c) ==
    CASE c.op = "host" -> CHOOSE i \in DOMAIN bypass : bypass[i] = c.to
      [] c.op = "half" -> Len(bypass) + (IF c.to = "0.0.0.0/1" THEN 1 ELSE 2)
      [] OTHER -> Len(bypass) + 3

Foremost(c) == c \in todo /\ \A d \in todo : Place(c) <= Place(d)

\* Routes::ensure: the table is read once, then changed command by command.
Ensure(hosts, up, raised, next) ==
    /\ pc' = "sync" /\ then' = next
    /\ todo' = Missing(hosts, up, raised)
    /\ bypass' = hosts /\ uplink' = up /\ tunnel_up' = raised

\* Whether the system carries the command out.
Works(c) ==
    CASE c.op = "host" -> uplink \in alive
      [] c.op = "half" -> tun
      [] OTHER -> byhand

RunCommand ==
    /\ pc = "sync"
    /\ \E c \in todo :
          /\ Foremost(c) /\ Works(c)
          /\ via' = IF c.op = "host" THEN [via EXCEPT ![c.to] = uplink] ELSE via
          /\ halves' = IF c.op = "half" THEN halves \cup {c.to} ELSE halves
          /\ byhand' = (byhand /\ c.op # "undefault")
          /\ todo' = todo \ {c}
    /\ UNCHANGED <<program, pc, then, uplink, bypass, tunnel_up, tun, relays, system, ends, history>>

Synced ==
    /\ pc = "sync" /\ todo = {}
    /\ Goes(then)
    /\ torn' = (torn /\ Missing(bypass, uplink, tunnel_up) # {})
    /\ UNCHANGED <<program, uplink, bypass, tunnel_up, tun, relays, table, system, ends, hook, last>>

-----------------------------------------------------------------------------
\* The end of a run.

\* The process is gone, and with it its TUN and the routes through it.
Vanish ==
    /\ pc' = "off" /\ todo' = {} /\ then' = "off"
    /\ uplink' = 0 /\ bypass' = <<>> /\ tunnel_up' = FALSE /\ tun' = FALSE
    /\ granted' = {} /\ fresh' = FALSE /\ adding' = <<>>
    /\ halves' = {} /\ byhand' = FALSE /\ torn' = FALSE
    /\ UNCHANGED <<program, via, system>>

Exit(how) == Vanish /\ last' = how /\ UNCHANGED hook

\* Mutant: the router, too, leaves its loop by `?` when something fails.
TakesDownAtSignals(how) == how = "signal"

\* In its loop the router takes the tunnel down after an error, and at a signal;
\* vps-client only at a signal: an error leaves its loop by `?`.
TakesDown(how) == how = "signal" \/ program = "hp-router"

InLoop == pc \in {"loop", "adding"} \/ (pc = "sync" /\ then \in {"loop", "adding"})

TakeDown(how) ==
    /\ pc' = "lowering" /\ todo' = {} /\ then' = "off"
    /\ tunnel_up' = FALSE /\ last' = how
    /\ UNCHANGED <<program, uplink, bypass, tun, relays, table, system, hook, torn>>

\* An error inside the loop is a "fault".
Ends(how) ==
    LET as == IF InLoop /\ how = "error" THEN "fault" ELSE how IN
    IF InLoop /\ TakesDown(how) THEN TakeDown(as) ELSE Exit(as)

\* A command that the system refused ends the run.
CommandFails ==
    /\ pc = "sync" /\ \E c \in todo : Foremost(c) /\ ~Works(c)
    /\ Ends("error") /\ UNCHANGED ends

\* Mutant: one command of the two.
LowerOne ==
    /\ pc = "lowering"
    /\ halves' = halves \ {"0.0.0.0/1"} /\ Goes("unhooking")
    /\ UNCHANGED <<program, uplink, bypass, tunnel_up, tun, relays, via, byhand, system, ends, history>>

\* remove_tunnel, one command after another; that a half is gone already does
\* not matter.
Lower ==
    /\ pc = "lowering"
    /\ IF halves = {} THEN Goes("unhooking") /\ UNCHANGED halves
       ELSE /\ halves' = halves \ {IF "0.0.0.0/1" \in halves THEN "0.0.0.0/1" ELSE "128.0.0.0/1"}
            /\ UNCHANGED <<pc, todo, then>>
    /\ UNCHANGED <<program, uplink, bypass, tunnel_up, tun, relays, via, byhand, system, ends, history>>

\* Hooks::down.
Unhook ==
    /\ pc = "unhooking" /\ hook' = "down" /\ Goes("leaving")
    /\ UNCHANGED <<program, uplink, bypass, tunnel_up, tun, relays, table, system, ends, torn, last>>

\* run returns.
Leave == pc = "leaving" /\ Vanish /\ UNCHANGED <<ends, hook, last>>

\* SIGTERM has a handler from the loop on; before it ends the process at once,
\* as any other death does.
Signal == pc = "loop" /\ ends < MaxEnds /\ ends' = ends + 1 /\ Ends("signal")
Killed == pc # "off" /\ ends < MaxEnds /\ ends' = ends + 1 /\ Exit("kill")

-----------------------------------------------------------------------------
\* run, up to its loop.

\* hp-router finds the uplink first, to bind the sockets of its holes to it;
\* vps-client when it has its address.
Start ==
    /\ pc = "off"
    /\ Goes(IF program = "hp-router" THEN "finding" ELSE "asking")
    /\ UNCHANGED <<program, uplink, bypass, tunnel_up, tun, relays, table, system, ends, history>>

\* Routes::start; a default that was replaced by the TUN of the last run is
\* restored from the way to the server.
Find ==
    /\ pc = "finding"
    /\ LET up == IF Current # 0 THEN Current ELSE Probed IN
       /\ up # 0
       /\ defaults' = defaults \cup {up}
       /\ Ensure(<<"vps">>, up, FALSE, IF program = "hp-router" THEN "asking" ELSE "raising")
    /\ UNCHANGED <<program, tun, relays, table, alive, changes, ends, history>>

NoUplink == pc = "finding" /\ Current = 0 /\ Probed = 0 /\ Ends("error") /\ UNCHANGED ends

\* Whether packets get to the server: over its /32, or over the default if no
\* route leads into the TUN; the router's sockets are bound to its uplink.
Reaches(h) ==
    IF program = "hp-router" THEN uplink \in alive /\ (via[h] = uplink \/ uplink \in defaults)
    ELSE via[h] # 0 \/ (defaults # {} /\ halves = {} /\ ~byhand)

\* request_address: asked every second until the server answers.
Answered ==
    /\ pc = "asking" /\ Reaches("vps")
    /\ Goes("creating")
    /\ UNCHANGED <<program, uplink, bypass, tunnel_up, tun, relays, table, system, ends, history>>

CreateTun ==
    /\ pc = "creating" /\ tun' = TRUE
    /\ Goes(IF program = "hp-router" THEN "raising" ELSE "finding")
    /\ UNCHANGED <<program, uplink, bypass, tunnel_up, relays, table, system, ends, history>>

\* Routes::tunnel_up.
Raise ==
    /\ pc = "raising"
    /\ Ensure(bypass, uplink, TRUE, "hooking")
    /\ UNCHANGED <<program, tun, relays, table, system, ends, history>>

\* Hooks::up; the bridge and the refresh of the address run from here on.
HookUp ==
    /\ pc = "hooking" /\ hook' = "up" /\ Goes("serving")
    /\ UNCHANGED <<program, uplink, bypass, tunnel_up, tun, relays, table, system, ends, torn, last>>

\* The listener of the control protocol, in the router the phones as well: an
\* error of theirs ends the run.
Serve ==
    /\ pc = "serving"
    /\ \/ /\ Goes("loop")
          /\ UNCHANGED <<uplink, bypass, tunnel_up, tun, relays, table, ends, history>>
       \/ ends < MaxEnds /\ ends' = ends + 1 /\ Ends("error")
    /\ UNCHANGED <<program, system>>

-----------------------------------------------------------------------------
\* The loop.

\* A grant of the server, or its end (RelayOffer in control_loop).
Grant(offer) ==
    /\ pc \notin {"off", "finding"} /\ offer # granted /\ Reaches("vps")
    /\ changes < MaxChanges /\ changes' = changes + 1
    /\ granted' = offer /\ fresh' = TRUE
    /\ UNCHANGED <<program, process, adding, table, alive, defaults, ends, history>>

\* relay.changed: the relays as they are now, one after another.
RelaysChanged ==
    /\ pc = "loop" /\ fresh
    /\ fresh' = FALSE /\ adding' = SetToSeq(granted) /\ Goes("adding")
    /\ UNCHANGED <<program, uplink, bypass, tunnel_up, tun, granted, table, system, ends, history>>

\* Routes::add_bypass, or the end of the list.
AddBypass ==
    /\ pc = "adding"
    /\ IF adding = <<>> THEN Goes("loop") /\ UNCHANGED <<adding, uplink, bypass, tunnel_up>>
       ELSE /\ adding' = Tail(adding)
            /\ IF Contains(bypass, Head(adding)) THEN UNCHANGED <<pc, todo, then, uplink, bypass, tunnel_up>>
               ELSE Ensure(Append(bypass, Head(adding)), uplink, tunnel_up, "adding")
    /\ UNCHANGED <<program, tun, granted, fresh, table, system, ends, history>>

\* Mutant: whatever the uplink is, the routes are only completed.
CheckWithoutUplink ==
    /\ pc = "loop" /\ Missing(bypass, uplink, tunnel_up) # {}
    /\ Ensure(bypass, uplink, tunnel_up, "loop")
    /\ UNCHANGED <<program, tun, relays, table, system, ends, history>>

\* Routes::check every ROUTES_INTERVAL: another uplink ends the run, and so does
\* an uplink that cannot be read; with the same one, or with none for a while,
\* what is missing is set again.
Check ==
    /\ pc = "loop"
    /\ \/ Current \notin {0, uplink} /\ Ends("error") /\ UNCHANGED ends
       \/ ends < MaxEnds /\ ends' = ends + 1 /\ Ends("error")
       \/ /\ Current \in {0, uplink} /\ Missing(bypass, uplink, tunnel_up) # {}
          /\ Ensure(bypass, uplink, tunnel_up, "loop")
          /\ UNCHANGED <<program, tun, relays, table, system, ends, history>>

-----------------------------------------------------------------------------
\* The system.

Change ==
    /\ changes < MaxChanges /\ changes' = changes + 1
    /\ UNCHANGED <<program, process, relays, ends, hook, last>>

\* network reload: routes are gone that nobody but the process knows.
Reload ==
    /\ Change
    /\ \E kept \in SUBSET Host : via' = [h \in Host |-> IF h \in kept THEN via[h] ELSE 0]
    /\ halves' \in SUBSET halves
    /\ <<via', halves'>> # <<via, halves>> /\ torn' = TRUE
    /\ UNCHANGED <<byhand, alive, defaults>>

\* An interface goes, with every route over it.
Gone(u) ==
    /\ Change /\ u \in alive
    /\ alive' = alive \ {u} /\ defaults' = defaults \ {u}
    /\ via' = [h \in Host |-> IF via[h] = u THEN 0 ELSE via[h]]
    /\ torn' = TRUE
    /\ UNCHANGED <<halves, byhand>>

\* An interface comes (back) with its default, or only gets its default again.
Comes(u) ==
    /\ Change /\ u \notin defaults
    /\ alive' = alive \cup {u} /\ defaults' = defaults \cup {u}
    /\ UNCHANGED <<table, torn>>

\* Somebody puts a default into the TUN in the place of the others.
ByHand ==
    /\ Change /\ tun /\ ~byhand
    /\ byhand' = TRUE /\ defaults' = {} /\ torn' = TRUE
    /\ UNCHANGED <<via, halves, alive>>

Run ==
    \/ Start \/ Find \/ NoUplink \/ Answered \/ CreateTun \/ Raise \/ HookUp \/ Serve
    \/ RunCommand \/ CommandFails \/ Synced \/ RelaysChanged \/ AddBypass \/ Check
    \/ Lower \/ Unhook \/ Leave

Next ==
    \/ Run \/ Signal \/ Killed
    \/ \E offer \in SUBSET Relay : Grant(offer)
    \/ Reload \/ ByHand \/ \E u \in Uplink : Gone(u) \/ Comes(u)

Spec == Init /\ [][Next]_vars
\* The process runs, timers fire, procd restarts it; a request that can reach the
\* server is answered in the end, for it is repeated.
FairSpec == Spec /\ WF_vars(Run)
-----------------------------------------------------------------------------
\* Whole: all the routes the process wants are there.
Whole == Missing(bypass, uplink, tunnel_up) = {}

\* The tunnel does not swallow its own packets (the order of Routes::start and
\* tunnel_up): when addresses go into the TUN, the server's address and the
\* relays looked at do not, unless the system took routes away that the process
\* has not set again yet.
HolesGoAround ==
    halves # {} /\ ~torn =>
        \A h \in ToSet(bypass) : via[h] = uplink \/ (pc = "sync" /\ h # "vps")

\* "When the service stops, on-tun-down.sh after the /1 are gone" (routes.rs),
\* while the TUN is still there: a run that ended at a signal, and the router's at
\* an error in its loop as well, has called the script, whatever it was doing;
\* and nothing went into the TUN any more when it did.
StopsInOrder ==
    /\ pc = "off" /\ (last = "signal" \/ (last = "fault" /\ program = "hp-router")) => hook = "down"
    /\ pc = "leaving" => halves = {} /\ tun

\* The uplink is lost, changes, comes back: the router that waits for its address
\* with its sockets bound to an uplink that is gone does not notice.
Stuck == pc = "asking" /\ uplink \notin {0, Current}
Serving == pc = "loop" /\ Whole /\ uplink = Current /\ ~fresh

\* Once the system has an uplink to stay, the process serves over it with all
\* its routes: what was removed is set again, and a run that is bound to
\* another uplink ends and is started again (routes.rs, check).
RoutesComeBack == <>[](defaults # {}) => <>[]Serving \/ <>[]Stuck

=============================================================================
