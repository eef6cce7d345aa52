----------------------------- MODULE VpsServer -----------------------------
(***************************************************************************)
(* The server's holes of one client (vps/mod.rs): the decisions of         *)
(* KnockCore, the actor ClientActor that executes them, the tasks          *)
(* ServerHole with their ports, and the traces a task leaves in shared     *)
(* tables and removes when it is dropped (SlotBase).                       *)
(*                                                                         *)
(* A request may come at any time and any number of times: the client      *)
(* repeats it, the network delays and duplicates it.  Holes are direct,    *)
(* without a relay.                                                        *)
(***************************************************************************)
EXTENDS Integers, FiniteSets, SequencesExt

CONSTANTS
    Clients,          \* what may knock: sets of requests, one for each client version
    Port,             \* the range of slot ports
    max_holes,        \* KnockCore.max_holes
    CLOSED_MEMORY,
    MultiThread,      \* RUNTIME=multi: other tasks run between an end and its drop
    MaxEpoch          \* bound on the holes started

\* A request names the number of a hole, the session the client made for it
\* and the start of the client's process (0: an old version).
Requests == UNION Clients

\* A client of a version that tells its start always tells it; restarted, it draws
\* numbers of its own (vps/mod.rs:735).
ASSUME VpsServerAssumption ==
    /\ \A r \in Requests : r.started \in Nat
    /\ \A c \in Clients : \A r, q \in c :
          /\ r.session = q.session => r = q
          /\ r.started # q.started => 0 \notin {r.started, q.started} /\ r.slot # q.slot
    /\ max_holes \in Nat \ {0} /\ CLOSED_MEMORY \in Nat \ {0}
    /\ MultiThread \in BOOLEAN /\ MaxEpoch \in Nat

VARIABLES
    client,           \* the client version behind this peer
    core,             \* KnockCore: holes, closed, next_epoch, client_started
    records,          \* ClientActor.holes: slot -> [epoch, offered]
    replacing,        \* the spawn that awaits the end of an aborted task
    mailbox,          \* HoleMsg in the actor's channel
    tasks,            \* tasks not dropped yet: epoch -> task
    leases,           \* epoch -> port
    ctl,              \* HoleCtl: slot -> epoch of the task that receives
    registry,         \* LinkRegistry.by_slot: slot -> epoch of the task
    over              \* history: sessions of the holes that ended for good

actorVars == <<core, records, replacing>>
vars == <<client, actorVars, mailbox, tasks, leases, ctl, registry, over>>

Slot == {r.slot : r \in Requests}
Session == {r.session : r \in Requests}
Epoch == 1 .. MaxEpoch
Stage == {"starting", "punching", "held", "over"}

NoSpawn == [epoch |-> 0]

\* The function without x.
Without(f, x) == Restrict(f, DOMAIN f \ {x})
With(f, x, v) == [y \in DOMAIN f \cup {x} |-> IF y = x THEN v ELSE f[y]]

\* The state of the actor, of the tasks and of the shared tables; no more than
\* max_holes holes and CLOSED_MEMORY closed numbers are remembered, and no port
\* is leased to a task that is gone.
TypeOK ==
    /\ client \in Clients
    /\ DOMAIN core.holes \subseteq Slot /\ Cardinality(DOMAIN core.holes) <= max_holes
    /\ Len(core.closed) <= CLOSED_MEMORY
    /\ core.nextEpoch \in 0 .. MaxEpoch
    /\ DOMAIN records \subseteq Slot
    /\ DOMAIN tasks \subseteq Epoch
    /\ \A e \in DOMAIN tasks : tasks[e].stage \in Stage
    /\ leases \in [DOMAIN leases -> Port] /\ DOMAIN leases \subseteq DOMAIN tasks
    /\ ctl \in [DOMAIN ctl -> Epoch] /\ registry \in [DOMAIN registry -> Epoch]
    /\ over \subseteq Session

Init ==
    /\ client \in Clients
    /\ core = [holes |-> <<>>, closed |-> <<>>, nextEpoch |-> 0, started |-> 0]
    /\ records = <<>> /\ replacing = NoSpawn /\ mailbox = <<>>
    /\ tasks = <<>> /\ leases = <<>> /\ ctl = <<>> /\ registry = <<>>
    /\ over = {}

-----------------------------------------------------------------------------
\* KnockCore.

\* Mutant: every request is taken for a fresh one.
StaleNever(r) == FALSE

\* A late request of an earlier process of the client.
Stale(r) == r.started # 0 /\ r.started < core.started

Grown(r) == r.started > core.started

Restarted(r) == Grown(r) /\ core.started # 0

\* Mutant: a restarted client keeps its holes.
GreetedKeepsHoles(r) ==
    [core EXCEPT !.closed = IF Grown(r) THEN <<>> ELSE @,
                 !.started = IF Grown(r) THEN r.started ELSE @]

\* The core after it looked at the start of the client's process.
Greeted(r) ==
    [core EXCEPT !.holes = IF Restarted(r) THEN <<>> ELSE @,
                 !.closed = IF Grown(r) THEN <<>> ELSE @,
                 !.started = IF Grown(r) THEN r.started ELSE @]

WasClosed(c, r) == Contains(c.closed, <<r.slot, r.session>>)

Known(c, r) == r.slot \in DOMAIN c.holes /\ c.holes[r.slot].session = r.session

Replaces(c, r) == r.slot \in DOMAIN c.holes /\ ~Known(c, r)

HasRoom(c, r) == r.slot \in DOMAIN c.holes \/ Cardinality(DOMAIN c.holes) < max_holes

Spawns(c, r) == ~WasClosed(c, r) /\ ~Known(c, r) /\ HasRoom(c, r)

Spawned(c, r) ==
    [c EXCEPT !.nextEpoch = @ + 1,
              !.holes = With(@, r.slot, [epoch |-> c.nextEpoch + 1, session |-> r.session])]

\* The hole that ended is the current one of its number.
IsCurrent(m) == m.slot \in DOMAIN core.holes /\ core.holes[m.slot].epoch = m.epoch

Closed(m) ==
    LET closed == Append(core.closed, <<m.slot, core.holes[m.slot].session>>)
    IN  [core EXCEPT !.holes = Without(@, m.slot),
                     !.closed = IF m.retry THEN @
                                ELSE IF Len(closed) > CLOSED_MEMORY THEN Tail(closed) ELSE closed]

-----------------------------------------------------------------------------
\* ClientActor.

\* Aborts take effect when the task is next scheduled.
Aborted(epochs) == [e \in DOMAIN tasks |-> [tasks[e] EXCEPT !.aborted = @ \/ e \in epochs]]

Task(r) == [slot |-> r.slot, session |-> r.session, started |-> r.started,
            stage |-> "starting", aborted |-> FALSE]

RecordedEpochs(slots) == {records[s].epoch : s \in slots}

\* spawn_hole; HoleFactory::make puts the sender of commands into ctl.
SpawnHole(r, epoch, remaining, running) ==
    /\ records' = With(remaining, r.slot, [epoch |-> epoch, offered |-> FALSE])
    /\ tasks' = With(running, epoch, Task(r))
    /\ ctl' = With(ctl, r.slot, epoch)

\* A request that only tells of the client's start, or is answered.
KnockWithoutHole(r) ==
    LET c == Greeted(r)
    IN  /\ ~Spawns(c, r)
        /\ core' = c
        /\ records' = IF Restarted(r) THEN <<>> ELSE records
        /\ tasks' = IF Restarted(r) THEN Aborted(RecordedEpochs(DOMAIN records)) ELSE tasks
        /\ UNCHANGED <<replacing, ctl>>

\* A request for a new number: the holes of the client's last process are
\* aborted, and the new one is started at once.
KnockSpawns(r) ==
    LET c == Greeted(r)
    IN  /\ Spawns(c, r) /\ ~Replaces(c, r)
        /\ core' = Spawned(c, r)
        /\ IF Restarted(r)
           THEN SpawnHole(r, c.nextEpoch + 1, <<>>, Aborted(RecordedEpochs(DOMAIN records)))
           ELSE SpawnHole(r, c.nextEpoch + 1, records, tasks)
        /\ UNCHANGED replacing

\* Mutant: the old task is aborted and not awaited.
KnockReplacesAtOnce(r) ==
    LET c == Greeted(r)
    IN  /\ Spawns(c, r) /\ Replaces(c, r) /\ r.slot \in DOMAIN records
        /\ core' = Spawned(c, r)
        /\ SpawnHole(r, c.nextEpoch + 1, records, Aborted({records[r.slot].epoch}))
        /\ UNCHANGED replacing

\* A known number with a new session: the old task is aborted and awaited.
KnockReplaces(r) ==
    LET c == Greeted(r)
    IN  /\ Spawns(c, r) /\ Replaces(c, r) /\ r.slot \in DOMAIN records
        /\ core' = Spawned(c, r)
        /\ replacing' = [epoch |-> c.nextEpoch + 1, request |-> r,
                         old |-> records[r.slot].epoch]
        /\ records' = Without(records, r.slot)
        /\ tasks' = Aborted({records[r.slot].epoch})
        /\ UNCHANGED ctl

Idle == replacing = NoSpawn

Knock(r) ==
    /\ Idle /\ ~Stale(r) /\ core.nextEpoch < MaxEpoch
    /\ KnockWithoutHole(r) \/ KnockSpawns(r) \/ KnockReplaces(r)
    /\ UNCHANGED <<client, mailbox, leases, registry, over>>

\* The old task is gone: the actor goes on to spawn_hole.
Replace ==
    /\ ~Idle /\ replacing.old \notin DOMAIN tasks
    /\ SpawnHole(replacing.request, replacing.epoch, records, tasks)
    /\ replacing' = NoSpawn
    /\ UNCHANGED <<client, core, mailbox, leases, registry, over>>

\* on_message.
Receive ==
    /\ Idle /\ mailbox # <<>>
    /\ mailbox' = Tail(mailbox)
    /\ LET m == Head(mailbox)
       IN  \/ /\ m.kind = "offer"
              /\ records' = IF m.slot \in DOMAIN records /\ records[m.slot].epoch = m.epoch
                            THEN [records EXCEPT ![m.slot].offered = TRUE] ELSE records
              /\ UNCHANGED <<core, over>>
           \/ /\ m.kind = "ended" /\ IsCurrent(m)
              /\ core' = Closed(m)
              /\ records' = Without(records, m.slot)
              /\ over' = IF m.retry THEN over ELSE over \cup {core.holes[m.slot].session}
           \/ /\ m.kind = "ended" /\ ~IsCurrent(m)
              /\ UNCHANGED <<core, records, over>>
    /\ UNCHANGED <<client, replacing, tasks, leases, ctl, registry>>

-----------------------------------------------------------------------------
\* ServerHole.

Running(e) == e \in DOMAIN tasks /\ ~tasks[e].aborted /\ tasks[e].stage # "over"

\* What the drop of a task takes with it: SlotBase::drop removes the number
\* from ctl and from the registry, the lease returns its port.
Dropped(e) ==
    /\ tasks' = Without(tasks, e)
    /\ ctl' = Without(ctl, tasks[e].slot)
    /\ registry' = Without(registry, tasks[e].slot)

\* serve returned (its lease is gone): Ended, then the task is dropped.
EndTask(e, retry) ==
    /\ mailbox' = Append(mailbox, [kind |-> "ended", slot |-> tasks[e].slot,
                                   epoch |-> e, retry |-> retry])
    /\ leases' = Without(leases, e)
    /\ IF MultiThread
       THEN /\ tasks' = [tasks EXCEPT ![e].stage = "over"]
            /\ registry' = IF tasks[e].stage = "held" THEN Without(registry, tasks[e].slot)
                           ELSE registry
            /\ UNCHANGED ctl
       ELSE Dropped(e)
    /\ UNCHANGED <<client, actorVars, over>>

\* PortPool: the ports that lease may give.
FreePorts == Port \ {leases[e] : e \in DOMAIN leases}

\* The hole has a port: its record goes to the actor.
Listen(e) ==
    /\ Running(e) /\ tasks[e].stage = "starting"
    /\ \E p \in FreePorts : leases' = With(leases, e, p)
    /\ tasks' = [tasks EXCEPT ![e].stage = "punching"]
    /\ mailbox' = Append(mailbox, [kind |-> "offer", slot |-> tasks[e].slot, epoch |-> e])
    /\ UNCHANGED <<client, actorVars, ctl, registry, over>>

\* lease_and_bind fails, no port being free or to be bound: our fault, the number
\* may be tried again.
NoPort(e) == Running(e) /\ tasks[e].stage = "starting" /\ EndTask(e, TRUE)

\* The client has come: hold puts the hole into the registry.
Hold(e) ==
    /\ Running(e) /\ tasks[e].stage = "punching"
    /\ tasks' = [tasks EXCEPT ![e].stage = "held"]
    /\ registry' = With(registry, tasks[e].slot, e)
    /\ UNCHANGED <<client, actorVars, mailbox, leases, ctl, over>>

\* PUNCH_WINDOW is over, a command came, or the hole is lost or drained.
End(e) == Running(e) /\ tasks[e].stage \in {"punching", "held"} /\ EndTask(e, FALSE)

\* The task is over or aborted: the runtime drops it.
Drop(e) ==
    /\ e \in DOMAIN tasks /\ ~Running(e)
    /\ Dropped(e) /\ leases' = Without(leases, e)
    /\ UNCHANGED <<client, actorVars, mailbox, over>>

Next ==
    \/ \E r \in client : Knock(r)
    \/ Replace \/ Receive
    \/ \E e \in Epoch : Listen(e) \/ NoPort(e) \/ Hold(e) \/ End(e) \/ Drop(e)

Spec == Init /\ [][Next]_vars

-----------------------------------------------------------------------------
\* Properties.

EndedInMailbox(e) ==
    \E i \in DOMAIN mailbox : mailbox[i].kind = "ended" /\ mailbox[i].epoch = e

\* The core, the actor and the tasks keep the same holes (vps/mod.rs:393-402,
\* 479-481): a place under max_holes is taken only by a hole whose task runs or
\* whose Ended is on its way, so that no place is lost for ever; and every task
\* that runs is the current hole of its number, so that the actor can abort it.
PlacesAreServed ==
    /\ Idle => DOMAIN records = DOMAIN core.holes
    /\ \A s \in DOMAIN records :
          /\ s \in DOMAIN core.holes /\ records[s].epoch = core.holes[s].epoch
          /\ Running(records[s].epoch) \/ EndedInMailbox(records[s].epoch)
    /\ \A e \in Epoch :
          Running(e) => /\ tasks[e].slot \in DOMAIN records
                        /\ records[tasks[e].slot].epoch = e

\* Requests come late and again.  Once one of a later process of the client came,
\* no hole of an earlier process runs (vps/mod.rs:386), and none of a session
\* that is over (vps/mod.rs:13-15) while the memory of closed holes lasts.
LateRequestsStartNothing ==
    \A e \in Epoch :
        Running(e) =>
            /\ tasks[e].started \in {0, core.started}
            /\ Cardinality(over) <= CLOSED_MEMORY => tasks[e].session \notin over

\* The end of an old task does not touch a new hole with its number
\* (vps/mod.rs:531-532): commands reach every running hole, and what is held
\* is in the registry.
TracesAreOwn ==
    \A e \in Epoch :
        Running(e) =>
            /\ tasks[e].slot \in DOMAIN ctl /\ ctl[tasks[e].slot] = e
            /\ tasks[e].stage = "held" =>
                  tasks[e].slot \in DOMAIN registry /\ registry[tasks[e].slot] = e

=============================================================================
