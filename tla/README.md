# Specifications of home-proxy

TLA+ models of the parts of home-proxy that decide something together with
somebody else: two ends of a hole, two sides that open holes against each
other, a buffer and a network that reorders, a policy and the holes it manages,
a server and the requests of a client, a process and the routes of its host, a
list of phones and the file that outlives it. TLC checks small instances; TLAPS
proves the most important results for every value of the constants.

`PROJECT.json` lists components, runs, mutants, the map from definitions to
source lines, hazards and theorems.

## The system

The traffic of a phone, a router or a host goes to a peer over a changing set
of 4 to 10 UDP *holes*. In VPS mode the server has a public address and the
client opens holes by knocking on one port, directly or through a relay; in P2P
mode both sides are behind NAT, meet through STUN and MQTT and punch.
Everything above the holes (`MultiLink`) is common.

| Component (source) | State | Operations | What makes it correct | Module |
|---|---|---|---|---|
| Punching and keeping a hole (`connection/src/punch.rs`, `port_utils.rs`, `auth.rs` `ReplayWindow`) | endpoint, confirmed, window, statistics | sweep, `Punch`/`PunchAck`, open, lost, judge | the ends find each other, no packet counts twice, no loss is seen where there is none | `HoleLink` |
| Closing by agreement (`drain.rs`, `multilink.rs` `SlotBase::drain`) | `Drain`: requested, Confirming / Draining / Closed with their moments | `request`, `receive`, `on_peer_drain`, `on_tick` | nobody stops alone, late data is received, the drain ends | `Drain` |
| MultiLink (`multilink.rs`) | `LinkRegistry`, `HoleCtl`, phases, journal, `SlotPicker` | `hold`, `choose_link`, `send_command`, drop | registry, channels and status are those of the running tasks; a hole told to go goes | `MultiLink` |
| Hole pool (`holes.rs`, `vps/mod.rs` `Manager`) | holes with age, state, losses | `plan`, `evaluate`, `open`, end of a hole | enough holes in work, the old ones leave | `PoolPolicy`, `HolePool` |
| P2P mode (`p2p/mod.rs`, `p2p/mqtt.rs`) | `Core`: holes, sessions, closed | `on_peer`, `on_ended`, `evaluate` | both sides come to the same set, late records open nothing | `P2P`, `PoolPolicy` |
| Holes on the VPS server (`vps/mod.rs` `KnockCore`, `ClientActor`, `ServerHole`; `port_pool.rs`) | holes by number, closed numbers, tasks, ports, channels, registry | `knock`, `on_ended`, `on_message`, spawn, abort, drop | no place lost, no orphan or revenant hole, traces touched only by their owner | `VpsServer` |
| Port of acquaintance (`vps/mod.rs` `Bootstrap`, `listen`) | registrations by short name, channel of commands | register, unregister by a dropped guard, inject | who is served is reached, whenever old guards are dropped | `Listener` |
| Relays and paths (`vps/relay.rs`, `vps/paths.rs`, `vps-relay`) | relays, tokens, sessions, permits, bans | hello, announce, order, answer, `judge` | answers reach the hole they were ordered for, permits follow the relays, a bad path is left | `Relays`, `Paths` |
| Data path (`tun/src/bridge.rs`, `reorder.rs` `Sequencer`, `wire.rs`, hp-router) | counters of flows | number, wrap, parse | one session, one sender | `DataPath`, `Flows` |
| Reorder buffer (`reorder.rs`) | sessions: next number, ring of held packets, skipped numbers; the wait | `push_into`, `expire_into` | nothing forgotten, held too long or let out of order | `HeldRing`, `Reorder` |
| Packet statistics (`stats/collector.rs`, `stats_feedback.rs`, `dedup.rs`) | pids, window, reports, pending rows | send, receive, report, sweep | a row says the truth, every packet gets one | `Feedback` |
| Address book (`hp-server/src/addresses.rs`) | key to address, file | `get_or_assign`, `load`, `save` | one address, one key, for ever | `AddressBook` |
| Hub (`tun/src/hub.rs`) | `by_addr`, `by_owner` | `assign`, `remove_peer`, `uplink`, `downlink` | the two maps agree | `Hub` |
| Service (`hp-server/src/service.rs`), router's phones, `vps-server` clients | entries, their file, callers in the middle of a call | `add`, `serve_addresses`, `remove_peer`, `create_pairing`, `housekeeping`, `watch_clients` | routes lead to peers in service; a package handed out is served; list and file follow one another | `AddressService`, `Pairing` |
| Process at the client's end (`vps-client`, `hp-router` `run`; `tun/src/routes.rs`) | routes, bypasses, uplink, scripts | start, check, `tunnel_up`, sync, stop | the tunnel does not swallow its own packets; routes come back | `Tunnel` |

Not modelled: buffers, labels and entry points; the exchange of the control
protocol and the tray's windows; benchmarks, logs, packaging, Android's
interface and scripts.

How they meet: the manager (pool) sends commands to the holes' tasks through
`HoleCtl` (bounded, `try_send`) and reads their state from the registry; a
task's end comes back through an unbounded channel. Each hole's packet loop
sends events to the one `control_loop` of a `MultiLink`, which feeds the
reorder buffer, hands packets to the application and service messages to
`serve_addresses`; that task uses the book and then the hub, each under its own
lock. The server's actor owns the decisions about a client's holes and starts
or aborts their tasks. Relays talk to the server over holes of their own.

What is hard about it: messages over UDP are lost, doubled and late; state
changes at two ends by timers that run late; tasks are aborted between any two
awaits and clean up in `Drop`; the runtime has one thread or several; the table
of routes belongs to the system; processes are restarted with what a file holds.
`PROJECT.json` names 39 such places with the properties that watch them, or the
reason why none does.

## Modules

`GracefulClose`, `Drain` — one hole, two ends. Each end has the fields of
`Drain` (phase, requested, moments) and `sending`, the registry's mark.
`Retire`, `Receive` begin a drain out of `hold`; `Confirmed`, `ConfirmAgain` are
`on_peer_drain`; `GiveUp`, `RequestAgain`, `Close` are `on_tick`. Executing the
actions is part of the step except where the shell awaits the sends before
`MarkDraining` (`receive`): that is the action `MarkDraining`. Time is a counter:
a message may arrive at any moment, any number of times, up to `NetDelay` after
it was sent, or never; a due timer runs up to `Lateness` late.

`HoleLink` — one hole, from the search to its loss. `Sweep` sends `Punch` to the
ports of `destinations` from the guess outwards; `Deliver` is the receiver's whole
arm: the NAT, the window, the endpoint that follows the last valid packet, the
answer, the statistics. `Tick` and `Lost` are the loss detection. `link_is_bad`
is in the receipt of `Stats`. What the network and the ends may do (losses, copies,
moves, packets on their way at once, packets sent) is `setting`, chosen at the start.

`MultiLink` — the tasks of the holes of one peer from `starting` to their end,
by every way out of `hold` and by abort at every await, and what each step leaves in
`HoleCtl`, the registry, the report index, the phases and the journal. `Send` is
`choose_link` with the credit of `SlotPicker`.

`PoolPolicy`, `HolePool` — `Plan` is the body of `plan` as a set of holes to retire
and a number to open, for any caller; `HolePool` is the client's manager with its
holes in the order they were opened: `Evaluate` executes the plan on `ManagerTick`
and at once after `Ended`. The life of a hole and what is measured are the
environment. `confirming` is the state in which the registry still says Active
though the hole was asked to leave.

`P2P` — two `Core`s with that policy, over live holes and a broker that retains
records. `closed` holds the last `CLOSED_MEMORY` holes that ended (`Recent`).
`Restart` loses a side's memory but not its records at the broker. `HoleEnds` is a
hole that loses its link or whose HOLE_DEADLINE or RECORD_WAIT is over, where these
are slower than all that takes seconds (`Quiet`); a wait that ends earlier, with the
answer under way, is a `Fail`.

`VpsServer` — one client of the server. `Knock` is the whole handler up to its
await (`KnockWithoutHole`, `KnockSpawns`, `KnockReplaces`); `Replace` is what
follows the await of the old task; `Receive` is `on_message`. An abort is a mark,
`Drop` is the moment the runtime drops the task with its lease, its command
channel and its registry entry: one step with the end on one thread, a step of
its own with `MultiThread`.

`Paths`, `Relays` — `Paths` holds `path_losses`, `judge`, `allowed` and
`relay_wanted` as functions on integers. `Relays` has the server's registry
(`Hello`, `CheckAlive`, `Announce`), the client's permits and bans
(`ReceiveOffer`, `GrantExpires`, `CheckPaths`, `BanExpires`, `Evaluate`), the
order of a session (`KnockRelay`, `OpenSession`, `Ready`, `OpenWaitOver`) and a
relay that stops and starts.

`DataPath`, `HeldRing`, `Reorder`, `Flows` — `DataPath` has the stateless steps of
a packet: inspected, numbered, written into a message, read, wrapped and
unwrapped by a router. `HeldRing` is the ring with count, lowest, highest and
oldest. `Reorder` has `Arrive` (`push_into`: eviction, new session, restarted
numbering, late, in order, far ahead, held), `Expire` and `Tick`; the loops that
hand packets over are folds of one turn (`TakeLowest`, `SkipIfDue`). `Flows` joins
them: packets read from a router's TUN and a phone's, or from the hub's, on their
way in any order, into one resequencer.

`Feedback` — pids on the server, the duplicate window and reports of each peer, the
bounded channel and the one table of the collector, whose keys are pids without the
peer. `Numbers` is `2^32` made small, so that numbers come round.

`AddressBook`, `Hub`, `AddressService` — the book and the hub's table are
operators on functions; `AddressService` has the tasks. A request is `Grant`
(book and file under one lock) and `Assign` (hub and answer); a removal is
`TakeOut`, `Forget`, `Dropped`; `Restart` leaves only the file. `Undisturbed`
is the single-threaded runtime: nothing runs inside a request or a removal. With
`MultiThread` they interleave, and `overtaken` remembers the requests whose link the
hub forgot between `Grant` and `Assign`.

`Pairing` — the entries with their origin and the file, in three programs that
share them: hp-server (copies the list, writes after), hp-router (a lock around
all of it), vps-server (a watcher of `clients.txt` and a channel of changes). It
extends `Listener`, where the added clients register: `Register` waits for room,
`GuardDrops` is the `try_send` of a guard whose task was aborted or has lost
its channel, `HandleCommand` is the listener's arm of commands. The lines of the file
are read back in no particular order: their names and numbers differ.

`Tunnel` — `run` of vps-client and hp-router as a program counter whose unit is
one `ip` command, with the `sync` of `routes.rs` as the set of commands still
missing, carried out in the order of `missing` (`Place`, `Foremost`), and the
`tunnel_down` of the script as one `Lower` per route before `Vanish` drops the TUN,
between a system that changes the table at any moment and a procd
that starts the process again. A `Check` may also fail to read the uplink.

`*Proofs` modules extend the module they are about with its invariants and
theorems (see Proofs).

`MC*` modules give the constants values. `MCPackets` and `MCServer` hold two
systems each that share no variable: `part` says which of them a behaviour follows.
The mutants named in `PROJECT.json`
are definitions beside the ones they replace, each a mistake one could make in
that line.

## Runs

| Run | Instance | Shows |
|---|---|---|
| `drain` | CONFIRM_WAIT 5, RETRY 2, GRACE 8, delay 1, lateness 1; drains asked for up to time 3 | late data is received, the two ends implement `GracefulClose`, every drain ends |
| `hole_link` | lossy: ports 1 and 2, one end moves once, a passive end, 1 loss, 1 packet kept for repetition; slow: no loss, up to 5 packets on their way; window of 4, sample of 3 | the ends find each other, count nothing twice, judge no hole bad where nothing is lost unless a count overtook what it counts, do not stay open alone |
| `multilink` | two holes of a server, a channel of one command, 2 orders, 2 packets of the peer | traces are those of the running tasks, no usable hole is passed over, a hole told to go goes |
| `hole_pool` | minimum 1, maximum 2 (4 places), 2 troubles | one evaluation keeps the minimum, it is restored, the oldest is rotated |
| `p2p` | sets of 1 to 2 holes, memory of 2 closed holes; without trouble 3 sessions a side and growth on or off, or with 1 trouble 6 sessions | late records reopen nothing, the sides come to a full common set, and recover from a failure, an early timeout or a restart |
| `server` | holes: 2 places, 2 ports, memory of 2 closed numbers, 4 starts, an old client that reuses a number, a new one that restarts, one thread; peers: each of three programs, two connections of the tray, 3 phones, 3 edits or 2 and a restart, a channel of one command | every place is served, late requests start nothing, traces belong to their task; packages are served, file and list follow one another, the service follows `clients.txt` and is reached, a phone that came stays |
| `relays` | one relay with one session port, two holes, two tokens, 2 troubles | answers lead home, permits follow the relays, holes return |
| `packets` | order: ring of 4, one session for two senders, one new numbering, 6 packets read, 4 arrivals, wait 1 to 2; statistics: 7 packets of one client with 6 numbers, or 2 and 1 of two clients, window 2, reports of 2, channel of 2, 1 loss, 1 restart | nothing is forgotten, sessions are a sender's own, gaps are waited for, order; rows tell of numbers that came, no new packet is taken for old, all get a row |
| `rows` | the same; a violation is expected | with two clients a row says delivered of a packet that was lost |
| `addresses` | two peers with one short name, a phone behind each, 1 host and 2 phone addresses, 3 starts; several threads | the maps agree, addresses are permanent, routes lead to entries unless a removal overtook the request, a client that asks is routed |
| `removal` | the same; a violation is expected | a removed peer's route comes back |
| `tunnel` | each of two programs, two uplinks, one relay, 4 changes of the system, 1 end | holes go around the tunnel, a signal and a router's error in the loop take all down, routes come back |

The bounds let the interesting cases happen. In `drain` the margin of GRACE is
exactly what `DrainAssumption` demands. In `hole_link` the peer is off by one
port, an old candidate leads nowhere, a repeated packet falls in and behind
the window, and in the slow setting an end sends enough for its peer's sample, with
the report of it overtaking the packets. In `multilink` a command finds its channel
full. In `hole_pool` the pool holds twice the maximum, the cap of the manager. In
`p2p` both sides open the last place at once, the memory of closed holes overflows,
and after a trouble six sessions are as many as a side ever opens (with seven the run
finds the same states), so that no behaviour of `Recover` ends at the bound: a
restarted side answers all its peer's stale records and is left to recover. In
`server` requests exceed places and ports, the closed list overflows, a removal falls
into the start of a new phone and between two copies of the list, one client takes
the name of another, and a guard finds the channel full. In `relays` an answer comes
after its order was given up and its token serves another hole, and losses may be
unknown. In `packets` the ring wraps, a jump passes `MAX_GAP`, a second sender evicts
the first, a numbering restarts; the numbers come round with a report on its way, the
channel overflows, and two clients use one number at once. In `addresses` the
two peers take over each other's address, and a removal falls between a request's two
halves. In `tunnel` a route is
lost between any two commands of a sync or of a removal.
Every bound is a constant named in its
module, used in a guard.

Deadlock is not checked where the system may stop: a closed hole, a full set
of ended holes, whole routes with nothing to do (`drain`, `hole_link`, `multilink`,
`p2p`, `tunnel`), and where bounds end the behaviour (`packets`, `rows`, `server`).
Each module states its `TypeOK` beside the properties, and the
theorems of type correctness prove it where they are listed.

### Where code and comments part

What the modelling brought to light; the models follow the code.

- `reorder.rs:374`: `prune` drops what an evicted session holds; the comment at
  line 6 promises to hand it over. `NothingIsForgotten` excepts the eviction.
- `holes.rs:177`: holes asked to leave count as in work, so the minimum of line
  194 is kept by one evaluation and not by two in a row: hence
  `LonePlanKeepsMinimum`. Replacements of bad holes pass `max_total`
  (`holes.rs:157` against line 64), up to the manager's limit of twice that.
- `vps/mod.rs:584`: with `RUNTIME=multi` an ended hole is dropped after its
  number was taken by another, and takes the next hole's traces (the comment at
  line 531 wants to exclude it). `TracesAreOwn` holds on one thread only.
- `service.rs:346`: hp-server runs on several threads (`hp-server/src/lib.rs:336`), and
  there a request that was granted its address before a removal assigns it after:
  the route of the removed peer is back, though `hub.rs:114` says that its addresses
  lead nowhere any more. The run `removal` shows it. When the peer is added again,
  the early return of `hub.rs:81` keeps the dead link. `RoutesLeadToEntries` and
  `ClientIsRouted` hold on any runtime but for such requests (`overtaken`); on one
  thread there are none (`OneThreadForgets`).
- `routes.rs:12-14` wants a changed uplink noticed, but a router that waits in
  `request_address` (`bridge.rs:256-289`) is before its first `check`: bound to an
  uplink that is gone it waits for ever. This is `Stuck` in `RoutesComeBack`.
- A `vps-client` that leaves its loop by an error, and a router that fails between
  the script and its loop, do not call on-tun-down; `StopsInOrder` speaks of
  signals and of errors in the router's loop.
- `relay.rs:42-43`: that a lost announcement does no harm is true of single losses;
  when all copies of two in a row are lost the permits expire until the next.
- `multilink.rs:836-837`: when only draining holes are left, data goes over holes
  that were never confirmed.
- `collector.rs:74` keys the one table of the process by the pid alone, but every
  peer's `MultiLink` numbers from 0 (`multilink.rs:985`) and `service.rs:162-165` gives
  all of them the same collector. The acknowledgement of one peer's packet writes the
  other's with the same number as delivered, though `REPORT-ML.md:10-11` says the table
  tells which packets arrived: the run `rows`. What holds for any peers is
  `RowsAreTrue`: some packet with the row's number arrived while one was outstanding.
- After a restart of the server, or of a peer's entry, the pids begin at 0 and may
  fall into the window of a client that kept running (`dedup.rs:76`):
  `NoneTakenForOld` is stated for behaviours without a restart. A peer removed and
  added again without one is not modelled in `Feedback`.
- `service.rs:244`: two savers of hp-server may write their copies in the other
  order; `overlapped` marks it, and `FileFollowsList` excepts it. Two calls of
  `create_pairing` at once leave two pending phones (`service.rs:181`).
- In P2P a side may hold more than `max_total`: `on_peer` (`p2p/mod.rs:241`) looks only
  at the holes whose peer is known, and not at the cap `max_holes` that the policy's
  own holes keep to. `closed` keeps only the last session of a number, and the last
  256 holes: an end answered for two records forgets the first, and `NoneServedTwice`
  speaks of the later, while the memory has room. A stale retained record occupies
  a place until its punching ends.

## Fairness

`Drain`: the clock goes on and each end's due timers run. Nothing is assumed of
messages: the drain ends though all are lost. `HoleLink`: the sweeper and the timer
run; a packet in flight is delivered or, if the NAT does not let it in, dropped;
losses are bounded. `MultiLink`: the arms of `hold` that are ready are taken and
drains end, by their timers; the network, the peer and the application
may do nothing. `HolePool`: the manager's ticker, the interval of `plan`, and each
hole's own steps; troubles are finitely many, so "restored" means after the
last. `P2P`: each side takes steps, the broker and STUN answer; the 90 and 15 seconds
of a hole end after what takes seconds, except once (`troubles`). `Relays`: timers
run, messages that are not lost arrive, a relay that runs says hello; nothing is
assumed of when relays run or paths break. `Feedback`: the collector and its
sweep. `VpsServer` and `Flows` have safety properties only. `Pairing`: the main loop's
second and calls that began. `Tunnel`: the process
runs, procd restarts it, a request that can reach the server is answered in the
end since it is repeated. `AddressService`: calls that began go on, and a running
task serves each watched client again and again, because clients ask every
second until they have an address and every 30 seconds after that
(`bridge.rs:250-254`); this is strong fairness, since a task that is removed and
added comes back to being able to serve.

## Proofs

`DrainProofs` proves the safety of `Drain` and the refinement for every value of
the six constants that satisfies `DrainAssumption`: RETRY is positive, NetDelay
is at most CONFIRM_WAIT, and GRACE is more than CONFIRM_WAIT plus NetDelay plus
Lateness. The properties are not inductive: that late data is received depends
on when an end began its grace. `IInv` adds that moment. `OwnState` bounds it by
the end's own request (`started + CONFIRM_WAIT + Lateness`), `HeardState` by the
other's last request (`lastSent + NetDelay`), `DrainInFlight` and `DataInFlight`
say when a message in flight was sent relative to it. `GraceSuffices` is the
arithmetic: GRACE is over only after the other end learned of the drain and all
it had sent has arrived. From it follow `LateDataIsReceivedHolds` and, step by
step, `Refinement`; `NoUnilateralStopHolds` and `AnswersOnlyRequestsHolds` come
on the way.

The second half of the module is about `HolePool`, for any minimum and maximum. `OldestIs`
and `PlanIs` say what a plan may do: it never asks more holes to leave than `Slack`
allows, but for those that lose badly, and none while it restores the minimum.
`EnoughStay` is the arithmetic of what remains in work, `EndedGood` says that forgetting
a hole that is gone keeps the places of the others. `LonePlanKeepsMinimumHolds` follows
for every step with an evaluation in it; `PoolTypeCorrect` holds the manager to its cap,
twice `max_total`, whatever the plan wants.

`AddressServiceProofs` proves the invariants of the address service for any sets
of peers, names, clients and pools. Lemmas about `Assigned` and `WithoutPeer`
keep the table's maps mutual; `IInv` adds that the file equals the book between
steps and that a request in flight carries what the book holds, which
`RoutesFollowTheBook` needs. `RIInv` adds of every request in flight and of every
route that its link is in service or is about to be forgotten (`ToForget`), or that a
removal overtook the request: from it follows `RoutesLeadToEntriesHolds`, on either
runtime. `OneThreadForgets` says that with `~MultiThread` nothing is ever overtaken.

`VpsServerProofs` is about any requests, ports, sizes of the memory and epochs.
`PlacesAreServed` is inductive only together with what tells holes apart: an
epoch belongs to one number (`EpochsAreOwn`, `EpochsNameHoles`), the hole whose
old task is awaited has no record and no task yet (`ReplacementWaits`), and an end
in the mailbox means that the task is over (`EndedAreOver`). For late requests
`AliveAreOfThisProcess` says of which process of the client everything alive is,
and `MemoryIsComplete` that `closed` holds every end of that process as long as
it has room. `TracesAreOwnHolds` is proved under `~MultiThread` by `TIInv`: a task
that is not running is being replaced or belongs to an earlier process, and no
two have one number. `VpsServerAssumption` says of a client started again that
neither its numbers nor its start repeat those of the process before it.

The second half of the module proves the safety of `Pairing` in all three programs,
for any connections, finite sets of clients, names and sizes of the channel. For
the phones (`PhonesIInv`): a phone that waits is the only one with its GUIDs and its
package is valid only before its term ends (`PendingFit`), the router's phone under
way has a number nobody has (`NumbersFit`, the effect of `pairing_lock`), and as long
as savers do not overlap the one copy being written is the list unless somebody is
about to save (`FileFits`). `FilteredIs` and `RemovedIs` say where the entries of
the list after `retain` and `remove` come from. For the clients: `ChangesFit` says
that the changes in the channel lead, one by one, from the clients served to those
the watcher knows, and that of two with one short name the elder is removed first;
since `remove_peer` takes the first entry with the name, each removal takes the
right one. `TokensFit` says that the newest entry with a name has a guard that
lives, no drop of it under way, and its registration either entered with no rival
queued behind it or queued itself as the last of its name, so that drops of elder
guards do not match it. Together they give `ServiceFollowsClientsHolds`. Assumed:
clients are finitely many and are not the numbers that stand for phones.

`MultiLinkProofs` has two invariants. `Traced(s)` ties the tables' entries of a
hole to the stage of its task; a step at one hole keeps the traces of the others
(`OthersKeep`), so that each way a task goes on or ends is checked for one hole.
`Shared` is the potential of the picker: a hole outside the rest of the cycle is
passed while the rest shrinks, one inside it until the others are used up, which
bounds `passed` by twice the number of other holes. `Slot` is assumed finite.

`HoleLinkProofs` proves `HeardOnce` from `EachCountedOnce`: the packets counted and
the counters below the top that the window would still accept are together no
more than the top, which is no more than the other end has sealed. `AcceptedIs`
is the arithmetic of shifting the window. That an address is never the value for
none is assumed of `Place`.

`BadMeansLossHolds` compares what the peer says it has sent with what came of it. The
two differ by the packets that the statement overtook (`Overtaken`): a full sample
condemns a hole that loses nothing exactly when these are more than half of it. That
is a limit of `link_is_bad`, not of the proof, so the property names it, and nothing is
assumed of how many packets are under way. `LossIInv` holds in any state: each packet
has a counter of its own (`OneEach`) that its receiver has not let in (`Unheard`), and
what is kept for repetition has been let in or is too old (`KeptAreOld`); this lasts
because what a window refuses it refuses for ever (`OldStaysOld`). Packets go
to ends that live (`ToTheLiving`). While nothing is lost and nobody moves
(`Undisturbed`), ends are where they are known (`AtHome`), what one has sent is received
or on its way (`AllCounted`), and each statement under way says no more than was
received and what it has overtaken (`ReportsFit`). A step judges only the end
that it delivers a statement to (`OthersDoNotJudge`, `ReportJudges`).

The same module proves `NoneServedTwice` of `P2P`. Its invariant `SidesIInv` says of
each side that numbers of holes differ (`NumberedOnce`), that no hole has a session
yet to be opened (`SessionsPast`), and that the record last answered under a number
is that of the hole which has it, or is in the memory of closed holes unless that is
full (`AnswerStands`, `Covered`). `NumberedOnce` needs that `FreeId` always finds a number
the peer has not taken (`FreeIdIs`).

`RelaysProofs`: `OfferedLeadsHome` needs to know of every token what its order,
its message on the wire and the relay's session have to do with one another
(`OrderFits`), and that a hole with a session has one that leads to it
(`HoleFits`); then an answer to an order given up finds no hole. The turn of a path
is found by a fold over the relays, which `InTurnIs` and `EvaluateIs` bound. Assumed: `None` is none
of the values it stands beside, holes are finitely many, `Turns` is a common
multiple of the lengths the list of relays may have.

`TunnelProofs` proves that the holes go around the tunnel: a host whose route is
missing is on the list of the sync (`Around`), the server's own is set before half
of the addresses goes into the TUN (`ServerAround`), which happens only with an
uplink that lives or is known to be torn (`UplinkFits`). That a stop is in order, after a signal or
after an error in the router's loop, follows from `HookFits` (who has to run the
script down, and that it has not run before), from `HalvesFit` (a half leads into
a TUN that is there, and at the end of the removal none is left to delete) and from
`TunFits` (the TUN is there as long as the script has it to delete). `LeastIs` stands for the metric that
chooses an uplink. `Relay` is assumed finite.

The same module proves two properties of `Feedback`, for any width of the numbers,
of the window, of the batches and of the channel. Numbers come round, so a
property about packets has to be told by their numbers: `CloseBy` says that what is
outstanding was sent less than half a round ago (`NotHalfRound`, the assumption
that lets `dedup.rs` read a difference as a signed number), so that equal numbers
mean equal packets (`SameNumber`). `NumbersHold` and `BatchesFit` say that events,
pending entries and reports carry the numbers of their packets; `CameOnce` that what
was reported is no longer on its way. `RowsAreTrueHolds` is about any
peers, because `Arrived` speaks of numbers. For `NoneTakenForOldHolds` the invariant `WindowsHold`
says where a window stands (`StandsAt`): at the number of a packet of this round, and
what is on its way lies less than half a round from it and is not among the
numbers seen.

`FlowsProofs` is about the whole path of a packet: read, numbered, wrapped,
reordered, handed over. `RingFits` is what makes the ring right: occupied slots
answer for counters in a span of at most `RING`, so that each counter has a slot
of its own (`OwnSlots`) though slots do not know their counters, and `count`, `lo`,
`hi` and `oldest` tell the truth. `InsertIs`, `RemoveIs` and `TakeIs` show that each
operation keeps it; `RunIs`, `AllIs`, `SkipIs` and `ExpireIs` what a run, a flush, one
turn of the timer and the whole of `expire_into` hand over, in order, and leave.
`IInv` adds that sessions, packets that came and packets on their way belong to
the sender that numbered them (`SessionFits`, `Origin`, `FlightFits`) and that no
held packet is older than the timer allows (`Timely`). From it follow two invariants and
two action properties. `Exact` (the earliest arrival is that of a held packet)
fails once a number is used again, hence the exception in `GapsAreWaitedFor`.
`DataPathAssumption` says that a missing order record is none.

The folds are the reason why this could not be had from the library, whose
induction takes a predicate as a parameter. `SetInduction` is induction for a
*set* of naturals, proved from the well-foundedness of `<`; with it `FoldExists`
constructs what a fold computes for each prefix, and `AlongPlaces` carries a
set of good intermediate results along. Each use states its invariant as such
a set.

Before it was proved, each inductive invariant was an invariant of the run of
its module (with the sets TLC cannot enumerate replaced by their elements' conditions).

Only model-checked:

- Liveness (`DrainCompletes`, `FindEachOther`, `NoHalfOpen`, `RetiredHolesGo`,
  `MinimumRestored`, `OldestIsRotated`, `GrowTogether`, `Recover`,
  `PermitsFollowRelays`, `HolesReturn`, `AllAreAccounted`, `ComesToStay`,
  `RoutesComeBack`, `ClientIsRouted`): the prover does not reach fairness and ENABLED.

## Abstractions and what is not modelled

- `Drain`: a `DeleteLink` of an old peer is the same event as `Drain`; the command
  channel never overflows here (it does in `MultiLink`).
- `HoleLink`: keys are those of one session; sealing is a counter; STUN has
  answered; IPv4 and IPv6 candidates are not told apart.
- `MultiLink`: the channels to the application and to the manager are never full;
  when a drain asks, is confirmed and ends is in `Drain`.
- `HolePool`, `P2P`: ages and losses are classes, the sample size belongs to the
  class; the oldest comes first, with no ties; paths and relays are in `Relays`.
- `VpsServer`: direct holes only; a request is authentic; the listener and its
  bounded channel only lose or delay requests, which the model does anyway; a
  restarted client does not reuse numbers, since it draws the first from
  `0..1000000` (`vps/mod.rs:735`).
- `Listener`: a token is none of those still about; the socket and requests change
  nothing there.
- `P2P`: one trouble at a time: a restart together with a wait that ends too early is
  not covered. A restarted side begins again at its first number, where the code
  draws one at random; the model meets more of its old records than the code does.
- `Relays`: numbers, tokens and ports are taken anew only when they are free; an
  empty list is sent once; the moments of reminders are any moments. The token
  of an order whose hole is aborted while it waits (`relay.rs:196-203`) stays in
  `pending`; tasks are not aborted there in this module. A relay started again gives out
  its ports anew: `orphan` marks the sessions it forgot.
- `Reorder`: the percentile that chooses the wait is any value of the range, at the
  moments the code recalculates. Packets without a number touch no state.
- `Feedback`: clock offsets and the text of the rows are left out.
- `AddressService`: a save is one step and succeeds; subnet and server address do
  not change between runs. A pending phone that expires is dropped
  without `hub.remove_peer` (`service.rs` `housekeeping`); the module has paired peers.
- `Tunnel`: an `ip` command succeeds when its object exists; TUN, DNS and NAT of
  the script are not state.
- Not modelled: devices, header parsing, ciphers and masks, the control
  protocol's encryption, settings, status text, Android and the tray's windows,
  scripts and packaging: input, output, encoding and configuration.

## Plan

Done: all modules above; the proofs of `Drain`, `AddressService`, `VpsServer`,
`MultiLink`, `HoleLink`, `HolePool`, `P2P`, `Relays`, `Tunnel`, `Feedback`, `Pairing`
and `Flows`. Next:

1. A model of the back-pressure of the application's channel on `control_loop`.
2. Losses in `P2P`, which make its policy replace holes, and with them the most holes
   a side may hold.
