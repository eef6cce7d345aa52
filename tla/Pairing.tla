------------------------------ MODULE Pairing ------------------------------
(***************************************************************************)
(* The peers a process serves and the file that outlives it: the phones    *)
(* paired from the tray in hp-server (service.rs) and in hp-router         *)
(* (main.rs), and the clients of vps-server, which follow clients.txt.     *)
(*                                                                         *)
(* The three programs share the life of an entry and differ in three       *)
(* points.  hp-router pairs under a lock and keeps its phones by number;   *)
(* it writes phones.state while it holds the lock of the list.  hp-server  *)
(* copies the list under the lock, and writes peers.state after.           *)
(* vps-server does not pair: a task compares clients.txt with what it saw  *)
(* last and sends the difference to the service; a client it adds is       *)
(* registered at the port of the server (Listener).                        *)
(*                                                                         *)
(* Callers run on threads of their own: connections of the tray, the main  *)
(* loop with its housekeeping, the task that applies changes.              *)
(***************************************************************************)
EXTENDS Listener

CONSTANTS
    Programs,      \* which of the three to look at
    Tray,          \* connections of the control protocol
    Client,        \* GUIDs that may stand in clients.txt; those of phones are numbers
    NameOf,        \* [Client -> name]: the first group of the GUID
    Configured,    \* phones of the settings file
    MaxNumber,     \* highest number of a phone behind a router (u8::MAX)
    MaxPhones,     \* bound on the pairs of GUIDs ever made
    MaxEdits,      \* bound on changes of clients.txt
    MaxRestarts

ASSUME PairingAssumption ==
    /\ Programs \subseteq {"hp-server", "hp-router", "vps-server"}
    /\ Configured \in Nat /\ MaxNumber \in Nat /\ Configured <= MaxNumber
    /\ MaxPhones \in Nat /\ MaxEdits \in Nat /\ MaxRestarts \in Nat
    /\ DOMAIN NameOf = Client /\ IsFiniteSet(Client)
    /\ \A c \in Client : c \notin Int

VARIABLES
    program,
    entries,       \* Service::entries, Router::phones
    file,          \* peers.state, phones.state
    doing,         \* what each caller is in the middle of
    clients,       \* clients.txt
    known,         \* watch_clients: what it saw last
    changes,       \* the channel of PeerChange
    made,          \* pairs of GUIDs made so far
    edits, restarts,
    promised,      \* history: phones whose package was handed out and is valid
    overlapped,    \* history: two copies of the list were being written at once
    dismissed      \* history: the tray took out a client of the file

watch == <<clients, known, changes, edits>>
history == <<promised, overlapped, dismissed>>
pairingVars == <<program, entries, file, doing, watch, made, restarts, history, listening>>

Caller == Tray \cup {"main", "changes"}

\* Phones of the settings are negative, paired ones positive.
NoCall == [step |-> "idle"]
AtRest(c) == doing[c] = NoCall
Paused(c, call) == doing' = [doing EXCEPT ![c] = call]

Pairs == program # "vps-server"
Name(peer) == IF peer \in Client THEN NameOf[peer] ELSE peer

Entry(peer, number, origin) ==
    [peer |-> peer, number |-> number, origin |-> origin, live |-> FALSE, due |-> FALSE, token |-> 0]

Line(e) == [peer |-> e.peer, number |-> e.number]
Peers(list) == {list[i].peer : i \in DOMAIN list}

\* What save_paired writes.
Lines(list) == {Line(e) : e \in {d \in ToSet(list) : d.origin = "paired"}}

\* The phones of the settings, in every run of the program.
FromSettings ==
    [n \in 1 .. IF Pairs THEN Configured ELSE 0 |->
        Entry(-n, IF program = "hp-router" THEN n ELSE 0, "settings")]

PairingInit ==
    /\ program \in Programs
    /\ entries = FromSettings /\ file = {}
    /\ doing = [c \in Caller |-> NoCall]
    /\ clients = {} /\ known = {} /\ changes = <<>>
    /\ made = 0 /\ edits = 0 /\ restarts = 0
    /\ promised = {} /\ overlapped = FALSE /\ dismissed = FALSE
    /\ ListenerInit

-----------------------------------------------------------------------------
\* Entries.

\* The list without what stands at other places than these.
Filtered(list, places) ==
    LET upto[i \in 0 .. Len(list)] ==
            IF i = 0 THEN <<>>
            ELSE IF i \in places THEN Append(upto[i - 1], list[i]) ELSE upto[i - 1]
    IN  upto[Len(list)]

\* The router's map keeps one phone for a number, the service's list any.
Inserted(list, e) ==
    Append(IF program = "hp-router"
           THEN Filtered(list, {i \in DOMAIN list : list[i].number # e.number}) ELSE list, e)

Pending(list) == SelectInSeq(list, LAMBDA e : e.origin = "pending")

FreeNumbers == (1 .. MaxNumber) \ {entries[i].number : i \in DOMAIN entries}

\* create_pairing gives the pending phone the term of the new package.
Reused(i) == [entries EXCEPT ![i].due = FALSE]

\* Mutant: the router pairs without pairing_lock.
MayPairAtOnce == Pairs

\* pairing_lock of hp-router.
MayPair ==
    Pairs /\ (program = "hp-router" => \A c \in Tray : doing[c].step # "creating")

\* create_pairing with a phone pending already.
PairAgain(c) ==
    /\ AtRest(c) /\ MayPair /\ Pending(entries) # 0
    /\ entries' = Reused(Pending(entries))
    /\ promised' = promised \cup {entries[Pending(entries)].peer}
    /\ UNCHANGED <<program, file, doing, watch, made, restarts, overlapped, dismissed, listening>>

\* create_pairing with none: a new pair of GUIDs, in the router with the first
\* free number; the set of holes is started before the entry is made.
Pair(c) ==
    /\ AtRest(c) /\ MayPair /\ Pending(entries) = 0 /\ made < MaxPhones
    /\ \/ program = "hp-server" /\ Paused(c, [step |-> "creating", peer |-> made + 1, number |-> 0])
       \/ /\ program = "hp-router"
          /\ \E n \in FreeNumbers :
                /\ \A m \in FreeNumbers : n <= m
                /\ Paused(c, [step |-> "creating", peer |-> made + 1, number |-> n])
    /\ made' = made + 1
    /\ UNCHANGED <<program, entries, file, watch, restarts, history, listening>>

\* The holes are started: add, add_phone; the package goes to the tray.
Paired(c) ==
    /\ doing[c].step = "creating"
    /\ entries' = Inserted(entries, Entry(doing[c].peer, doing[c].number, "pending"))
    /\ Paused(c, NoCall)
    /\ promised' = promised \cup {doing[c].peer}
    /\ UNCHANGED <<program, file, watch, made, restarts, overlapped, dismissed, listening>>

\* The entry remove_peer finds by the short name; 0 for none.
Named(name) == SelectInSeq(entries, LAMBDA e : Name(e.peer) = name)

\* remove_peer, up to the save.
TakeOut(c, name) ==
    /\ Named(name) # 0 /\ entries[Named(name)].origin # "settings"
    /\ entries' = RemoveAt(entries, Named(name))
    /\ promised' = promised \ {entries[Named(name)].peer}
    /\ IF entries[Named(name)].origin = "file"
       THEN Leave(Registration(name, entries[Named(name)].token)) ELSE UNCHANGED listening
    /\ Paused(c, [step |-> "saving"])

\* The tray removes a phone or a client; the service does not refuse a client
\* of clients.txt, though its status says it cannot be removed.
RemovePeer(c) ==
    /\ AtRest(c)
    /\ \E i \in DOMAIN entries : TakeOut(c, Name(entries[i].peer))
    /\ dismissed' = (dismissed \/ program = "vps-server")
    /\ UNCHANGED <<program, file, watch, made, restarts, overlapped>>

-----------------------------------------------------------------------------
\* housekeeping, and what happens to a phone that waits.

Connected(i) == entries[i].origin = "pending" /\ entries[i].live
Expired(i) == entries[i].origin = "pending" /\ ~entries[i].live /\ entries[i].due

\* The list after it: phones that came are kept, those whose time is over go.
Kept ==
    LET kept == [i \in DOMAIN entries |->
                    IF Connected(i) THEN [entries[i] EXCEPT !.origin = "paired"] ELSE entries[i]]
    IN  Filtered(kept, {i \in DOMAIN kept : ~(kept[i].origin = "pending" /\ kept[i].due)})

\* Mutant: who came is not saved.
HousekeepingUnsaved ==
    /\ AtRest("main") /\ Kept # entries
    /\ entries' = Kept
    /\ UNCHANGED <<program, file, doing, watch, made, restarts, history, listening>>

Housekeeping ==
    /\ AtRest("main") /\ Kept # entries
    /\ entries' = Kept
    /\ Paused("main", IF \E i \in DOMAIN entries : Connected(i) THEN [step |-> "saving"] ELSE NoCall)
    /\ UNCHANGED <<program, file, watch, made, restarts, history, listening>>

\* live_count of the entry's link.
GoesLive(i) ==
    /\ entries[i].origin = "pending"
    /\ entries' = [entries EXCEPT ![i].live = ~@]
    /\ UNCHANGED <<program, file, doing, watch, made, restarts, history, listening>>

\* PAIRING_TTL passes.
TermEnds(i) ==
    /\ entries[i].origin = "pending" /\ ~entries[i].due
    /\ entries' = [entries EXCEPT ![i].due = TRUE]
    /\ promised' = promised \ {entries[i].peer}
    /\ UNCHANGED <<program, file, doing, watch, made, restarts, overlapped, dismissed, listening>>

-----------------------------------------------------------------------------
\* save_paired.

\* hp-router holds the list while it writes; vps-server has one thread.
SaveLocked(c) ==
    /\ doing[c].step = "saving" /\ program # "hp-server"
    /\ file' = Lines(entries)
    /\ Paused(c, NoCall)
    /\ UNCHANGED <<program, entries, watch, made, restarts, history, listening>>

\* hp-server copies the list and lets it go.
Copy(c) ==
    /\ doing[c].step = "saving" /\ program = "hp-server"
    /\ Paused(c, [step |-> "writing", text |-> Lines(entries)])
    /\ overlapped' = (overlapped \/ \E d \in Caller : doing[d].step = "writing")
    /\ UNCHANGED <<program, entries, file, watch, made, restarts, promised, dismissed, listening>>

Write(c) ==
    /\ doing[c].step = "writing"
    /\ file' = doing[c].text
    /\ Paused(c, NoCall)
    /\ UNCHANGED <<program, entries, watch, made, restarts, history, listening>>

-----------------------------------------------------------------------------
\* vps-server: clients.txt.

\* Somebody edits the file; of two GUIDs with one name the parser takes one.
Edit(list) ==
    /\ program = "vps-server" /\ edits < MaxEdits /\ list # clients
    /\ \A a, b \in list : NameOf[a] = NameOf[b] => a = b
    /\ clients' = list /\ edits' = edits + 1
    /\ UNCHANGED <<program, entries, file, doing, known, changes, made, restarts, history, listening>>

ChangesOf(op, peers) == [i \in 1 .. Cardinality(peers) |->
                            [op |-> op, peer |-> SetToSeq(peers)[i]]]

\* watch_clients: what is new is added, then what is gone is removed.
Poll ==
    /\ program = "vps-server" /\ clients # known
    /\ changes' = changes \o ChangesOf("add", clients \ known)
                          \o ChangesOf("remove", known \ clients)
    /\ known' = clients
    /\ UNCHANGED <<program, entries, file, doing, clients, edits, made, restarts, history, listening>>

\* The task of serve_with_changes.  Service::add registers the client first, and
\* may wait for that; its entry is made when its holes are started.
FreshToken ==
    LET used == TokensInUse \cup {entries[i].token : i \in DOMAIN entries}
    IN  CHOOSE n \in 1 .. Cardinality(used) + 1 : n \notin used

ApplyAdd ==
    /\ changes # <<>> /\ AtRest("changes") /\ Head(changes).op = "add"
    /\ changes' = Tail(changes)
    /\ Register(Registration(Name(Head(changes).peer), FreshToken))
    /\ Paused("changes", [step |-> "adding", peer |-> Head(changes).peer, token |-> FreshToken])
    /\ UNCHANGED <<program, entries, file, clients, known, edits, made, restarts, history>>

Added ==
    /\ doing["changes"].step = "adding"
    /\ LET e == Entry(doing["changes"].peer, 0, "file")
       IN  entries' = Inserted(entries, [e EXCEPT !.token = doing["changes"].token])
    /\ Paused("changes", NoCall)
    /\ UNCHANGED <<program, file, watch, made, restarts, history, listening>>

ApplyRemove ==
    /\ changes # <<>> /\ AtRest("changes") /\ Head(changes).op = "remove"
    /\ changes' = Tail(changes)
    /\ LET name == Name(Head(changes).peer)
       IN  \/ TakeOut("changes", name)
           \/ Named(name) = 0 /\ UNCHANGED <<entries, promised, doing, listening>>
    /\ UNCHANGED <<program, file, clients, known, edits, made, restarts, overlapped, dismissed>>

-----------------------------------------------------------------------------
\* The phones of the file as entries: a number that is taken is skipped.  Their
\* names differ, so their order is not told.
FromFile ==
    LET taken == {e.number : e \in ToSet(FromSettings)} \ {0}
        lines == SetToSeq({l \in file : l.number \notin taken})
    IN  [i \in DOMAIN lines |-> Entry(lines[i].peer, lines[i].number, "paired")]

\* The process stops at any moment and is started again: add_configured,
\* add_paired_from_file; vps-server has no way to meet paired phones.
Restart ==
    /\ restarts < MaxRestarts /\ restarts' = restarts + 1
    /\ entries' = FromSettings \o IF Pairs THEN FromFile ELSE <<>>
    /\ doing' = [c \in Caller |-> NoCall]
    /\ known' = {} /\ changes' = <<>>
    /\ promised' = {} /\ overlapped' = FALSE /\ dismissed' = FALSE
    /\ listener' = <<>> /\ commands' = <<>> /\ guarded' = {} /\ leaving' = {}
    /\ UNCHANGED <<program, file, clients, made, edits>>

\* The port of the server, by itself.
AtTheListener ==
    /\ HandleCommand \/ (program = "vps-server" /\ Inject) \/ \E r \in leaving : GuardDrops(r)
    /\ UNCHANGED <<program, entries, file, doing, watch, made, restarts, history>>

Saves(c) == SaveLocked(c) \/ Copy(c) \/ Write(c)

PairingNext ==
    \/ \E c \in Tray : PairAgain(c) \/ Pair(c) \/ Paired(c) \/ RemovePeer(c)
    \/ \E c \in Caller : Saves(c)
    \/ Housekeeping
    \/ \E i \in DOMAIN entries : GoesLive(i) \/ TermEnds(i)
    \/ \E list \in SUBSET Client : Edit(list)
    \/ Poll \/ ApplyAdd \/ Added \/ ApplyRemove
    \/ AtTheListener
    \/ Restart

\* The main loop ticks once a second; a call that began goes on.
Fairness == WF_pairingVars(Housekeeping) /\ \A c \in Caller : WF_pairingVars(Saves(c))

PairingSpec == PairingInit /\ [][PairingNext]_pairingVars
PairingFairSpec == PairingSpec /\ Fairness

-----------------------------------------------------------------------------
\* Properties.

Saving == \E c \in Caller : doing[c].step \in {"saving", "writing"}

\* The state of the list, of the callers and of the watcher.
PairingTypeOK ==
    /\ program \in Programs
    /\ \A i \in DOMAIN entries :
          /\ entries[i].origin \in {"settings", "paired", "pending", "file"}
          /\ entries[i].origin = "file" <=> entries[i].peer \in Client
    /\ \A c \in Caller : doing[c].step \in {"idle", "creating", "adding", "saving", "writing"}
    /\ Len(commands) <= COMMAND_QUEUE
    /\ known \subseteq Client /\ made \in 0 .. MaxPhones

\* The package in the user's hands leads to a running set of holes until its
\* term ends or the phone is removed: it is neither replaced by another phone
\* with its number, nor dropped with an older term (service.rs:174-175).
PackagesAreServed == promised \subseteq Peers(entries)

\* Between saves the file lists exactly the paired phones, so that a restart
\* brings back all of them and none that was removed; in hp-server as long as
\* no two savers held copies at once.
FileFollowsList == ~Saving /\ ~overlapped => file = Lines(entries)

\* Once the watcher has seen the file and its changes are applied, the service
\* serves exactly the clients of the file (vps-server/src/main.rs:6-8), also
\* when one client took the place of another with the same short name, and what
\* comes to the server's port under a client's name reaches the task of that client,
\* whenever those of earlier ones are dropped; unless the tray took one out.
Applied == clients = known /\ changes = <<>> /\ AtRest("changes")
Reached(e) == Registration(Name(e.peer), e.token) \in Entered \cap guarded
ServiceFollowsClients ==
    program = "vps-server" /\ Applied /\ ~dismissed =>
        /\ Peers(entries) = clients /\ Len(entries) = Cardinality(clients)
        /\ commands = <<>> => \A e \in ToSet(entries) : Reached(e)

\* A phone that came and stays becomes permanent (service.rs:7-8).
Waits(p) == \E i \in DOMAIN entries : entries[i].peer = p /\ Connected(i)
OnDisk(p) == \E l \in file : l.peer = p
Left(p) == \A i \in DOMAIN entries : entries[i].peer = p => ~entries[i].live
ComesToStay ==
    \A p \in 1 .. MaxPhones : Waits(p) ~> OnDisk(p) \/ Left(p) \/ overlapped
=============================================================================
