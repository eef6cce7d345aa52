--------------------------- MODULE AddressService ---------------------------
(***************************************************************************)
(* The server's service (hp-server/src/service.rs) as far as addresses go: *)
(* one serve_addresses task per running peer asks the book for an address  *)
(* and then writes it into the hub, while peers are added and removed by   *)
(* other tasks and the process may be restarted at any moment.             *)
(*                                                                         *)
(* The book and the hub have a lock each and nothing holds both, so on a   *)
(* multi-threaded runtime (hp-server) a removal runs between the two halves*)
(* of a request.  On a single-threaded one (vps-server by default) neither *)
(* a request nor a removal awaits between its steps: Undisturbed keeps the *)
(* others away until it is over.                                           *)
(***************************************************************************)
EXTENDS Hub, FiniteSets

CONSTANTS
    NameOf,       \* [Peer -> Name]; GUIDs with the same first group share one
    MultiThread,  \* the tokio runtime has several threads
    MaxStarts     \* how many links are ever started

ASSUME ServiceAssumption ==
    /\ NameOf \in [Peer -> Name]
    /\ MultiThread \in BOOLEAN

VARIABLES
    entries,   \* links in service: Service::entries, in the order they were started
    tasks,     \* links whose serve_addresses task has not been aborted
    serving,   \* requests between get_or_assign and hub.assign
    removing,  \* entries taken out: hub.remove_peer still ahead, or only the drop
    book,      \* AddressBook::assigned
    file,      \* the book as the disk has it
    routes,    \* Hub::routes
    starts,    \* links started so far
    told,      \* history: the addresses that keys have been answered with
    overtaken  \* history: requests of a link that the hub forgot before hub.assign

vars == <<entries, tasks, serving, removing, book, file, routes, starts, told, overtaken>>

(* client_key of a client of a link. *)
KeyOf(peer, client) == [name |-> NameOf[peer], client |-> client]

Request == [link : Link, client : Behind, address : Address]
Removal == [link : Link, forgotten : BOOLEAN]

Init ==
    /\ entries = {} /\ tasks = {} /\ serving = {} /\ removing = {}
    /\ book = EmptyBook
    /\ file = EmptyBook
    /\ routes = NoRoutes
    /\ starts = 0
    /\ told = {}
    /\ overtaken = {}

(* On one thread nothing runs while a request or a removal is half done. *)
Undisturbed == MultiThread \/ (serving = {} /\ removing = {})

Running == {l.peer : l \in entries} \cup {r.link.peer : r \in removing}

(* add: a peer that is not running gets a new set of holes and its task. *)
Add(peer) ==
    /\ Undisturbed
    /\ peer \notin Running
    /\ starts < MaxStarts
    /\ starts' = starts + 1
    /\ entries' = entries \cup {[peer |-> peer, start |-> starts]}
    /\ tasks' = tasks \cup {[peer |-> peer, start |-> starts]}
    /\ UNCHANGED <<serving, removing, book, file, routes, told, overtaken>>

(* The hub has forgotten the peer of a link whose task still lives; what   *)
(* requests of a link are between the book and the hub.                    *)
IsForgotten(l) == [link |-> l, forgotten |-> TRUE] \in removing
InFlight(l) == {[link |-> l, client |-> r.client] : r \in {q \in serving : q.link = l}}

(* A book that never reaches the disk. *)
SavedNever(new) == file

(* The file after save. *)
Saved(new) == new

(* The first half of serve_addresses: the address from the book, saved     *)
(* before the book's lock is given up.  With no address left the request   *)
(* is only logged.                                                         *)
Grant(l, client, kind, a) ==
    /\ Undisturbed
    /\ l \in tasks
    /\ \A r \in serving : r.link # l
    /\ IsGiven(book, KeyOf(l.peer, client), kind, a)
    /\ book' = WithGiven(book, KeyOf(l.peer, client), a)
    /\ file' = IF book' = book THEN file ELSE Saved(book')
    /\ serving' = serving \cup {[link |-> l, client |-> client, address |-> a]}
    /\ overtaken' = IF IsForgotten(l) THEN overtaken \cup {[link |-> l, client |-> client]}
                                     ELSE overtaken
    /\ UNCHANGED <<entries, tasks, removing, routes, starts, told>>

(* The second half: the hub's table, then the answer.  An aborted task     *)
(* stops at its next await, so this half is done all the same.             *)
Assign(r) ==
    /\ r \in serving
    /\ serving' = serving \ {r}
    /\ routes' = Assigned(routes, r.address, r.link, r.client)
    /\ told' = told \cup {<<KeyOf(r.link.peer, r.client), r.address>>}
    /\ UNCHANGED <<entries, tasks, removing, book, file, starts, overtaken>>

(* remove_peer, three steps: the oldest entry with the name leaves the     *)
(* list; the hub forgets its peer; the entry is dropped, which aborts its  *)
(* task.                                                                   *)
TakeOut(l) ==
    /\ Undisturbed
    /\ l \in entries
    /\ \A m \in entries : NameOf[m.peer] = NameOf[l.peer] => l.start <= m.start
    /\ entries' = entries \ {l}
    /\ removing' = removing \cup {[link |-> l, forgotten |-> FALSE]}
    /\ UNCHANGED <<tasks, serving, book, file, routes, starts, told, overtaken>>

Forget(r) ==
    /\ r \in removing
    /\ ~r.forgotten
    /\ removing' = (removing \ {r}) \cup {[r EXCEPT !.forgotten = TRUE]}
    /\ routes' = WithoutPeer(routes, r.link.peer)
    /\ overtaken' = overtaken \cup InFlight(r.link)
    /\ UNCHANGED <<entries, tasks, serving, book, file, starts, told>>

Dropped(r) ==
    /\ r \in removing
    /\ r.forgotten
    /\ removing' = removing \ {r}
    /\ tasks' = tasks \ {r.link}
    /\ UNCHANGED <<entries, serving, book, file, routes, starts, told, overtaken>>

(* The process stops, at any moment but inside save, and is started again: *)
(* only the file is left.                                                  *)
Restart ==
    /\ book' = file
    /\ entries' = {} /\ tasks' = {} /\ serving' = {} /\ removing' = {}
    /\ routes' = NoRoutes
    /\ overtaken' = {}
    /\ UNCHANGED <<file, starts, told>>

Next ==
    \/ \E peer \in Peer : Add(peer)
    \/ \E l \in tasks, client \in Behind, kind \in {"host", "phone"}, a \in Pools :
         Grant(l, client, kind, a)
    \/ \E r \in serving : Assign(r)
    \/ \E l \in entries : TakeOut(l)
    \/ \E r \in removing : Forget(r) \/ Dropped(r)
    \/ Restart

Spec == Init /\ [][Next]_vars

(* A running task takes the next request of each of its clients in time    *)
(* (clients ask again every ADDRESS_RETRY until they have an address and   *)
(* every ADDRESS_REFRESH after that, bridge.rs; other tasks run in         *)
(* between, hence strong fairness), and a call that has begun goes on.     *)
ServesRequests(peer, client) ==
    \E l \in tasks, kind \in {"host", "phone"}, a \in Pools :
        l.peer = peer /\ Grant(l, client, kind, a)

FinishesRequest(peer) == \E r \in serving : r.link.peer = peer /\ Assign(r)

(* The same for a set of owners: what one owner is promised needs no       *)
(* fairness towards the others.                                            *)
FairTo(owners) ==
    /\ \A o \in owners : SF_vars(ServesRequests(o.peer, o.client))
    /\ \A peer \in Peer : WF_vars(FinishesRequest(peer))
    /\ WF_vars(\E r \in removing : Forget(r) \/ Dropped(r))
-----------------------------------------------------------------------------
(* Every variable holds values of its kind; in particular no key and no    *)
(* owner ever holds the server's own address.                              *)
TypeOK ==
    /\ entries \subseteq Link
    /\ tasks \subseteq Link
    /\ serving \subseteq Request
    /\ removing \subseteq Removal
    /\ book \in Book
    /\ file \in Book
    /\ routes \in Routes
    /\ starts \in Nat
    /\ told \subseteq Key \X Address
    /\ overtaken \subseteq Target

(* The two maps of the hub agree whatever owners take over each other's    *)
(* addresses: a packet for an address goes to exactly the owner that may   *)
(* send from it (hub.rs: uplink and downlink read different maps).         *)
RoutesAgree ==
    \A a \in Address, o \in Owner :
        Allowed(routes, o, a) <=>
            Lookup(routes, a) # None /\ TargetOwner(Lookup(routes, a)) = o

(* No two clients share an address, and after a restart none will: the     *)
(* book on disk never gives one address to two keys either.                *)
AddressesDistinct ==
    \A j, k \in Key :
        /\ j # k /\ book[j] # None => book[j] # book[k]
        /\ j # k /\ file[j] # None => file[j] # file[k]

(* An owner routed in the hub holds the address the book gave its key,     *)
(* even if the request and the entry are long overtaken by others.         *)
RoutesFollowTheBook ==
    \A o \in Owner : routes.by_owner[o] # None =>
        book[KeyOf(o.peer, o.client)] = routes.by_owner[o]

(* An address a client was once told stays its key's address across every  *)
(* reconnection and restart ("to survive a restart of the server",         *)
(* addresses.rs:7-8): it is on disk before the client hears of it.         *)
AddressesStay == \A t \in told : book[t[1]] = t[2] /\ file[t[1]] = t[2]

(* A route leads to a link in service, or to one whose removal is still on *)
(* its way, or it was made by a request that the removal overtook between  *)
(* the book and the hub: whatever else a peer had, for itself and for the  *)
(* phones behind it, is gone with it (hub.rs, Hub::remove_peer).           *)
RoutesLeadToEntries ==
    \A a \in Address : routes.by_addr[a] # None =>
        \/ routes.by_addr[a].link \in entries \cup {r.link : r \in removing}
        \/ routes.by_addr[a] \in overtaken

(* What the comment of Hub::remove_peer says of it (hub.rs:114): the       *)
(* addresses of a peer removed lead nowhere any more.                      *)
RemovedAreForgotten ==
    \A a \in Address : routes.by_addr[a] # None =>
        routes.by_addr[a].link \in entries \cup {r.link : r \in removing}

(* A client whose key holds an address gets a route to its present link,   *)
(* also after a restart or after its peer was removed and added again,     *)
(* unless the peer goes out of service first, or a request of this very    *)
(* client was overtaken by a removal: its late assign may name the old     *)
(* link, and assign's early return then keeps it.                          *)
RoutedAgain(owners) ==
    \A o \in owners :
        ((\E l \in entries : l.peer = o.peer) /\ book[KeyOf(o.peer, o.client)] # None)
            ~> (\/ \A l \in entries : l.peer # o.peer
                \/ \E l \in entries, a \in Address :
                     l.peer = o.peer /\ routes.by_addr[a] = [link |-> l, client |-> o.client]
                \/ \E t \in overtaken : TargetOwner(t) = o)
=============================================================================
