-------------------------------- MODULE Hub --------------------------------
(***************************************************************************)
(* The routing table of the server's bridge (hp-backend/tun/src/hub.rs):   *)
(* by_addr says where a packet for an address goes, by_owner which source  *)
(* address an owner may use.  The two maps change only together, under one *)
(* lock, so each operation of Hub is a function on the pair.               *)
(*                                                                         *)
(* An owner is a peer (by its GUID) and, for a phone behind a router, the  *)
(* phone's number.  A target remembers the very MultiLink it was made with *)
(* (an Arc), so a link is a peer and the number of its start.              *)
(***************************************************************************)
EXTENDS AddressBook

CONSTANT Peer   \* peers' GUIDs

ASSUME OptionAssumption == None \notin [link : [peer : Peer, start : Nat], client : Behind]

Link == [peer : Peer, start : Nat]
Owner == [peer : Peer, client : Behind]
Target == [link : Link, client : Behind]

OwnerOf(link, client) == [peer |-> link.peer, client |-> client]
TargetOwner(t) == OwnerOf(t.link, t.client)

Routes == [by_addr : [Address -> Target \cup {None}],
           by_owner : [Owner -> Address \cup {None}]]

NoRoutes == [by_addr |-> [a \in Address |-> None],
             by_owner |-> [o \in Owner |-> None]]

(* A mistaken early return: somebody holds the address.                    *)
AlreadyAssignedToAny(routes, a, owner) == routes.by_addr[a] # None

(* assign's early return: the owner already holds this very address. *)
AlreadyAssigned(routes, a, owner) ==
    routes.by_owner[owner] = a /\ routes.by_addr[a] # None

(* A mistaken assign that leaves the address with its previous owner too.  *)
OwnersAfterKeepingPrevious(routes, a, owner) ==
    [routes.by_owner EXCEPT ![owner] = a]

(* by_owner after an assign: the new owner holds the address, the previous *)
(* one, if it is another, holds nothing.                                   *)
OwnersAfter(routes, a, owner) ==
    [o \in Owner |->
        IF o = owner THEN a
        ELSE IF routes.by_addr[a] # None /\ o = TargetOwner(routes.by_addr[a]) THEN None
        ELSE routes.by_owner[o]]

(* by_addr after it: the owner's old address leads nowhere. *)
TargetsAfter(routes, a, link, client) ==
    [b \in Address |->
        IF b = a THEN [link |-> link, client |-> client]
        ELSE IF b = routes.by_owner[OwnerOf(link, client)] THEN None
        ELSE routes.by_addr[b]]

Assigned(routes, a, link, client) ==
    IF AlreadyAssigned(routes, a, OwnerOf(link, client))
    THEN routes
    ELSE [by_addr |-> TargetsAfter(routes, a, link, client),
          by_owner |-> OwnersAfter(routes, a, OwnerOf(link, client))]

(* A mistaken remove_peer that forgets the peer and not the phones behind it. *)
OwnersOfPeerAlone(peer) == {o \in Owner : o.peer = peer /\ o.client = None}

(* The owners Hub::remove_peer forgets, and the table without them. *)
OwnersOf(peer) == {o \in Owner : o.peer = peer}

WithoutPeer(routes, peer) ==
    [by_addr |-> [a \in Address |->
        IF \E o \in OwnersOf(peer) : routes.by_owner[o] = a THEN None ELSE routes.by_addr[a]],
     by_owner |-> [o \in Owner |->
        IF o \in OwnersOf(peer) THEN None ELSE routes.by_owner[o]]]

(* uplink: the target of a packet from the TUN. *)
Lookup(routes, destination) == routes.by_addr[destination]

(* downlink: may a packet of this owner have this source?                  *)
Allowed(routes, owner, source) == routes.by_owner[owner] = source

(* The two maps are each other's inverse. *)
Mutual(routes) ==
    /\ \A o \in Owner : routes.by_owner[o] # None =>
         /\ routes.by_addr[routes.by_owner[o]] # None
         /\ TargetOwner(routes.by_addr[routes.by_owner[o]]) = o
    /\ \A a \in Address : routes.by_addr[a] # None =>
         routes.by_owner[TargetOwner(routes.by_addr[a])] = a
=============================================================================
