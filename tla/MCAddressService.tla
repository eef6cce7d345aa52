-------------------------- MODULE MCAddressService --------------------------
EXTENDS AddressService

CONSTANTS PeerA, PeerB

(* Two peers whose GUIDs share the first group, hence one name in the book. *)
MCPeer == {PeerA, PeerB}
MCName == {"ab"}
MCNameOf == [p \in MCPeer |-> "ab"]

(* One address for hosts besides the server's own, two for phones. *)
MCHostPool == 1 .. 2
MCPhonePool == 11 .. 12

(* The owner a promise is checked for: a phone behind one of the two. *)
MCWatched == {[peer |-> PeerA, client |-> 1]}
MCFairSpec == Spec /\ FairTo(MCWatched)

(* A watched owner in service whose key holds an address is routed to its  *)
(* present link again after every restart, removal and take-over, unless   *)
(* it goes out of service first or was overtaken by a removal (bridge.rs,  *)
(* ADDRESS_REFRESH: the server restores the route by the repeated request). *)
ClientIsRouted == RoutedAgain(MCWatched)
=============================================================================
