------------------------------ MODULE DataPath ------------------------------
(***************************************************************************)
(* What happens to an IP packet between two TUNs: the sender looks at its  *)
(* header, gives it a number if it is TCP (bridge.rs, Sequencer) and sends *)
(* it (multilink.rs, MultiLink) in the fields of a Lite message (wire.rs); *)
(* the receiver parses it (punch.rs) and makes an Incoming of it           *)
(* (control_loop).  A router on the way wraps the packets of its phones    *)
(* with their number, and takes it off those to them (hp-router main.rs).  *)
(*                                                                         *)
(* All of this is without state but for the counters: operators here, the  *)
(* counters and the order of arrivals in Flows.  Payloads do not matter;   *)
(* bytes of a message are abstracted to the fields that are written.       *)
(***************************************************************************)
EXTENDS Integers

CONSTANTS
    Bucket,   \* 0 .. FLOW_BUCKETS - 1
    Client,   \* numbers of phones behind a router (client_id)
    None      \* Option::None

ASSUME DataPathAssumption ==
    /\ Bucket \subseteq Nat /\ Client \subseteq 0 .. 255
    /\ None \notin Nat /\ None \notin [flow : Bucket, seq : Nat]

\* A packet read from a TUN: by its header it is TCP, another protocol or no IP;
\* flow is the hash of its connection modulo FLOW_BUCKETS.
TunPacket == [header : {"tcp", "other", "junk"}, flow : Bucket, long : BOOLEAN]

\* packet::inspect and Info::flow_hash.
Inspected(packet) ==
    IF packet.header = "junk" THEN None
    ELSE [tcp |-> packet.header = "tcp", flow |-> packet.flow]

\* Sequencer::route_inspected, the next numbers of the flows being next.
Route(next, packet) ==
    LET info == Inspected(packet)
    IN  CASE packet.long \/ info = None -> [kind |-> "drop"]
          [] ~packet.long /\ info # None /\ info.tcp ->
               [kind |-> "ordered", flow |-> info.flow, seq |-> next[info.flow]]
          [] OTHER -> [kind |-> "plain"]

\* The counters after it.
Advanced(next, packet) ==
    IF Route(next, packet).kind = "ordered" THEN [next EXCEPT ![packet.flow] = @ + 1] ELSE next

-----------------------------------------------------------------------------
\* Messages: Lite with Data, Ordered or WrappedData; seq of a wrapped packet
\* without a flow is the sender's own counter for the client.

Data == [kind |-> "data"]
Ordered(flow, seq) == [kind |-> "ordered", flow |-> flow, seq |-> seq]
Wrapped(client, flow, seq) ==
    [kind |-> "wrapped", client |-> client, flow |-> flow, seq |-> seq]

\* Mutant: the router numbers the packets of its clients anew.
SentToClientAnew(client, order, wrap_seq) ==
    Wrapped(client, IF order = None THEN None ELSE order.flow, wrap_seq)

\* send_client: the order the packet came with is kept.
SentToClient(client, order, wrap_seq) ==
    IF order = None THEN Wrapped(client, None, wrap_seq)
    ELSE Wrapped(client, order.flow, order.seq)

\* send_routed of a packet that is not dropped.
SentRouted(client, route, wrap_seq) ==
    CASE route.kind = "ordered" /\ client = None -> Ordered(route.flow, route.seq)
      [] route.kind = "ordered" /\ client # None ->
           SentToClient(client, [flow |-> route.flow, seq |-> route.seq], wrap_seq)
      [] route.kind = "plain" /\ client = None -> Data
      [] OTHER -> SentToClient(client, None, wrap_seq)

\* Fields that are written: a zero is left out, unless the field is optional,
\* which is written whenever it is set.
Fields(implicit, optional) ==
    [f \in {f \in DOMAIN implicit : implicit[f] # 0}
               \cup {f \in DOMAIN optional : optional[f] # None} |->
        IF f \in DOMAIN implicit THEN implicit[f] ELSE optional[f]]

\* encode_data, encode_ordered, encode_wrapped.
Encoded(m) ==
    CASE m.kind = "data" -> <<>>
      [] m.kind = "ordered" -> Fields([flow |-> m.flow, seq |-> m.seq], <<>>)
      [] m.kind = "wrapped" ->
           Fields([client |-> m.client, seq |-> m.seq], [flow |-> m.flow])

\* A field that was read, or its default.
Field(fields, f, default) == IF f \in DOMAIN fields THEN fields[f] ELSE default

\* wire::parse, and prost for what it leaves.
Parsed(kind, fields) ==
    CASE kind = "data" -> Data
      [] kind = "ordered" -> Ordered(Field(fields, "flow", 0), Field(fields, "seq", 0))
      [] kind = "wrapped" -> Wrapped(Field(fields, "client", 0), Field(fields, "flow", None),
                                     Field(fields, "seq", 0))

\* The message as the other end reads it.
Carried(m) == Parsed(m.kind, Encoded(m))

\* control_loop: the Incoming of a PeerData, PeerOrdered or PeerWrapped.
Incoming(m) ==
    CASE m.kind = "data" -> [wrapped |-> None, order |-> None]
      [] m.kind = "ordered" -> [wrapped |-> None, order |-> [flow |-> m.flow, seq |-> m.seq]]
      [] m.kind = "wrapped" ->
           [wrapped |-> m.client,
            order |-> IF m.flow = None THEN None ELSE [flow |-> m.flow, seq |-> m.seq]]

Received(m) == Incoming(Carried(m))

\* push_into: the session of a packet that has an order.
SessionKey == [client : Client \cup {None}, flow : Bucket]
SessionOfPacket(packet) == [client |-> packet.wrapped, flow |-> packet.order.flow]

-----------------------------------------------------------------------------
\* The router, which keeps no packet (reorder_wait is zero for phones, and its
\* link to the server does not order wrapped packets).

\* Mutant: the phone's packet goes on as the router's own.
PhoneToVpsUnwrapped(client, packet, wrap_seq) ==
    IF packet.order = None THEN Data ELSE Ordered(packet.order.flow, packet.order.seq)

\* phone_to_vps: a packet of a phone that is not itself wrapped.
PhoneToVps(client, packet, wrap_seq) == SentToClient(client, packet.order, wrap_seq)

\* vps_to_phones: a wrapped packet that downlink passed on.
VpsToPhone(packet) ==
    IF packet.order = None THEN Data ELSE Ordered(packet.order.flow, packet.order.seq)
=============================================================================
