-------------------------------- MODULE Flows --------------------------------
(***************************************************************************)
(* TCP flows from one TUN to another: the counters of the senders, the     *)
(* packets on their way and the resequencer of the receiver (Reorder).     *)
(*                                                                         *)
(* Upwards the receiver is the server: the router's bridge and the bridge  *)
(* of a phone behind it number their packets, and the router passes the    *)
(* phone's on.  Downwards it is that phone: the server's hub numbers the   *)
(* packets for its address.  Packets come in any order or not at all.  A   *)
(* numbering begins anew when a bridge is started again, when the hub      *)
(* assigns the address again, or when a phone gets the number of another.  *)
(*                                                                         *)
(* Packets without a number touch no state and are not followed.           *)
(***************************************************************************)
EXTENDS DataPath, Reorder

CONSTANTS
    client,           \* the phone's number
    bucket,           \* the bucket all flows fall into
    MaxRead           \* bound on the packets read from the TUNs

ASSUME FlowsAssumption ==
    client \in Client /\ bucket \in Bucket /\ Key = SessionKey /\ MaxRead \in Nat

VARIABLES
    way,              \* "up" or "down": which resequencer is followed
    next,             \* Sequencer::next of each sender
    numbering,        \* which numbering of the sender it is
    flight            \* packets that have been sent and have not come

flowVars == <<way, next, numbering, flight>>
allVars == <<vars, flowVars>>

Sender == {"router", "phone", "hub"}
Senders == IF way = "up" THEN {"router", "phone"} ELSE {"hub"}

FlowsInit ==
    /\ Init
    /\ way \in {"up", "down"}
    /\ next = [s \in Sender |-> [b \in Bucket |-> 0]]
    /\ numbering = [s \in Sender |-> 0]
    /\ flight = {}

\* Whose MultiLink a sender sends over: the hub sends to its client's router.
TargetClient(s) == IF s = "hub" THEN client ELSE None

\* uplink of the bridge or of the hub: a packet is read from the TUN, numbered
\* and sent.  n is its place among the packets read.
ReadTun(s, packet) ==
    /\ s \in Senders /\ packet.flow = bucket
    /\ Cardinality(arrived) + Cardinality(flight) < MaxRead
    /\ LET route == Route(next[s], packet)
           message == SentRouted(TargetClient(s), route, 0)
       IN  /\ route.kind = "ordered"
           /\ flight' = flight \cup {[sender |-> s, numbering |-> numbering[s],
                                      n |-> next[s][bucket], message |-> message]}
    /\ next' = [next EXCEPT ![s] = Advanced(@, packet)]
    /\ UNCHANGED <<vars, way, numbering>>

\* The bridge or the route of the sender is made anew.
Renumber(s) ==
    /\ s \in Senders /\ numbering = [r \in Sender |-> 0] /\ next[s][bucket] > 0
    /\ next' = [next EXCEPT ![s] = [b \in Bucket |-> 0]]
    /\ numbering' = [numbering EXCEPT ![s] = @ + 1]
    /\ UNCHANGED <<vars, way, flight>>

\* What the receiver gets of a packet that was sent, through the router if it
\* is a phone's.
AtReceiver(x) ==
    CASE x.sender = "router" -> Received(x.message)
      [] x.sender = "phone" -> Received(PhoneToVps(client, Received(x.message), 0))
      [] x.sender = "hub" -> Received(VpsToPhone(Received(x.message)))

\* A packet as the resequencer knows it, with its origin for the properties.
Packet(x, key, counter) ==
    [key |-> key, counter |-> counter, epoch |-> x.numbering, sender |-> x.sender, n |-> x.n]

\* deliver: a packet with an order goes through the resequencer, one without is
\* handed over at once.
Come(x) ==
    /\ x \in flight /\ flight' = flight \ {x}
    /\ LET packet == AtReceiver(x)
           plain == Packet(x, [client |-> packet.wrapped, flow |-> bucket], 0)
       IN  IF packet.order # None
           THEN Arrive(Packet(x, SessionOfPacket(packet), packet.order.seq))
           ELSE /\ arrived' = arrived \cup {plain} /\ delivered' = delivered \cup {plain}
                /\ out' = [Silent EXCEPT ![plain.key] = <<plain>>]
                /\ UNCHANGED <<now, sessions, wait, sinceRecalc, pruned>>
    /\ UNCHANGED <<way, next, numbering>>

FlowsNext ==
    \/ \E s \in Sender : Renumber(s) \/ \E packet \in TunPacket : ReadTun(s, packet)
    \/ \E x \in flight : Come(x)
    \/ (Expire \/ Tick) /\ UNCHANGED flowVars

FlowsSpec == FlowsInit /\ [][FlowsNext]_allVars

-----------------------------------------------------------------------------
\* Properties.

\* The sender whose packets the session is for.
OwnerOf(key) ==
    IF way = "down" THEN "hub" ELSE IF key.client = None THEN "router" ELSE "phone"

\* A session follows the counter of one sender: all it holds and expects was
\* numbered by that sender, whatever else comes over the same holes
\* (reorder.rs:146-147, "different kinds are not mixed").
SessionsAreOwn ==
    \A k \in DOMAIN sessions :
        LET s == OwnerOf(k)
        IN  /\ \A p \in HeldPackets(sessions[k]) : p.sender = s
            /\ numbering[s] = 0 => sessions[k].next <= next[s][k.flow]

\* What a packet overtakes when it is the i-th handed over of the session: the
\* ones handed over after it, the ones held, and the ones still on their way.
LeftBehind(k, i) ==
    {out'[k][j] : j \in i + 1 .. Len(out'[k])}
        \cup (IF k \in DOMAIN sessions' THEN HeldPackets(sessions'[k]) ELSE {})
        \cup {Packet(x, k, x.n) : x \in flight'}

ReadBefore(q, p) == q.sender = p.sender /\ q.epoch = p.epoch /\ q.n < p.n

\* A packet overtakes one that was read before it from the same TUN only if
\* that one was waited for in vain: the step is the timer's, the receiver had
\* given it up before, began after it, or one that is still on its way is more
\* than MAX_GAP behind.  What has come and is handed over at once is in order.
InReadOrder ==
    [][arrived' # arrived =>
          \A k \in Key \cap DOMAIN sessions : \A i \in DOMAIN out'[k] : \A q \in LeftBehind(k, i) :
              ReadBefore(q, out'[k][i]) =>
                  \/ q.n < sessions[k].next
                  \/ /\ q \notin arrived'
                     /\ \E y \in arrived' \ arrived :
                           \/ y.counter - sessions[k].next > MAX_GAP
                           \/ NumberingRestarted(sessions[k], y)
                  \/ \E y \in arrived' : y.key = k /\ y.counter = q.n /\ y.epoch # q.epoch]_allVars
=============================================================================
