---------------------------- MODULE TunnelProofs ----------------------------
(***************************************************************************)
(* Proofs about the routes around the tunnel, for any uplinks, any relays  *)
(* and any number of changes of the system; and, in the second part, about *)
(* the numbers of the packets that come down through it (Feedback), for    *)
(* any round of numbers, window, batch and channel.                        *)
(***************************************************************************)
EXTENDS Tunnel, Feedback, FiniteSetTheorems, SequenceTheorems, WellFoundedInduction, TLAPS

Commands ==
    [op : {"host"}, to : Host] \cup [op : {"half"}, to : Half] \cup [op : {"undefault"}, to : {"tun"}]

Typed ==
    /\ program \in Programs
    /\ pc \in Stage \cup {"sync"} /\ then \in Stage /\ todo \subseteq Commands
    /\ pc = "sync" => then \in {"asking", "raising", "hooking", "loop", "adding"}
    /\ uplink \in Uplink \cup {0} /\ bypass \in Seq(Host)
    /\ tunnel_up \in BOOLEAN /\ tun \in BOOLEAN
    /\ granted \subseteq Relay /\ adding \in Seq(Relay)
    /\ via \in [Host -> alive \cup {0}] /\ halves \subseteq Half /\ byhand \in BOOLEAN
    /\ (halves # {} \/ byhand) => tun
    /\ defaults \subseteq alive /\ alive \subseteq Uplink
    /\ hook \in {"none", "up", "down"} /\ last \in {"none", "signal", "error", "fault", "kill"}
    /\ torn \in BOOLEAN

(* Where the process keeps no routes into the TUN, and sets none.          *)
Lowered ==
    \/ pc \in {"off", "finding", "asking", "creating", "raising", "lowering", "unhooking", "leaving"}
    \/ pc = "sync" /\ then \in {"asking", "raising"}

(* Half of the addresses goes into the TUN only while the tunnel is to be   *)
(* up, or is about to be taken down.                                       *)
HalvesFit ==
    /\ Lowered => ~tunnel_up
    /\ halves # {} => tunnel_up \/ pc = "lowering"

(* What a sync still has to do is about hosts it knows.                    *)
TodoFits ==
    /\ todo # {} => pc = "sync"
    /\ \A c \in todo : c.op = "host" => c.to \in ToSet(bypass)
    /\ \A c \in todo : c.op = "half" => tunnel_up

(* The routes are set when there is an uplink for them; with it there is    *)
(* the server's address to go around, and an uplink that is lost has torn   *)
(* the table.                                                              *)
UplinkFits ==
    /\ uplink = 0 => \/ pc \in {"off", "finding"}
                     \/ program = "vps-client" /\ pc \in {"asking", "creating"}
    /\ uplink = 0 => ToSet(bypass) = {}
    /\ uplink # 0 => "vps" \in ToSet(bypass) /\ (~torn => uplink \in alive)

(* A host without its route is on the list of the sync.                    *)
Around ==
    ~torn => \A h \in ToSet(bypass) : via[h] = uplink \/ Command("host", h) \in todo

ServerAround ==
    halves # {} /\ ~torn /\ "vps" \in ToSet(bypass) => via["vps"] = uplink

(* A run that has to take the tunnel down ends behind the script.           *)
HookFits ==
    /\ pc = "off" /\ (last = "signal" \/ (last = "fault" /\ program = "hp-router")) => hook = "down"
    /\ pc = "leaving" => hook = "down"

(* From its creation on the TUN is there until the process vanishes.        *)
TunFits ==
    \/ tun \/ pc \in {"off", "asking", "creating"}
    \/ pc = "finding" /\ program = "hp-router"
    \/ pc = "sync" /\ then = "asking" /\ program = "hp-router"

IInv == Typed /\ HalvesFit /\ TodoFits /\ UplinkFits /\ Around /\ ServerAround /\ HookFits /\ TunFits

-----------------------------------------------------------------------------
(* The operators the actions are built from.                               *)

LEMMA LeastIs ==
    ASSUME NEW s \in SUBSET Nat, s # {}
    PROVE  \E u \in s : \A v \in s : u <= v
<1> DEFINE Less == OpToRel(<, Nat)
<1>1. IsWellFoundedOn(Less, Nat)
  BY NatLessThanWellFounded
<1>2. PICK u \in s : \A v \in s : <<v, u>> \notin Less
  <2> HIDE DEF Less
  <2> QED
    BY <1>1, WFMin, Zenon
<1>3. \A v \in s : ~(v < u)
  BY <1>2 DEF OpToRel
<1> QED
  BY <1>3

LEMMA CurrentIs ==
    ASSUME Typed, Current # 0
    PROVE  Current \in defaults
<1>1. defaults \subseteq Nat
  BY TunnelAssumption DEF Typed
<1>2. defaults # {}
  BY DEF Current, Best
<1>3. \E u \in defaults : \A v \in defaults : u <= v
  BY <1>1, <1>2, LeastIs
<1> QED
  BY <1>2, <1>3 DEF Current, Best

LEMMA ToSetIs ==
    ASSUME NEW s, NEW q \in Seq(s)
    PROVE  /\ ToSet(q) \subseteq s
           /\ \A h \in s : ToSet(Append(q, h)) = ToSet(q) \cup {h}
<1>1. ToSet(q) \subseteq s
  BY DEF ToSet
<1>2. ASSUME NEW h \in s
      PROVE  ToSet(Append(q, h)) = ToSet(q) \cup {h}
  <2>1. /\ Append(q, h) \in Seq(s) /\ Len(Append(q, h)) = Len(q) + 1
        /\ \A i \in 1 .. Len(q) : Append(q, h)[i] = q[i]
        /\ Append(q, h)[Len(q) + 1] = h /\ Len(q) \in Nat
    OBVIOUS
  <2>2. ToSet(q) = {q[i] : i \in 1 .. Len(q)}
    BY DEF ToSet
  <2>3. ToSet(Append(q, h)) = {Append(q, h)[i] : i \in 1 .. Len(q) + 1}
    BY <2>1 DEF ToSet
  <2>4. 1 .. Len(q) + 1 = (1 .. Len(q)) \cup {Len(q) + 1}
    BY <2>1
  <2> QED
    BY <2>1, <2>2, <2>3, <2>4
<1> QED
  BY <1>1, <1>2

LEMMA SetToSeqIs ==
    ASSUME NEW s \in SUBSET Relay
    PROVE  SetToSeq(s) \in Seq(Relay)
<1>1. IsFiniteSet(s)
  BY TunnelAssumption, FS_Subset
<1>2. PICK n \in Nat : Cardinality(s) = n /\ ExistsBijection(1 .. n, s)
  BY <1>1, FS_CardinalityType
<1>3. PICK f : f \in Bijection(1 .. n, s)
  BY <1>2 DEF ExistsBijection
<1>4. f \in [1 .. n -> s] /\ IsInjective(f)
  BY <1>3 DEF Bijection, Injection, Surjection, IsInjective
<1>5. \E g \in [1 .. Cardinality(s) -> s] : IsInjective(g)
  BY <1>2, <1>4
<1>6. SetToSeq(s) \in [1 .. Cardinality(s) -> s]
  BY <1>5 DEF SetToSeq
<1> QED
  BY <1>2, <1>6

LEMMA MissingIs ==
    ASSUME Typed, NEW hosts \in Seq(Host), NEW up, NEW raised \in BOOLEAN
    PROVE  /\ Missing(hosts, up, raised) \subseteq Commands
           /\ \A c \in Missing(hosts, up, raised) : c.op = "host" => c.to \in ToSet(hosts)
           /\ \A c \in Missing(hosts, up, raised) : c.op = "half" => raised
           /\ \A h \in ToSet(hosts) :
                 via[h] = up \/ Command("host", h) \in Missing(hosts, up, raised)
<1>1. ToSet(hosts) \subseteq Host
  BY ToSetIs
<1>2. ASSUME NEW c \in Missing(hosts, up, raised)
      PROVE  c \in Commands /\ (c.op = "host" => c.to \in ToSet(hosts)) /\ (c.op = "half" => raised)
  <2>1. CASE \E h \in ToSet(hosts) : c = Command("host", h)
    BY <1>1, <2>1 DEF Command, Commands
  <2>2. CASE raised /\ \E x \in Half : c = Command("half", x)
    BY <2>2 DEF Command, Commands
  <2>3. CASE raised /\ c = Command("undefault", "tun")
    BY <2>3 DEF Command, Commands
  <2> QED
    BY <2>1, <2>2, <2>3 DEF Missing, MissingHosts
<1>3. \A h \in ToSet(hosts) :
          via[h] = up \/ Command("host", h) \in Missing(hosts, up, raised)
  BY DEF Missing, MissingHosts
<1> QED
  BY <1>2, <1>3

(* Routes::ensure lists the hosts before everything else: when another      *)
(* command is next, no host waits any more.                                *)
LEMMA HostsFirst ==
    ASSUME IInv, NEW c \in todo, Foremost(c), c.op # "host", NEW h \in ToSet(bypass)
    PROVE  Command("host", h) \notin todo
<1> SUFFICES ASSUME Command("host", h) \in todo
             PROVE  FALSE
  OBVIOUS
<1> DEFINE d == Command("host", h)
<1>1. d.op = "host" /\ d.to = h
  BY DEF Command
<1>2. \E i \in DOMAIN bypass : bypass[i] = h
  BY DEF IInv, Typed, ToSet
<1>3. Place(d) \in 1 .. Len(bypass)
  <2>1. Place(d) = CHOOSE i \in DOMAIN bypass : bypass[i] = d.to
    BY <1>1 DEF Place
  <2>2. Place(d) \in DOMAIN bypass
    BY <1>1, <1>2, <2>1
  <2> QED
    BY <2>2 DEF IInv, Typed
<1>4. Len(bypass) \in Nat
  BY DEF IInv, Typed
<1>5. Place(c) \in Nat /\ Place(c) > Len(bypass)
  BY <1>4 DEF Place
<1>6. Place(c) <= Place(d)
  BY DEF Foremost
<1> QED
  BY <1>3, <1>4, <1>5, <1>6

-----------------------------------------------------------------------------
(* Routes::ensure, and the end of a run.                                   *)

LEMMA EnsureIs ==
    ASSUME IInv, NEW hosts \in Seq(Host), NEW up \in Uplink, NEW raised \in BOOLEAN,
           NEW next \in {"asking", "raising", "hooking", "loop", "adding"},
           Ensure(hosts, up, raised, next), UNCHANGED <<program, table, hook, last, torn, alive, tun>>,
           granted' \subseteq Relay, adding' \in Seq(Relay), defaults' \subseteq alive,
           ~raised => halves = {}, raised => next \notin {"asking", "raising"},
           "vps" \in ToSet(hosts), ~torn => up \in alive,
           halves # {} => "vps" \in ToSet(bypass) /\ up = uplink,
           tun \/ (next = "asking" /\ program = "hp-router")
    PROVE  IInv'
<1> DEFINE todo2 == Missing(hosts, up, raised)
<1>0. pc' = "sync" /\ then' = next /\ todo' = todo2 /\ bypass' = hosts /\ uplink' = up
         /\ tunnel_up' = raised /\ program' = program /\ via' = via /\ halves' = halves
         /\ byhand' = byhand /\ hook' = hook /\ last' = last /\ torn' = torn
         /\ alive' = alive /\ tun' = tun
  BY DEF Ensure, table
<1>1. /\ todo2 \subseteq Commands
      /\ \A c \in todo2 : c.op = "host" => c.to \in ToSet(hosts)
      /\ \A c \in todo2 : c.op = "half" => raised
      /\ \A h \in ToSet(hosts) : via[h] = up \/ Command("host", h) \in todo2
  BY MissingIs DEF IInv
<1> HIDE DEF todo2
<1>2. Typed'
  BY <1>0, <1>1 DEF IInv, Typed, Stage
<1>3. HalvesFit'
  BY <1>0 DEF IInv, HalvesFit, Lowered
<1>4. TodoFits'
  BY <1>0, <1>1 DEF TodoFits
<1>5. UplinkFits'
  BY <1>0, TunnelAssumption DEF UplinkFits
<1>6. Around'
  BY <1>0, <1>1 DEF Around, Command
<1>7. ServerAround'
  BY <1>0 DEF IInv, ServerAround
<1>8. HookFits' /\ TunFits'
  BY <1>0 DEF HookFits, TunFits
<1> QED
  BY <1>2, <1>3, <1>4, <1>5, <1>6, <1>7, <1>8 DEF IInv

LEMMA VanishIs ==
    ASSUME IInv, Vanish, hook' = hook, last' \in {"none", "signal", "error", "fault", "kill"},
           hook = "down" \/ (last' # "signal" /\ ~(last' = "fault" /\ program = "hp-router"))
    PROVE  IInv'
<1>0. ToSet(<<>>) = {} /\ <<>> \in Seq(Host) /\ <<>> \in Seq(Relay)
  BY DEF ToSet
<1>1. Typed'
  BY <1>0 DEF IInv, Typed, Vanish, system, Stage
<1>2. HalvesFit' /\ TodoFits'
  BY DEF HalvesFit, TodoFits, Vanish
<1>3. UplinkFits' /\ Around' /\ ServerAround'
  <2>1. uplink' = 0 /\ pc' = "off" /\ ToSet(bypass') = {} /\ halves' = {}
    BY <1>0 DEF Vanish
  <2> QED
    BY <2>1 DEF UplinkFits, Around, ServerAround
<1>4. HookFits' /\ TunFits'
  BY DEF HookFits, TunFits, Vanish
<1> QED
  BY <1>1, <1>2, <1>3, <1>4 DEF IInv

LEMMA ExitIs ==
    ASSUME IInv, NEW how \in {"error", "fault", "kill"}, Exit(how),
           how = "fault" => program # "hp-router"
    PROVE  IInv'
BY VanishIs DEF Exit

(* What is not on the table when the tunnel is taken down was lost by the   *)
(* system.                                                                 *)
LEMMA TakeDownIs ==
    ASSUME IInv, NEW how \in {"signal", "fault"}, TakeDown(how), InLoop,
           ~torn => \A h \in ToSet(bypass) : via[h] = uplink
    PROVE  IInv'
<1>0. /\ pc' = "lowering" /\ todo' = {} /\ then' = "off" /\ tunnel_up' = FALSE /\ last' = how
      /\ program' = program /\ uplink' = uplink /\ bypass' = bypass /\ tun' = tun
      /\ granted' = granted /\ fresh' = fresh /\ adding' = adding /\ via' = via /\ halves' = halves
      /\ byhand' = byhand /\ alive' = alive /\ defaults' = defaults /\ hook' = hook /\ torn' = torn
  BY DEF TakeDown, relays, table, system
<1>1. Typed'
  BY <1>0 DEF IInv, Typed, Stage
<1>2. HalvesFit' /\ TodoFits'
  BY <1>0 DEF HalvesFit, TodoFits
<1>3. UplinkFits'
  BY <1>0 DEF IInv, UplinkFits, InLoop
<1>4. Around' /\ ServerAround'
  BY <1>0 DEF IInv, Around, ServerAround
<1>5. HookFits' /\ TunFits'
  BY <1>0 DEF IInv, HookFits, TunFits, InLoop
<1> QED
  BY <1>1, <1>2, <1>3, <1>4, <1>5 DEF IInv

LEMMA EndsIs ==
    ASSUME IInv, NEW how \in {"signal", "error"}, Ends(how), how = "signal" => pc = "loop",
           InLoop /\ ~torn => \A h \in ToSet(bypass) : via[h] = uplink
    PROVE  IInv'
<1> DEFINE as == IF InLoop /\ how = "error" THEN "fault" ELSE how
<1>1. CASE InLoop /\ TakesDown(how)
  <2>1. as \in {"signal", "fault"} /\ TakeDown(as)
    BY <1>1 DEF Ends
  <2> QED
    BY <1>1, <2>1, TakeDownIs
<1>2. CASE ~(InLoop /\ TakesDown(how))
  <2>1. how = "error"
    BY <1>2 DEF InLoop, TakesDown
  <2>2. as \in {"error", "fault"} /\ Exit(as) /\ (as = "fault" => program # "hp-router")
    BY <1>2, <2>1 DEF Ends, TakesDown
  <2> QED
    BY <2>2, ExitIs
<1> QED
  BY <1>1, <1>2

(* Outside a sync nothing is left to do.                                   *)
LEMMA QuietIs ==
    ASSUME IInv, pc # "sync"
    PROVE  todo = {} /\ (~torn => \A h \in ToSet(bypass) : via[h] = uplink)
BY DEF IInv, TodoFits, Around

-----------------------------------------------------------------------------
(* One lemma per action that can disturb the invariant.                    *)

LEMMA InitIInv == Init => IInv
<1> SUFFICES ASSUME Init
             PROVE  IInv
  OBVIOUS
<1>0. ToSet(<<>>) = {} /\ <<>> \in Seq(Host) /\ <<>> \in Seq(Relay)
  BY DEF ToSet
<1>1. Typed
  BY <1>0 DEF Init, Typed, Stage
<1>2. HalvesFit /\ TodoFits
  BY DEF Init, HalvesFit, TodoFits
<1>3. UplinkFits /\ Around /\ ServerAround /\ HookFits /\ TunFits
  <2>1. uplink = 0 /\ pc = "off" /\ ToSet(bypass) = {} /\ halves = {} /\ last = "none"
    BY <1>0 DEF Init
  <2> QED
    BY <2>1 DEF UplinkFits, Around, ServerAround, HookFits, TunFits
<1> QED
  BY <1>1, <1>2, <1>3 DEF IInv

LEMMA StepRunCommand == IInv /\ RunCommand => IInv'
<1> SUFFICES ASSUME IInv, RunCommand
             PROVE  IInv'
  OBVIOUS
<1>1. PICK c \in todo :
          /\ Foremost(c) /\ Works(c)
          /\ via' = IF c.op = "host" THEN [via EXCEPT ![c.to] = uplink] ELSE via
          /\ halves' = IF c.op = "half" THEN halves \cup {c.to} ELSE halves
          /\ byhand' = (byhand /\ c.op # "undefault")
          /\ todo' = todo \ {c}
  BY DEF RunCommand
<1>2. /\ pc = "sync" /\ program' = program /\ pc' = pc /\ then' = then /\ uplink' = uplink
      /\ bypass' = bypass /\ tunnel_up' = tunnel_up /\ tun' = tun /\ granted' = granted
      /\ adding' = adding /\ alive' = alive /\ defaults' = defaults /\ hook' = hook
      /\ torn' = torn /\ last' = last
  BY DEF RunCommand, relays, system, history
<1>3. /\ c \in Commands /\ byhand \in BOOLEAN
      /\ c.op = "host" => c.to \in Host /\ c.to \in ToSet(bypass) /\ uplink \in alive
      /\ c.op = "half" => c.to \in Half /\ tunnel_up /\ tun
  <2>1. c \in Commands /\ byhand \in BOOLEAN
    BY DEF IInv, Typed
  <2>2. (c.op = "host" => c.to \in Host) /\ (c.op = "half" => c.to \in Half)
    BY <2>1 DEF Commands
  <2> QED
    BY <1>1, <2>1, <2>2 DEF IInv, TodoFits, Works
<1>4. \A h \in Host : c = Command("host", h) <=> c.op = "host" /\ c.to = h
  BY <1>3 DEF Command, Commands
<1>5. ToSet(bypass) \subseteq Host
  BY ToSetIs DEF IInv, Typed
<1>6. /\ via' \in [Host -> alive \cup {0}]
      /\ \A h \in Host : via'[h] = IF c = Command("host", h) THEN uplink ELSE via[h]
  BY <1>1, <1>3, <1>4 DEF IInv, Typed
<1>7. byhand' \in BOOLEAN /\ (byhand' => byhand)
  BY <1>1, <1>3
<1>8. Typed'
  BY <1>1, <1>2, <1>3, <1>6, <1>7 DEF IInv, Typed
<1>9. HalvesFit' /\ TodoFits' /\ UplinkFits' /\ HookFits' /\ TunFits'
  <2>1. HalvesFit'
    BY <1>1, <1>2, <1>3 DEF IInv, HalvesFit, Lowered
  <2>2. TodoFits'
    BY <1>1, <1>2 DEF IInv, TodoFits
  <2>3. UplinkFits' /\ HookFits' /\ TunFits'
    BY <1>2 DEF IInv, UplinkFits, HookFits, TunFits
  <2> QED
    BY <2>1, <2>2, <2>3
<1>10. Around'
  <2> SUFFICES ASSUME ~torn, NEW h \in ToSet(bypass)
               PROVE  via'[h] = uplink \/ Command("host", h) \in todo'
    BY <1>2 DEF Around, Command
  <2>1. via[h] = uplink \/ Command("host", h) \in todo
    BY DEF IInv, Around
  <2> QED
    BY <1>1, <1>5, <1>6, <2>1
<1>11. ServerAround'
  <2> SUFFICES ASSUME halves' # {}, ~torn, "vps" \in ToSet(bypass)
               PROVE  via'["vps"] = uplink
    BY <1>2 DEF ServerAround
  <2>1. CASE c.op = "half"
    <3>1. Command("host", "vps") \notin todo
      BY <1>1, <2>1, HostsFirst
    <3>2. via["vps"] = uplink
      BY <3>1 DEF IInv, Around
    <3> QED
      BY <1>5, <1>6, <3>2
  <2>2. CASE c.op # "half"
    <3>1. via["vps"] = uplink
      BY <1>1, <2>2 DEF IInv, ServerAround
    <3> QED
      BY <1>5, <1>6, <3>1
  <2> QED
    BY <2>1, <2>2
<1> QED
  BY <1>8, <1>9, <1>10, <1>11 DEF IInv

LEMMA StepCommandFails == IInv /\ CommandFails => IInv'
<1> SUFFICES ASSUME IInv, CommandFails
             PROVE  IInv'
  OBVIOUS
<1>1. PICK c \in todo : Foremost(c) /\ ~Works(c)
  BY DEF CommandFails
<1>2. ASSUME ~torn, NEW h \in ToSet(bypass)
      PROVE  via[h] = uplink
  <2>1. uplink \in alive
    BY <1>2 DEF IInv, UplinkFits
  <2>2. c.op # "host"
    BY <1>1, <2>1 DEF Works
  <2>3. Command("host", h) \notin todo
    BY <1>1, <1>2, <2>2, HostsFirst
  <2> QED
    BY <1>2, <2>3 DEF IInv, Around
<1>3. Ends("error")
  BY DEF CommandFails
<1> QED
  BY <1>2, <1>3, EndsIs

LEMMA StepSynced == IInv /\ Synced => IInv'
<1> SUFFICES ASSUME IInv, Synced
             PROVE  IInv'
  OBVIOUS
<1>0. /\ pc = "sync" /\ todo = {} /\ pc' = then /\ then' = then /\ todo' = todo
      /\ program' = program /\ uplink' = uplink /\ bypass' = bypass /\ tunnel_up' = tunnel_up
      /\ tun' = tun /\ granted' = granted /\ adding' = adding /\ via' = via /\ halves' = halves
      /\ byhand' = byhand /\ alive' = alive /\ defaults' = defaults /\ hook' = hook
      /\ last' = last
  BY DEF Synced, Goes, relays, table, system
<1>1. torn \in BOOLEAN /\ torn' = (torn /\ Missing(bypass, uplink, tunnel_up) # {})
  BY DEF Synced, IInv, Typed
<1>2. torn' \in BOOLEAN
  BY <1>1
<1>3. ASSUME ~torn', NEW h \in ToSet(bypass)
      PROVE  via[h] = uplink
  <2>1. CASE ~torn
    BY <1>0, <1>3, <2>1 DEF IInv, Around
  <2>2. CASE torn
    <3>1. Missing(bypass, uplink, tunnel_up) = {}
      BY <1>1, <1>3, <2>2
    <3>2. Command("host", h) \notin Missing(bypass, uplink, tunnel_up)
      BY <3>1
    <3>3. bypass \in Seq(Host) /\ tunnel_up \in BOOLEAN /\ Typed
      BY DEF IInv, Typed
    <3> QED
      BY <1>3, <3>2, <3>3, MissingIs
  <2> QED
    BY <2>1, <2>2
<1>4. Typed'
  BY <1>0, <1>2 DEF IInv, Typed, Stage
<1>5. HalvesFit' /\ TodoFits' /\ HookFits' /\ TunFits'
  <2>1. then \in {"asking", "raising", "hooking", "loop", "adding"}
    BY <1>0 DEF IInv, Typed
  <2>2. HalvesFit'
    BY <1>0, <2>1 DEF IInv, HalvesFit, Lowered
  <2>3. TodoFits' /\ HookFits' /\ TunFits'
    BY <1>0, <2>1 DEF IInv, TodoFits, HookFits, TunFits
  <2> QED
    BY <2>2, <2>3
<1>6. UplinkFits'
  <2> SUFFICES ASSUME uplink # 0, ~torn'
               PROVE  uplink \in alive
    BY <1>0 DEF IInv, UplinkFits
  <2>1. "vps" \in ToSet(bypass)
    BY DEF IInv, UplinkFits
  <2>2. via["vps"] = uplink
    BY <1>3, <2>1
  <2> QED
    BY <2>2 DEF IInv, Typed, Host
<1>7. Around' /\ ServerAround'
  BY <1>0, <1>3 DEF Around, ServerAround
<1> QED
  BY <1>4, <1>5, <1>6, <1>7 DEF IInv

LEMMA StepFind == IInv /\ (Find \/ NoUplink) => IInv'
<1> SUFFICES ASSUME IInv, Find \/ NoUplink
             PROVE  IInv'
  OBVIOUS
<1>1. CASE NoUplink
  BY <1>1, EndsIs, QuietIs DEF NoUplink, InLoop
<1>2. CASE Find
  <2> DEFINE found == IF Current # 0 THEN Current ELSE Probed
             next == IF program = "hp-router" THEN "asking" ELSE "raising"
  <2>1. /\ pc = "finding" /\ found # 0 /\ defaults' = defaults \cup {found}
        /\ Ensure(<<"vps">>, found, FALSE, next)
    BY <1>2 DEF Find
  <2>2. UNCHANGED <<program, tun, relays, table, alive, history>>
    BY <1>2 DEF Find
  <2>3. found \in alive
    <3>1. CASE Current # 0
      BY <3>1, CurrentIs DEF IInv, Typed
    <3>2. CASE Current = 0
      BY <2>1, <3>2 DEF Probed, IInv, Typed, Host
    <3> QED
      BY <3>1, <3>2
  <2>4. <<"vps">> \in Seq(Host) /\ "vps" \in ToSet(<<"vps">>)
    BY DEF ToSet, Host
  <2>5. halves = {}
    BY <2>1 DEF IInv, HalvesFit, Lowered
  <2>6. /\ granted' \subseteq Relay /\ adding' \in Seq(Relay) /\ defaults' \subseteq alive
        /\ found \in Uplink /\ next \in {"asking", "raising", "hooking", "loop", "adding"}
    BY <2>1, <2>2, <2>3 DEF IInv, Typed, relays
  <2>7. UNCHANGED <<program, table, hook, last, torn, alive, tun>>
    BY <2>2 DEF history
  <2>8. tun \/ (next = "asking" /\ program = "hp-router")
    BY <2>1 DEF IInv, TunFits
  <2> HIDE DEF found, next
  <2> QED
    BY <2>1, <2>3, <2>4, <2>5, <2>6, <2>7, <2>8, EnsureIs
<1> QED
  BY <1>1, <1>2

(* A sync of the router's or the client's own routes, with the TUN or not.  *)
LEMMA StepRaise == IInv /\ Raise => IInv'
<1> SUFFICES ASSUME IInv, Raise
             PROVE  IInv'
  OBVIOUS
<1>1. pc = "raising" /\ Ensure(bypass, uplink, TRUE, "hooking")
  BY DEF Raise
<1>2. /\ UNCHANGED <<program, table, hook, last, torn, alive, tun>>
      /\ granted' \subseteq Relay /\ adding' \in Seq(Relay) /\ defaults' \subseteq alive
  BY DEF Raise, relays, history, system, IInv, Typed
<1>3. uplink # 0
  BY <1>1 DEF IInv, UplinkFits
<1>4. /\ bypass \in Seq(Host) /\ uplink \in Uplink /\ "vps" \in ToSet(bypass)
      /\ ~torn => uplink \in alive
      /\ tun
  BY <1>1, <1>3 DEF IInv, Typed, UplinkFits, TunFits
<1> QED
  BY <1>1, <1>2, <1>4, EnsureIs

LEMMA StepAddBypass == IInv /\ AddBypass => IInv'
<1> SUFFICES ASSUME IInv, AddBypass
             PROVE  IInv'
  OBVIOUS
<1>0. /\ pc = "adding" /\ uplink # 0 /\ todo = {}
      /\ UNCHANGED <<program, tun, granted, table, system, history>>
  BY DEF AddBypass, IInv, UplinkFits, TodoFits
<1>1. /\ adding \in Seq(Relay) /\ bypass \in Seq(Host) /\ uplink \in Uplink
      /\ "vps" \in ToSet(bypass) /\ (~torn => uplink \in alive) /\ tunnel_up \in BOOLEAN
      /\ (~tunnel_up => halves = {}) /\ tun
  BY <1>0 DEF IInv, Typed, UplinkFits, HalvesFit, TunFits
<1>2. CASE UNCHANGED <<todo, uplink, bypass, tunnel_up>> /\ pc' \in {"adding", "loop"} /\ then' = then
             /\ adding' \in Seq(Relay)
  <2>1. Typed'
    BY <1>0, <1>2 DEF IInv, Typed, table, system, history, Stage
  <2>2. HalvesFit' /\ TodoFits' /\ HookFits' /\ TunFits'
    BY <1>0, <1>2 DEF IInv, HalvesFit, Lowered, TodoFits, HookFits, TunFits, table, history
  <2>3. UplinkFits'
    BY <1>0, <1>2 DEF IInv, UplinkFits, table, system, history
  <2>4. Around' /\ ServerAround'
    BY <1>0, <1>2 DEF IInv, Around, ServerAround, table, history
  <2> QED
    BY <2>1, <2>2, <2>3, <2>4 DEF IInv
<1>3. CASE adding = <<>>
  BY <1>0, <1>1, <1>2, <1>3 DEF AddBypass, Goes
<1>4. CASE adding # <<>> /\ Contains(bypass, Head(adding))
  <2>1. Tail(adding) \in Seq(Relay)
    BY <1>1, <1>4
  <2> QED
    BY <1>0, <1>2, <1>4, <2>1 DEF AddBypass
<1>5. CASE adding # <<>> /\ ~Contains(bypass, Head(adding))
  <2>1. Head(adding) \in Relay /\ Head(adding) \in Host /\ Tail(adding) \in Seq(Relay)
    BY <1>1, <1>5 DEF Host
  <2>2. PICK h \in Host : h = Head(adding)
    BY <2>1
  <2>3. /\ Append(bypass, h) \in Seq(Host) /\ "vps" \in ToSet(Append(bypass, h))
    BY <1>1, ToSetIs
  <2>4. adding' = Tail(adding) /\ Ensure(Append(bypass, h), uplink, tunnel_up, "adding")
    BY <1>5, <2>2 DEF AddBypass
  <2>5. /\ UNCHANGED <<program, table, hook, last, torn, alive, tun>>
        /\ granted' \subseteq Relay /\ adding' \in Seq(Relay) /\ defaults' \subseteq alive
    BY <1>0, <2>1, <2>4 DEF history, system, IInv, Typed
  <2> QED
    BY <1>1, <2>3, <2>4, <2>5, EnsureIs
<1> QED
  BY <1>3, <1>4, <1>5

LEMMA StepCheck == IInv /\ Check => IInv'
<1> SUFFICES ASSUME IInv, Check
             PROVE  IInv'
  OBVIOUS
<1>1. CASE Ends("error")
  BY <1>1, EndsIs, QuietIs DEF Check
<1>2. CASE ~Ends("error")
  <2>1. /\ pc = "loop" /\ uplink # 0 /\ Ensure(bypass, uplink, tunnel_up, "loop")
        /\ UNCHANGED <<program, tun, relays, table, system, history>>
    BY <1>2 DEF Check, IInv, UplinkFits
  <2>2. /\ bypass \in Seq(Host) /\ uplink \in Uplink
        /\ "vps" \in ToSet(bypass) /\ (~torn => uplink \in alive) /\ tunnel_up \in BOOLEAN
        /\ (~tunnel_up => halves = {}) /\ tun
    BY <2>1 DEF IInv, Typed, UplinkFits, HalvesFit, TunFits
  <2>3. /\ UNCHANGED <<program, table, hook, last, torn, alive, tun>>
        /\ granted' \subseteq Relay /\ adding' \in Seq(Relay) /\ defaults' \subseteq alive
    BY <2>1 DEF relays, history, system, IInv, Typed
  <2> QED
    BY <2>1, <2>2, <2>3, EnsureIs
<1> QED
  BY <1>1, <1>2

LEMMA StepEnds == IInv /\ (Signal \/ Killed) => IInv'
<1> SUFFICES ASSUME IInv, Signal \/ Killed
             PROVE  IInv'
  OBVIOUS
<1>1. CASE Signal
  <2>1. pc = "loop" /\ Ends("signal")
    BY <1>1 DEF Signal
  <2>2. ~torn => \A h \in ToSet(bypass) : via[h] = uplink
    BY <2>1, QuietIs
  <2> QED
    BY <2>1, <2>2, EndsIs
<1>2. CASE Killed
  BY <1>2, ExitIs DEF Killed
<1> QED
  BY <1>1, <1>2

(* The stages at which the process only goes on.                           *)
LEMMA StepGoes ==
    IInv /\ (Start \/ Answered \/ CreateTun \/ HookUp \/ Serve \/ RelaysChanged
        \/ Lower \/ Unhook) => IInv'
<1> SUFFICES ASSUME IInv, Start \/ Answered \/ CreateTun \/ HookUp \/ Serve \/ RelaysChanged
                       \/ Lower \/ Unhook
             PROVE  IInv'
  OBVIOUS
<1>1. CASE Serve /\ Ends("error")
  BY <1>1, EndsIs DEF Serve, InLoop
<1>2. CASE ~(Serve /\ Ends("error"))
  <2>0. program \in {"vps-client", "hp-router"}
    BY TunnelAssumption DEF IInv, Typed
  <2>1. /\ UNCHANGED <<program, uplink, bypass, tunnel_up, via, byhand, alive, defaults, granted,
                       torn, last, todo, then>>
        /\ pc \in Stage /\ pc' \in Stage
        /\ \/ pc' = "asking" /\ program = "vps-client" /\ pc = "off"
           \/ pc' = "finding" /\ program = "hp-router" /\ pc = "off"
           \/ pc' = "creating" /\ pc = "asking"
           \/ pc' = "finding" /\ pc = "creating" /\ program = "vps-client" /\ tun'
           \/ pc' = "raising" /\ pc = "creating" /\ program = "hp-router" /\ tun'
           \/ pc' = "serving" /\ pc = "hooking"
           \/ pc' = "loop" /\ pc = "serving"
           \/ pc' = "adding" /\ pc = "loop"
           \/ pc' = pc /\ pc = "lowering" /\ tun' = tun
           \/ pc' = "unhooking" /\ pc = "lowering" /\ tun' = tun
           \/ pc' = "leaving" /\ pc = "unhooking" /\ tun' = tun
    <3>1. CASE Start
      BY <1>2, <2>0, <3>1 DEF Start, Goes, relays, table, system, history, Stage
    <3>2. CASE Answered
      BY <1>2, <2>0, <3>2 DEF Answered, Goes, relays, table, system, history, Stage
    <3>3. CASE CreateTun
      BY <1>2, <2>0, <3>3 DEF CreateTun, Goes, relays, table, system, history, Stage
    <3>4. CASE HookUp
      BY <1>2, <2>0, <3>4 DEF HookUp, Goes, relays, table, system, history, Stage
    <3>5. CASE Serve
      BY <1>2, <2>0, <3>5 DEF Serve, Goes, relays, table, system, history, Stage
    <3>6. CASE RelaysChanged
      BY <1>2, <2>0, <3>6 DEF RelaysChanged, Goes, relays, table, system, history, Stage
    <3>7. CASE Lower
      BY <1>2, <2>0, <3>7 DEF Lower, Goes, relays, table, system, history, Stage
    <3>8. CASE Unhook
      BY <1>2, <2>0, <3>8 DEF Unhook, Goes, relays, table, system, history, Stage
    <3> QED
      BY <3>1, <3>2, <3>3, <3>4, <3>5, <3>6, <3>7, <3>8
  <2>2. /\ tun' \in BOOLEAN /\ (tun => tun') /\ halves' \subseteq halves
        /\ hook' \in {hook, "up", "down"} /\ (pc' \in {"leaving", "off"} => hook' = "down")
        /\ pc' = "unhooking" => halves' = {}
    <3>0. tun \in BOOLEAN /\ halves \subseteq Half
      BY DEF IInv, Typed
    <3>1. CASE Start
      BY <1>2, <2>1, <3>0, <3>1 DEF Start, Goes, relays, table, system, history
    <3>2. CASE Answered
      BY <1>2, <2>1, <3>0, <3>2 DEF Answered, Goes, relays, table, system, history
    <3>3. CASE CreateTun
      BY <1>2, <2>1, <3>0, <3>3 DEF CreateTun, Goes, relays, table, system, history
    <3>4. CASE HookUp
      BY <1>2, <2>1, <3>0, <3>4 DEF HookUp, Goes, relays, table, system, history
    <3>5. CASE Serve
      BY <1>2, <2>1, <3>0, <3>5 DEF Serve, Goes, relays, table, system, history
    <3>6. CASE RelaysChanged
      BY <1>2, <2>1, <3>0, <3>6 DEF RelaysChanged, Goes, relays, table, system, history
    <3>7. CASE Lower
      BY <1>2, <2>1, <3>0, <3>7 DEF Lower, Goes, relays, table, system, history
    <3>8. CASE Unhook
      BY <1>2, <2>1, <3>0, <3>8 DEF Unhook, Goes, relays, table, system, history
    <3> QED
      BY <1>2, <3>1, <3>2, <3>3, <3>4, <3>5, <3>6, <3>7, <3>8
  <2>3. adding' \in Seq(Relay)
    <3>1. adding \in Seq(Relay) /\ granted \in SUBSET Relay
      BY DEF IInv, Typed
    <3>2. adding' \in {adding, SetToSeq(granted)}
      BY <1>2 DEF Start, Answered, CreateTun, HookUp, Serve, RelaysChanged, Lower, Unhook, relays
    <3> QED
      BY <3>1, <3>2, SetToSeqIs
  <2>4. Typed'
    BY <2>1, <2>2, <2>3 DEF IInv, Typed, Stage
  <2>5. HalvesFit' /\ TodoFits' /\ HookFits'
    BY <2>1, <2>2 DEF IInv, HalvesFit, Lowered, TodoFits, HookFits, Stage
  <2>9. TunFits'
    BY <2>1, <2>2 DEF IInv, TunFits, Stage
  <2>6. UplinkFits'
    BY <2>1, <2>2 DEF IInv, UplinkFits
  <2>7. Around'
    BY <2>1 DEF IInv, Around
  <2>8. ServerAround'
    BY <2>1, <2>2 DEF IInv, ServerAround
  <2> QED
    BY <2>4, <2>5, <2>6, <2>7, <2>8, <2>9 DEF IInv
<1> QED
  BY <1>1, <1>2

LEMMA StepLeave == IInv /\ Leave => IInv'
<1> SUFFICES ASSUME IInv, Leave
             PROVE  IInv'
  OBVIOUS
<1>1. hook = "down" /\ hook' = hook /\ Vanish
      /\ last' \in {"none", "signal", "error", "fault", "kill"}
  BY DEF Leave, IInv, HookFits, Typed
<1> QED
  BY <1>1, VanishIs

(* What the server and the system do: the table only loses routes, and that *)
(* tears it.                                                               *)
LEMMA StepOutside ==
    IInv /\ (Reload \/ ByHand \/ (\E u \in Uplink : Gone(u) \/ Comes(u)) \/ \E o \in SUBSET Relay : Grant(o))
        => IInv'
<1> SUFFICES ASSUME IInv,
                    Reload \/ ByHand \/ (\E u \in Uplink : Gone(u) \/ Comes(u))
                        \/ \E o \in SUBSET Relay : Grant(o)
             PROVE  IInv'
  OBVIOUS
<1>1. UNCHANGED <<program, pc, todo, then, uplink, bypass, tunnel_up, tun, adding, hook, last>>
  BY DEF Reload, ByHand, Gone, Comes, Grant, Change, process, relays, history
<1>2. granted' \subseteq Relay
  BY DEF Reload, ByHand, Gone, Comes, Grant, Change, relays, IInv, Typed
<1>3. /\ defaults' \subseteq alive' /\ alive' \subseteq Uplink
      /\ halves' \subseteq halves /\ byhand' \in BOOLEAN /\ (byhand' => byhand \/ tun)
  <2>0. byhand \in BOOLEAN /\ defaults \subseteq alive /\ alive \subseteq Uplink
    BY DEF IInv, Typed
  <2>1. CASE Reload \/ ByHand
    <3>1. CASE Reload
      <4>1. byhand' = byhand /\ alive' = alive /\ defaults' = defaults /\ halves' \subseteq halves
        BY <3>1 DEF Reload
      <4> QED
        BY <2>0, <4>1
    <3>2. CASE ByHand
      BY <2>0, <3>2 DEF ByHand
    <3> QED
      BY <2>1, <3>1, <3>2
  <2>2. ASSUME NEW u \in Uplink, Gone(u) \/ Comes(u)
        PROVE  /\ defaults' \subseteq alive' /\ alive' \subseteq Uplink
               /\ halves' \subseteq halves /\ byhand' \in BOOLEAN /\ (byhand' => byhand \/ tun)
    BY <2>2 DEF Gone, Comes, Change, table, IInv, Typed
  <2>3. CASE \E o \in SUBSET Relay : Grant(o)
    BY <2>3 DEF Grant, table, IInv, Typed
  <2> QED
    BY <2>1, <2>2, <2>3
<1>4. via' \in [Host -> alive' \cup {0}]
  BY DEF Reload, ByHand, Gone, Comes, Grant, Change, table, IInv, Typed
<1>5. torn' \in BOOLEAN /\ (~torn' => ~torn /\ alive \subseteq alive' /\ via' = via)
  BY DEF Reload, ByHand, Gone, Comes, Grant, Change, table, history, IInv, Typed
<1>6. Typed'
  BY <1>1, <1>2, <1>3, <1>4, <1>5 DEF IInv, Typed
<1>7. HalvesFit' /\ TodoFits' /\ HookFits' /\ TunFits'
  BY <1>1, <1>3 DEF IInv, HalvesFit, Lowered, TodoFits, HookFits, TunFits
<1>8. UplinkFits'
  BY <1>1, <1>5 DEF IInv, UplinkFits
<1>9. Around' /\ ServerAround'
  BY <1>1, <1>3, <1>5 DEF IInv, Around, ServerAround
<1> QED
  BY <1>6, <1>7, <1>8, <1>9 DEF IInv

LEMMA StepIInv == IInv /\ [Next]_vars => IInv'
<1> SUFFICES ASSUME IInv, [Next]_vars
             PROVE  IInv'
  OBVIOUS
<1>1. CASE Run
  BY <1>1, StepFind, StepRaise, StepAddBypass, StepCheck, StepGoes, StepLeave, StepRunCommand,
     StepCommandFails, StepSynced DEF Run
<1>2. CASE Signal \/ Killed
  BY <1>2, StepEnds
<1>3. CASE Reload \/ ByHand \/ (\E u \in Uplink : Gone(u) \/ Comes(u)) \/ \E o \in SUBSET Relay : Grant(o)
  BY <1>3, StepOutside
<1>4. CASE UNCHANGED vars
  <2>1. UNCHANGED <<program, pc, todo, then, uplink, bypass, tunnel_up, tun, granted, adding, via, halves,
                    byhand, alive, defaults, hook, torn, last>>
    BY <1>4 DEF vars, process, relays, table, system, history
  <2> QED
    BY <2>1 DEF IInv, Typed, HalvesFit, Lowered, TodoFits, UplinkFits, Around, ServerAround, HookFits, TunFits
<1> QED
  BY <1>1, <1>2, <1>3, <1>4 DEF Next

LEMMA Inductive == Spec => []IInv
BY InitIInv, StepIInv, PTL DEF Spec

-----------------------------------------------------------------------------
(* The stages, the table and the lists stay what they are declared to be,  *)
(* whatever the system does between two commands.                          *)
THEOREM TypeCorrect == Spec => []TypeOK
<1>1. IInv => TypeOK
  <2> SUFFICES ASSUME IInv
               PROVE  TypeOK
    OBVIOUS
  <2>1. ToSet(bypass) \subseteq Host
    BY ToSetIs DEF IInv, Typed
  <2> QED
    BY <2>1 DEF IInv, Typed, TypeOK
<1> QED
  BY <1>1, Inductive, PTL

(* The tunnel never swallows the packets of its own holes: Routes::start    *)
(* and tunnel_up set the way around for every host before any address goes  *)
(* into the TUN, whatever command fails and wherever the run ends.          *)
THEOREM HolesGoAroundHolds == Spec => []HolesGoAround
<1>1. IInv => HolesGoAround
  <2> SUFFICES ASSUME IInv, halves # {}, ~torn, NEW h \in ToSet(bypass)
               PROVE  via[h] = uplink \/ (pc = "sync" /\ h # "vps")
    BY DEF HolesGoAround
  <2>1. CASE h = "vps"
    BY <2>1 DEF IInv, ServerAround
  <2>2. CASE h # "vps"
    BY <2>2 DEF IInv, Around, TodoFits
  <2> QED
    BY <2>1, <2>2
<1> QED
  BY <1>1, Inductive, PTL

(* A run that ended at a signal, or the router's at an error in its loop,   *)
(* has run on-tun-down.sh; and when it did the two commands of              *)
(* remove_tunnel were behind it and the TUN still there (routes.rs).        *)
THEOREM StopsInOrderHolds == Spec => []StopsInOrder
<1>1. IInv => StopsInOrder
  BY DEF IInv, HookFits, TunFits, HalvesFit, Lowered, StopsInOrder
<1> QED
  BY <1>1, Inductive, PTL

-----------------------------------------------------------------------------
(***************************************************************************)
(* Feedback.                                                               *)
(***************************************************************************)

-----------------------------------------------------------------------------
(* Numbers that come round.                                                *)

LEMMA NumbersIs == Numbers \in Nat /\ Numbers > 2
  BY FeedbackAssumption

(* Positions less than a round apart have numbers of their own.            *)
LEMMA NumbersAreTheirs ==
    ASSUME NEW a \in Int, NEW b \in Int, a % Numbers = b % Numbers,
           a - b < Numbers, b - a < Numbers
    PROVE  a = b
<1> DEFINE qa == a \div Numbers
           qb == b \div Numbers
<1>1. a = Numbers * qa + (a % Numbers) /\ qa \in Int
  BY NumbersIs
<1>2. b = Numbers * qb + (b % Numbers) /\ qb \in Int
  BY NumbersIs
<1> HIDE DEF qa, qb
<1>3. PICK m \in Int : m = a % Numbers
  BY NumbersIs
<1>4. a - b = Numbers * (qa - qb)
  BY NumbersIs, <1>1, <1>2, <1>3
<1>5. PICK e \in Int : e = qa - qb
  BY <1>1, <1>2
<1>6. e >= 1 => Numbers * e >= Numbers
  BY NumbersIs, <1>5
<1>7. e <= -1 => Numbers * e <= -Numbers
  BY NumbersIs, <1>5
<1>8. e = 0
  BY <1>4, <1>5, <1>6, <1>7, NumbersIs
<1> QED
  BY <1>4, <1>5, <1>8, NumbersIs

(* The rest of a number is in its round, and is the number itself there.   *)
LEMMA RestIs ==
    ASSUME NEW a \in Int
    PROVE  /\ a % Numbers \in 0 .. Numbers - 1
           /\ a \in 0 .. Numbers - 1 => a % Numbers = a
           /\ (a % Numbers) % Numbers = a % Numbers
           /\ -Numbers <= a /\ a < 0 => a % Numbers = a + Numbers \/ a = -Numbers
  BY NumbersIs

(* The difference of two numbers is that of the positions.                 *)
LEMMA RestOfDifference ==
    ASSUME NEW a \in Int, NEW b \in Int
    PROVE  ((a % Numbers) - (b % Numbers)) % Numbers = (a - b) % Numbers
<1> DEFINE qa == a \div Numbers
           qb == b \div Numbers
           qd == (a - b) \div Numbers
           e  == (a % Numbers) - (b % Numbers)
           qe == e \div Numbers
<1>1. a = Numbers * qa + (a % Numbers) /\ qa \in Int
  BY NumbersIs
<1>2. b = Numbers * qb + (b % Numbers) /\ qb \in Int
  BY NumbersIs
<1>3. a - b = Numbers * qd + ((a - b) % Numbers) /\ qd \in Int
  BY NumbersIs
<1>4. e \in Int
  BY NumbersIs
<1>5. e = Numbers * qe + (e % Numbers) /\ qe \in Int
  BY NumbersIs, <1>4
<1>6. PICK x \in 0 .. Numbers - 1 : x = e % Numbers
  BY NumbersIs, <1>4
<1>7. PICK y \in 0 .. Numbers - 1 : y = (a - b) % Numbers
  BY NumbersIs
<1>8. a - b = Numbers * qa - Numbers * qb + e
  BY <1>1, <1>2, NumbersIs
<1> HIDE DEF qa, qb, qd, qe, e
<1>9. PICK k \in Int : k = qa - qb + qe - qd
  BY <1>1, <1>2, <1>3, <1>5
<1>10. y - x = Numbers * k
  <2>1. Numbers * k = Numbers * qa - Numbers * qb + Numbers * qe - Numbers * qd
    BY <1>1, <1>2, <1>3, <1>5, <1>9, NumbersIs
  <2>2. PICK A \in Int, B \in Int, E \in Int, D \in Int :
            /\ A = Numbers * qa /\ B = Numbers * qb
            /\ E = Numbers * qe /\ D = Numbers * qd
    BY <1>1, <1>2, <1>3, <1>5, NumbersIs
  <2>3. a - b = A - B + e /\ e = E + x /\ a - b = D + y
    BY <1>3, <1>5, <1>6, <1>7, <1>8, <2>2
  <2> QED
    BY <1>4, <1>6, <1>7, <2>1, <2>2, <2>3
<1>11. k >= 1 => Numbers * k >= Numbers
  BY NumbersIs, <1>9
<1>12. k <= -1 => Numbers * k <= -Numbers
  BY NumbersIs, <1>9
<1>13. k = 0
  BY <1>6, <1>7, <1>9, <1>10, <1>11, <1>12, NumbersIs
<1>14. x = y
  BY <1>10, <1>13, NumbersIs
<1> QED
  BY <1>6, <1>7, <1>14 DEF e

(* While the positions are less than half a round apart, the signed        *)
(* difference of the numbers is that of the positions.                     *)
LEMMA DeltaIs ==
    ASSUME NEW a \in Int, NEW b \in Int, 2 * (a - b) < Numbers, 2 * (b - a) < Numbers
    PROVE  Delta(a % Numbers, b % Numbers) = a - b
<1>1. PICK d \in Int : d = a - b
  OBVIOUS
<1>2. PICK r \in 0 .. Numbers - 1 : r = d % Numbers
  BY RestIs
<1>3. ((a % Numbers) - (b % Numbers)) % Numbers = r
  BY <1>1, <1>2, RestOfDifference
<1>4. Delta(a % Numbers, b % Numbers) = IF 2 * r >= Numbers THEN r - Numbers ELSE r
  BY <1>3 DEF Delta
<1>5. /\ d \in 0 .. Numbers - 1 => d % Numbers = d
      /\ -Numbers <= d /\ d < 0 => d % Numbers = d + Numbers \/ d = -Numbers
  BY RestIs, Zenon
<1>6. 2 * d < Numbers /\ -2 * d < Numbers
  BY <1>1, NumbersIs
<1>7. d >= 0 => r = d
  BY <1>2, <1>5, <1>6, NumbersIs
<1>8. d < 0 => r = d + Numbers
  BY <1>2, <1>5, <1>6, NumbersIs
<1> QED
  BY <1>1, <1>2, <1>4, <1>7, <1>8, NumbersIs

-----------------------------------------------------------------------------
(* The inductive invariant.                                                *)

Packets == [peer : Peer, n : Nat]
Events == [kind : {"sent", "ack"}, packet : Packets, pid : Int]
Batches == [peer : Peer, ack_through : Int, packets : Seq(Packets), deltas : Seq(Int)]

FeedbackTyped ==
    /\ sent \in [Peer -> Nat] /\ base \in [Peer -> Nat]
    /\ underway \subseteq Packets /\ lost \subseteq Packets
    /\ window \in [Peer -> [top : Int, seen : SUBSET (0 .. WINDOW_BITS - 1)]]
    /\ builder \in [Peer -> Seq(Packets)]
    /\ reports \subseteq Batches
    /\ chan \in Seq(Events)
    /\ pending \subseteq [pid : Int, packet : Packets]
    /\ restarts \in Nat

(* What is outstanding, and what is known to have come, by the places it   *)
(* is noted in.                                                            *)
Noted(f, e, c, r, b) ==
    f \cup {y.packet : y \in e} \cup {event.packet : event \in ToSet(c)}
        \cup (UNION {ToSet(x.packets) : x \in r}) \cup (UNION {ToSet(b[p]) : p \in Peer})
Known(c, r, b) ==
    {c[i].packet : i \in {j \in DOMAIN c : c[j].kind = "ack"}}
        \cup (UNION {ToSet(x.packets) : x \in r}) \cup (UNION {ToSet(b[p]) : p \in Peer})
Came == Known(chan, reports, builder)

(* A packet that is outstanding was sent by this process.                  *)
SentBefore ==
    /\ \A x \in Outstanding : base[x.peer] <= x.n /\ x.n < sent[x.peer]
    /\ \A x \in lost : x.n < sent[x.peer]
    /\ \A p \in Peer : base[p] <= sent[p]

(* Those of one peer are less than half a round apart.                     *)
CloseBy == \A x, y \in Outstanding : x.peer = y.peer => 2 * (x.n - y.n) < Numbers

(* What has come is neither on its way nor lost.                           *)
CameOnce == Came \cap (underway \cup lost) = {} /\ underway \cap lost = {}

(* Every number is that of its packet.                                     *)
NumbersHold ==
    /\ \A e \in pending : e.pid = Pid(e.packet)
    /\ \A i \in DOMAIN chan : chan[i].pid = Pid(chan[i].packet)
    /\ \A r \in reports :
          /\ DOMAIN r.deltas = DOMAIN r.packets
          /\ \A i \in DOMAIN r.packets :
                (r.ack_through + r.deltas[i]) % Numbers = Pid(r.packets[i])

(* The batches are small and the channel is bounded.                       *)
BatchesFit ==
    /\ \A p \in Peer : Len(builder[p]) < PID_REPORT_BATCH
    /\ \A r \in reports : Len(r.deltas) \in 1 .. PID_REPORT_BATCH
    /\ Len(chan) <= channel_capacity

FeedbackIInv ==
    FeedbackTyped /\ SentBefore /\ CloseBy /\ CameOnce /\ NumbersHold /\ BatchesFit

-----------------------------------------------------------------------------
NotedAt(f, e, c, r, b, x) ==
    \/ x \in f
    \/ \E y \in e : x = y.packet
    \/ \E i \in DOMAIN c : x = c[i].packet
    \/ \E y \in r : \E i \in DOMAIN y.packets : x = y.packets[i]
    \/ \E p \in Peer : \E i \in DOMAIN b[p] : x = b[p][i]

KnownAt(c, r, b, x) ==
    \/ \E i \in DOMAIN c : c[i].kind = "ack" /\ x = c[i].packet
    \/ \E y \in r : \E i \in DOMAIN y.packets : x = y.packets[i]
    \/ \E p \in Peer : \E i \in DOMAIN b[p] : x = b[p][i]

LEMMA NotedIs ==
    ASSUME NEW f, NEW e, NEW c, NEW r, NEW b, NEW x
    PROVE  x \in Noted(f, e, c, r, b) <=> NotedAt(f, e, c, r, b, x)
<1> DEFINE waiting == {y.packet : y \in e}
           told == {event.packet : event \in ToSet(c)}
           reported == UNION {ToSet(y.packets) : y \in r}
           noted == UNION {ToSet(b[p]) : p \in Peer}
<1>1. Noted(f, e, c, r, b) = f \cup waiting \cup told \cup reported \cup noted
  BY DEF Noted
<1>2. x \in waiting <=> \E y \in e : x = y.packet
  OBVIOUS
<1>3. x \in told <=> \E i \in DOMAIN c : x = c[i].packet
  BY DEF ToSet
<1>4. x \in reported <=> \E y \in r : \E i \in DOMAIN y.packets : x = y.packets[i]
  BY DEF ToSet
<1>5. x \in noted <=> \E p \in Peer : \E i \in DOMAIN b[p] : x = b[p][i]
  BY DEF ToSet
<1> HIDE DEF waiting, told, reported, noted
<1> QED
  BY <1>1, <1>2, <1>3, <1>4, <1>5 DEF NotedAt

LEMMA KnownIs ==
    ASSUME NEW c, NEW r, NEW b, NEW x
    PROVE  x \in Known(c, r, b) <=> KnownAt(c, r, b, x)
<1> DEFINE told == {c[i].packet : i \in {j \in DOMAIN c : c[j].kind = "ack"}}
           reported == UNION {ToSet(y.packets) : y \in r}
           noted == UNION {ToSet(b[p]) : p \in Peer}
<1>1. Known(c, r, b) = told \cup reported \cup noted
  BY DEF Known
<1>2. x \in told <=> \E i \in DOMAIN c : c[i].kind = "ack" /\ x = c[i].packet
  OBVIOUS
<1>3. x \in reported <=> \E y \in r : \E i \in DOMAIN y.packets : x = y.packets[i]
  BY DEF ToSet
<1>4. x \in noted <=> \E p \in Peer : \E i \in DOMAIN b[p] : x = b[p][i]
  BY DEF ToSet
<1> HIDE DEF told, reported, noted
<1> QED
  BY <1>1, <1>2, <1>3, <1>4 DEF KnownAt

(* What was told is in the channel after what was there, or dropped.       *)
LEMMA ToldIs ==
    ASSUME chan \in Seq(Events), NEW events \in Seq(Events), Told(events)
    PROVE  /\ chan' \in Seq(Events) /\ Len(chan') <= channel_capacity
           /\ \A i \in DOMAIN chan' : \/ \E j \in DOMAIN chan : chan'[i] = chan[j]
                                      \/ \E j \in DOMAIN events : chan'[i] = events[j]
<1> DEFINE all == chan \o events
           fits == IF Len(all) <= channel_capacity THEN Len(all) ELSE channel_capacity
<1>1. /\ all \in Seq(Events) /\ Len(all) = Len(chan) + Len(events)
      /\ Len(chan) \in Nat /\ Len(events) \in Nat
      /\ DOMAIN chan = 1 .. Len(chan) /\ DOMAIN events = 1 .. Len(events)
      /\ \A i \in 1 .. Len(all) : all[i] = IF i <= Len(chan) THEN chan[i] ELSE events[i - Len(chan)]
  OBVIOUS
<1>2. fits \in Nat /\ fits <= Len(all) /\ fits <= channel_capacity
  BY <1>1, FeedbackAssumption
<1>3. chan' = SubSeq(all, 1, fits)
  BY DEF Told
<1> HIDE DEF all, fits
<1>4. /\ chan' \in Seq(Events) /\ Len(chan') = fits /\ DOMAIN chan' = 1 .. fits
      /\ \A i \in 1 .. fits : chan'[i] = all[i]
  BY <1>1, <1>2, <1>3
<1>5. ASSUME NEW i \in 1 .. fits
      PROVE  \/ \E j \in DOMAIN chan : chan'[i] = chan[j]
             \/ \E j \in DOMAIN events : chan'[i] = events[j]
  <2>1. CASE i <= Len(chan)
    BY <1>1, <1>2, <1>4, <2>1
  <2>2. CASE i > Len(chan)
    <3>1. i - Len(chan) \in DOMAIN events /\ chan'[i] = events[i - Len(chan)]
      BY <1>1, <1>2, <1>4, <2>2
    <3> QED
      BY <3>1
  <2> QED
    BY <1>1, <2>1, <2>2
<1> QED
  BY <1>2, <1>4, <1>5

(* A number lies in its round.                                             *)
LEMMA PidIs ==
    ASSUME FeedbackTyped, NEW x \in Packets
    PROVE  Pid(x) \in 0 .. Numbers - 1 /\ Pid(x) % Numbers = Pid(x)
<1>1. PICK a \in Int : a = x.n - base[x.peer]
  BY DEF FeedbackTyped, Packets
<1>2. a % Numbers \in 0 .. Numbers - 1 /\ (a % Numbers) % Numbers = a % Numbers
  BY RestIs, Zenon
<1> QED
  BY <1>1, <1>2 DEF Pid

(* A report leads back to its packets.                                     *)
LEMMA ReportIs ==
    ASSUME FeedbackTyped, NEW p \in Peer, NEW b \in Seq(Packets), b # <<>>
    PROVE  /\ Report(p, b) \in Batches /\ Report(p, b).packets = b
           /\ DOMAIN Report(p, b).deltas = DOMAIN b /\ Len(Report(p, b).deltas) = Len(b)
           /\ \A i \in DOMAIN b :
                 (Report(p, b).ack_through + Report(p, b).deltas[i]) % Numbers = Pid(b[i])
<1>1. \A i \in DOMAIN b : b[i] \in Packets
  OBVIOUS
<1>2. \A x \in Packets : Pid(x) \in 0 .. Numbers - 1 /\ Pid(x) % Numbers = Pid(x)
  BY PidIs
<1>3. Pids(b) \in SUBSET Nat /\ Pids(b) # {}
  <2>1. 1 \in DOMAIN b
    OBVIOUS
  <2>2. Pids(b) = {Pid(x) : x \in {b[i] : i \in DOMAIN b}}
    BY DEF Pids, ToSet
  <2>3. \A i \in DOMAIN b : Pid(b[i]) \in Nat
    BY <1>1, <1>2, NumbersIs
  <2> QED
    BY <2>1, <2>2, <2>3
<1>4. \E u \in Pids(b) : \A v \in Pids(b) : u <= v
  BY <1>3, LeastIs
<1>5. Min(Pids(b)) \in Pids(b)
  BY <1>4 DEF Min
<1>6. PICK least \in Nat : least = Min(Pids(b))
  BY <1>3, <1>5
<1>7. Report(p, b) = [peer |-> p, ack_through |-> least, packets |-> b,
                      deltas |-> [i \in DOMAIN b |-> Pid(b[i]) - least]]
  BY <1>6 DEF Report
<1>8. [i \in DOMAIN b |-> Pid(b[i]) - least] \in Seq(Int)
  <2>1. DOMAIN b = 1 .. Len(b) /\ Len(b) \in Nat
    OBVIOUS
  <2>2. \A i \in DOMAIN b : Pid(b[i]) - least \in Int
    BY <1>1, <1>2, <1>6
  <2> QED
    BY <2>1, <2>2
<1>9. ASSUME NEW i \in DOMAIN b
      PROVE  (least + (Pid(b[i]) - least)) % Numbers = Pid(b[i])
  <2>1. PICK n \in Nat : n = Pid(b[i]) /\ n % Numbers = n
    BY <1>1, <1>2, NumbersIs
  <2>2. least + (n - least) = n
    BY <1>6
  <2> QED
    BY <2>1, <2>2
<1> QED
  BY <1>7, <1>8, <1>9 DEF Batches

-----------------------------------------------------------------------------
(* One step.                                                               *)

LEMMA OutstandingIs == Outstanding = Noted(underway, pending, chan, reports, builder)
BY DEF Outstanding, Noted

LEMMA PacketsOut ==
    ASSUME FeedbackTyped
    PROVE  /\ Outstanding \subseteq Packets
           /\ \A i \in DOMAIN chan : chan[i] \in Events
           /\ \A r \in reports : \A i \in DOMAIN r.packets : r.packets[i] \in Packets
           /\ \A p \in Peer : \A i \in DOMAIN builder[p] : builder[p][i] \in Packets
<1>1. \A i \in DOMAIN chan : chan[i] \in Events
  BY DEF FeedbackTyped
<1>2. \A r \in reports : r.packets \in Seq(Packets)
  BY DEF FeedbackTyped, Batches
<1>3. \A r \in reports : \A i \in DOMAIN r.packets : r.packets[i] \in Packets
  BY <1>2
<1>4. \A p \in Peer : builder[p] \in Seq(Packets)
  BY DEF FeedbackTyped
<1>5. \A p \in Peer : \A i \in DOMAIN builder[p] : builder[p][i] \in Packets
  BY <1>4
<1>6. ASSUME NEW x \in Outstanding
      PROVE  x \in Packets
  <2>1. NotedAt(underway, pending, chan, reports, builder, x)
    BY <1>6, NotedIs, OutstandingIs
  <2> QED
    BY <1>1, <1>3, <1>5, <2>1 DEF FeedbackTyped, Events, NotedAt
<1> QED
  BY <1>1, <1>3, <1>5, <1>6

LEMMA CameOut == Came \subseteq Outstanding
<1> SUFFICES ASSUME NEW x, KnownAt(chan, reports, builder, x)
             PROVE  NotedAt(underway, pending, chan, reports, builder, x)
  BY OutstandingIs, NotedIs, KnownIs DEF Came
<1> QED
  BY DEF KnownAt, NotedAt

(* The same of the next state.                                             *)
LEMMA NextOut ==
    ASSUME NEW x
    PROVE  /\ x \in Outstanding' <=> NotedAt(underway', pending', chan', reports', builder', x)
           /\ x \in Outstanding <=> NotedAt(underway, pending, chan, reports, builder, x)
           /\ x \in Came' <=> KnownAt(chan', reports', builder', x)
           /\ x \in Came <=> KnownAt(chan, reports, builder, x)
<1>1. Outstanding' = Noted(underway', pending', chan', reports', builder')
  BY DEF Outstanding, Noted
<1>2. Came' = Known(chan', reports', builder')
  BY DEF Came, Known
<1> QED
  BY <1>1, <1>2, OutstandingIs, NotedIs, KnownIs DEF Came

(* What is outstanding does not grow but by a packet that is sent.         *)
LEMMA StillOut ==
    ASSUME FeedbackIInv, UNCHANGED <<sent, base>>,
           Outstanding' \subseteq Outstanding, lost' \subseteq lost \cup underway
    PROVE  SentBefore' /\ CloseBy'
<1>1. underway \subseteq Outstanding
  BY DEF Outstanding
<1>2. sent' = sent /\ base' = base /\ SentBefore /\ CloseBy
  BY DEF FeedbackIInv
<1>3. \A x \in lost' : x.n < sent[x.peer]
  BY <1>1, <1>2 DEF SentBefore
<1> QED
  BY <1>2, <1>3 DEF SentBefore, CloseBy

LEMMA StepSend == ASSUME FeedbackIInv, NEW p \in Peer, Send(p) PROVE FeedbackIInv'
<1> DEFINE packet == Numbered(p, sent[p])
<1>1. /\ NotHalfRound(p) /\ Told(<<Sent(packet)>>)
      /\ sent' = [sent EXCEPT ![p] = @ + 1] /\ underway' = underway \cup {packet}
      /\ UNCHANGED <<base, window, builder, dropped, reports, pending, rows, losses, restarts, lost>>
  BY DEF Send, peers
<1>2. /\ FeedbackTyped /\ SentBefore /\ CloseBy /\ CameOnce /\ NumbersHold /\ BatchesFit
  BY DEF FeedbackIInv
<1>3. packet \in Packets /\ packet.peer = p /\ packet.n = sent[p] /\ sent[p] \in Nat /\ base[p] \in Nat
  BY <1>2 DEF FeedbackTyped, Packets, Numbered
<1> DEFINE event == Sent(packet)
<1>4. event \in Events /\ event.kind = "sent" /\ event.packet = packet /\ event.pid = Pid(packet)
  <2>1. Pid(packet) \in Int
    BY <1>2, <1>3, PidIs
  <2> HIDE DEF packet
  <2> QED
    BY <1>3, <2>1 DEF Sent, Events
<1> HIDE DEF event, packet
<1>5. <<event>> \in Seq(Events) /\ DOMAIN <<event>> = {1} /\ <<event>>[1] = event
  BY <1>4
<1>6. /\ chan' \in Seq(Events) /\ Len(chan') <= channel_capacity
      /\ \A i \in DOMAIN chan' : chan'[i] = event \/ \E j \in DOMAIN chan : chan'[i] = chan[j]
  BY <1>1, <1>2, <1>5, ToldIs DEF FeedbackTyped, event
<1>7. FeedbackTyped'
  <2>1. sent' \in [Peer -> Nat]
    BY <1>1, <1>2, <1>3 DEF FeedbackTyped
  <2> QED
    BY <1>1, <1>2, <1>3, <1>6, <2>1 DEF FeedbackTyped
<1>8. Outstanding' \subseteq Outstanding \cup {packet}
  <2> SUFFICES ASSUME NEW x, NotedAt(underway', pending', chan', reports', builder', x), x # packet
               PROVE  NotedAt(underway, pending, chan, reports, builder, x)
    BY NextOut
  <2> QED
    BY <1>1, <1>4, <1>6 DEF NotedAt
<1>9. Came' \subseteq Came
  <2> SUFFICES ASSUME NEW x, KnownAt(chan', reports', builder', x)
               PROVE  KnownAt(chan, reports, builder, x)
    BY NextOut
  <2> QED
    BY <1>1, <1>4, <1>6 DEF KnownAt
<1>10. Came \subseteq Outstanding
  BY CameOut
<1>11. packet \notin Outstanding \cup lost
  BY <1>2, <1>3 DEF SentBefore
<1>12. \A x \in Outstanding : x \in Packets
  BY <1>2, PacketsOut
<1>13. SentBefore' /\ CloseBy'
  <2>1. \A x \in Outstanding : x.peer = p => 2 * (sent[p] - x.n) < Numbers
    BY <1>1 DEF NotHalfRound
  <2>2. \A q \in Peer : sent[q] <= sent'[q] /\ sent[q] \in Nat /\ sent'[q] \in Nat
    BY <1>1, <1>2 DEF FeedbackTyped
  <2>3. sent'[p] = sent[p] + 1
    BY <1>1, <1>2 DEF FeedbackTyped
  <2>4. \A x \in lost : x.n < sent'[x.peer]
    BY <1>1, <1>2, <2>2 DEF SentBefore, FeedbackTyped, Packets
  <2>5. \A x \in Outstanding' : base[x.peer] <= x.n /\ x.n < sent'[x.peer]
    <3> SUFFICES ASSUME NEW x \in Outstanding'
                 PROVE  base[x.peer] <= x.n /\ x.n < sent'[x.peer]
      OBVIOUS
    <3>1. CASE x = packet
      <4>1. base[p] <= sent[p]
        BY <1>2 DEF SentBefore
      <4>2. x.peer = p /\ x.n = sent[p]
        BY <1>3, <3>1
      <4> QED
        BY <1>3, <2>3, <4>1, <4>2
    <3>2. CASE x \in Outstanding
      BY <1>2, <1>12, <2>2, <3>2 DEF SentBefore, Packets
    <3> QED
      BY <1>8, <3>1, <3>2
  <2>6. CloseBy'
    <3> SUFFICES ASSUME NEW x \in Outstanding', NEW y \in Outstanding', x.peer = y.peer
                 PROVE  2 * (x.n - y.n) < Numbers
      BY DEF CloseBy
    <3>1. CASE x \in Outstanding /\ y \in Outstanding
      BY <1>2, <3>1 DEF CloseBy
    <3>2. CASE x = packet /\ y \in Outstanding
      BY <1>3, <2>1, <3>2
    <3>3. CASE x \in Outstanding /\ y = packet
      BY <1>2, <1>3, <1>12, <3>3, NumbersIs DEF SentBefore, Packets
    <3>4. CASE x = packet /\ y = packet
      BY <1>3, <3>4, NumbersIs
    <3> QED
      BY <1>8, <3>1, <3>2, <3>3, <3>4
  <2> QED
    BY <1>1, <1>2, <2>2, <2>4, <2>5, <2>6 DEF SentBefore, FeedbackTyped
<1>14. CameOnce'
  <2>1. underway \subseteq Outstanding
    BY DEF Outstanding
  <2> QED
    BY <1>1, <1>2, <1>9, <1>10, <1>11, <2>1 DEF CameOnce
<1>15. NumbersHold'
  <2>1. \A x : Pid(x)' = Pid(x)
    BY <1>1 DEF Pid
  <2>2. \A i \in DOMAIN chan' : chan'[i].pid = Pid(chan'[i].packet)
    BY <1>2, <1>4, <1>6 DEF NumbersHold
  <2> QED
    BY <1>1, <1>2, <2>1, <2>2 DEF NumbersHold, Pid
<1>16. BatchesFit'
  BY <1>1, <1>2, <1>6 DEF BatchesFit
<1> QED
  BY <1>7, <1>13, <1>14, <1>15, <1>16 DEF FeedbackIInv

LEMMA StepLose == ASSUME FeedbackIInv, Lose PROVE FeedbackIInv'
<1>1. /\ FeedbackTyped /\ SentBefore /\ CloseBy /\ CameOnce /\ NumbersHold /\ BatchesFit
  BY DEF FeedbackIInv
<1>2. /\ UNCHANGED <<sent, base, chan, pending, rows, window, builder, dropped, restarts>>
      /\ underway' \subseteq underway /\ reports' \subseteq reports
      /\ lost' \subseteq lost \cup underway /\ lost' \cap underway' = lost \cap underway'
      /\ underway' \cup lost' \subseteq underway \cup lost
  BY <1>1 DEF Lose, server, peers, CameOnce
<1>3. FeedbackTyped'
  BY <1>1, <1>2 DEF FeedbackTyped
<1>4. Outstanding' \subseteq Outstanding
  <2> SUFFICES ASSUME NEW x, NotedAt(underway', pending', chan', reports', builder', x)
               PROVE  NotedAt(underway, pending, chan, reports, builder, x)
    BY NextOut
  <2> QED
    BY <1>2 DEF NotedAt
<1>5. Came' \subseteq Came
  <2> SUFFICES ASSUME NEW x, KnownAt(chan', reports', builder', x)
               PROVE  KnownAt(chan, reports, builder, x)
    BY NextOut
  <2> QED
    BY <1>2 DEF KnownAt
<1>6. SentBefore' /\ CloseBy'
  BY <1>2, <1>4, StillOut
<1>7. CameOnce'
  BY <1>1, <1>2, <1>5 DEF CameOnce
<1>8. NumbersHold' /\ BatchesFit'
  BY <1>1, <1>2 DEF NumbersHold, BatchesFit, Pid
<1> QED
  BY <1>3, <1>6, <1>7, <1>8 DEF FeedbackIInv

(* A report goes out: the batch is what was noted, or with one more.       *)
LEMMA ReportGoes ==
    ASSUME FeedbackIInv, NEW p \in Peer, NEW b \in Seq(Packets),
           b # <<>>, Len(b) <= PID_REPORT_BATCH,
           UNCHANGED <<sent, base, chan, pending>>,
           builder' = [builder EXCEPT ![p] = <<>>],
           reports' = reports \cup {Report(p, b)}
    PROVE  /\ builder' \in [Peer -> Seq(Packets)] /\ reports' \subseteq Batches
           /\ NumbersHold' /\ BatchesFit'
           /\ \A x : NotedAt(underway', pending', chan', reports', builder', x) =>
                        \/ x \in underway' \/ NotedAt(underway, pending, chan, reports, builder, x)
                        \/ \E i \in DOMAIN b : x = b[i]
           /\ \A x : KnownAt(chan', reports', builder', x) =>
                        KnownAt(chan, reports, builder, x) \/ \E i \in DOMAIN b : x = b[i]
<1>1. FeedbackTyped /\ NumbersHold /\ BatchesFit
  BY DEF FeedbackIInv
<1>2. PICK r \in Batches : r = Report(p, b)
  BY <1>1, ReportIs
<1>3. /\ r.packets = b /\ DOMAIN r.deltas = DOMAIN b /\ Len(r.deltas) = Len(b)
      /\ \A i \in DOMAIN b : (r.ack_through + r.deltas[i]) % Numbers = Pid(b[i])
  BY <1>1, <1>2, ReportIs
<1>4. reports' = reports \cup {r}
  BY <1>2
<1>5. /\ builder' \in [Peer -> Seq(Packets)] /\ reports' \subseteq Batches
      /\ builder'[p] = <<>> /\ \A q \in Peer \ {p} : builder'[q] = builder[q]
  BY <1>1, <1>2, <1>4 DEF FeedbackTyped
<1>6. NumbersHold'
  <2>1. \A e \in pending' : e.pid = Pid(e.packet)
    BY <1>1 DEF NumbersHold
  <2>2. \A i \in DOMAIN chan' : chan'[i].pid = Pid(chan'[i].packet)
    BY <1>1 DEF NumbersHold
  <2>3. \A s \in reports' :
           /\ DOMAIN s.deltas = DOMAIN s.packets
           /\ \A i \in DOMAIN s.packets : (s.ack_through + s.deltas[i]) % Numbers = Pid(s.packets[i])
    BY <1>1, <1>3, <1>4 DEF NumbersHold
  <2> QED
    BY <2>1, <2>2, <2>3 DEF NumbersHold, Pid
<1>7. BatchesFit'
  <2>1. Len(b) \in 1 .. PID_REPORT_BATCH
    BY FeedbackAssumption
  <2>2. \A q \in Peer : Len(builder'[q]) < PID_REPORT_BATCH
    BY <1>1, <1>5, FeedbackAssumption DEF BatchesFit
  <2> QED
    BY <1>1, <1>3, <1>4, <2>1, <2>2 DEF BatchesFit
<1>8. \A x : NotedAt(underway', pending', chan', reports', builder', x) =>
                \/ x \in underway' \/ NotedAt(underway, pending, chan, reports, builder, x)
                \/ \E i \in DOMAIN b : x = b[i]
  BY <1>3, <1>4, <1>5 DEF NotedAt
<1>9. \A x : KnownAt(chan', reports', builder', x) =>
                KnownAt(chan, reports, builder, x) \/ \E i \in DOMAIN b : x = b[i]
  BY <1>3, <1>4, <1>5 DEF KnownAt
<1> QED
  BY <1>5, <1>6, <1>7, <1>8, <1>9

LEMMA StepReportTick == ASSUME FeedbackIInv, NEW p \in Peer, ReportTick(p) PROVE FeedbackIInv'
<1>1. /\ FeedbackTyped /\ SentBefore /\ CloseBy /\ CameOnce /\ BatchesFit
  BY DEF FeedbackIInv
<1>2. /\ UNCHANGED <<sent, base, chan, pending, window, underway, restarts, lost>>
      /\ builder[p] # <<>> /\ builder[p] \in Seq(Packets) /\ Len(builder[p]) <= PID_REPORT_BATCH
      /\ builder' = [builder EXCEPT ![p] = <<>>]
      /\ reports' = reports \cup {Report(p, builder[p])}
  BY <1>1, FeedbackAssumption DEF ReportTick, server, FeedbackTyped, BatchesFit
<1>3. /\ builder' \in [Peer -> Seq(Packets)] /\ reports' \subseteq Batches
      /\ NumbersHold' /\ BatchesFit'
      /\ \A x : NotedAt(underway', pending', chan', reports', builder', x) =>
                   \/ x \in underway' \/ NotedAt(underway, pending, chan, reports, builder, x)
                   \/ \E i \in DOMAIN builder[p] : x = builder[p][i]
      /\ \A x : KnownAt(chan', reports', builder', x) =>
                   KnownAt(chan, reports, builder, x) \/ \E i \in DOMAIN builder[p] : x = builder[p][i]
  BY <1>2, ReportGoes
<1>4. Outstanding' \subseteq Outstanding
  <2> SUFFICES ASSUME NEW x, NotedAt(underway', pending', chan', reports', builder', x)
               PROVE  NotedAt(underway, pending, chan, reports, builder, x)
    BY NextOut
  <2> QED
    BY <1>2, <1>3 DEF NotedAt
<1>5. Came' \subseteq Came
  <2> SUFFICES ASSUME NEW x, KnownAt(chan', reports', builder', x)
               PROVE  KnownAt(chan, reports, builder, x)
    BY NextOut
  <2> QED
    BY <1>2, <1>3 DEF KnownAt
<1>6. SentBefore' /\ CloseBy'
  BY <1>2, <1>4, StillOut
<1>7. CameOnce'
  BY <1>1, <1>2, <1>5 DEF CameOnce
<1>8. FeedbackTyped'
  BY <1>1, <1>2, <1>3 DEF FeedbackTyped
<1> QED
  BY <1>3, <1>6, <1>7, <1>8 DEF FeedbackIInv

LEMMA StepHandleReport ==
    ASSUME FeedbackIInv, NEW report \in reports, HandleReport(report) PROVE FeedbackIInv'
<1>1. /\ FeedbackTyped /\ SentBefore /\ CloseBy /\ CameOnce /\ NumbersHold /\ BatchesFit
  BY DEF FeedbackIInv
<1> DEFINE acks == [i \in DOMAIN report.deltas |->
                       Ack(report.packets[i], (report.ack_through + report.deltas[i]) % Numbers)]
<1>2. /\ UNCHANGED <<sent, base, pending, window, builder, dropped, underway, restarts, lost>>
      /\ reports' = reports \ {report} /\ Told(acks)
  BY DEF HandleReport, peers
<1>3. /\ report \in Batches /\ DOMAIN report.deltas = DOMAIN report.packets
      /\ \A i \in DOMAIN report.packets :
            (report.ack_through + report.deltas[i]) % Numbers = Pid(report.packets[i])
  BY <1>1 DEF FeedbackTyped, NumbersHold
<1>4. PICK ps \in Seq(Packets) : ps = report.packets
  BY <1>3 DEF Batches
<1>5. \A i \in DOMAIN ps : ps[i] \in Packets /\ Pid(ps[i]) \in Int
  BY <1>1, PidIs
<1>6. acks = [i \in DOMAIN ps |-> Ack(ps[i], Pid(ps[i]))]
  BY <1>3, <1>4
<1>7. /\ acks \in Seq(Events) /\ DOMAIN acks = DOMAIN ps
      /\ \A i \in DOMAIN ps : /\ acks[i].packet = ps[i] /\ acks[i].pid = Pid(ps[i])
                              /\ acks[i].kind = "ack"
  <2>1. DOMAIN ps = 1 .. Len(ps) /\ Len(ps) \in Nat
    OBVIOUS
  <2>2. \A i \in DOMAIN ps : Ack(ps[i], Pid(ps[i])) \in Events
    BY <1>5 DEF Ack, Events
  <2> HIDE DEF acks
  <2>3. acks \in [1 .. Len(ps) -> Events]
    BY <1>6, <2>1, <2>2
  <2> QED
    BY <1>6, <2>1, <2>3 DEF Ack
<1> HIDE DEF acks
<1>8. /\ chan' \in Seq(Events) /\ Len(chan') <= channel_capacity
      /\ \A i \in DOMAIN chan' : \/ \E j \in DOMAIN chan : chan'[i] = chan[j]
                                 \/ \E j \in DOMAIN acks : chan'[i] = acks[j]
  BY <1>1, <1>2, <1>7, ToldIs DEF FeedbackTyped
<1>9. FeedbackTyped'
  BY <1>1, <1>2, <1>8 DEF FeedbackTyped
<1>10. Outstanding' \subseteq Outstanding
  <2> SUFFICES ASSUME NEW x, NotedAt(underway', pending', chan', reports', builder', x)
               PROVE  NotedAt(underway, pending, chan, reports, builder, x)
    BY NextOut
  <2>1. \A i \in DOMAIN ps : NotedAt(underway, pending, chan, reports, builder, ps[i])
    BY <1>4 DEF NotedAt
  <2>2. \A i \in DOMAIN chan' : \/ \E j \in DOMAIN chan : chan'[i].packet = chan[j].packet
                                \/ \E j \in DOMAIN ps : chan'[i].packet = ps[j]
    <3> TAKE i \in DOMAIN chan'
    <3>1. CASE \E j \in DOMAIN chan : chan'[i] = chan[j]
      BY <3>1
    <3>2. CASE \E j \in DOMAIN acks : chan'[i] = acks[j]
      <4>1. PICK j \in DOMAIN acks : chan'[i] = acks[j]
        BY <3>2
      <4> QED
        BY <4>1, <1>7
    <3> QED
      BY <3>1, <3>2, <1>8
  <2>3. (\E i \in DOMAIN chan' : x = chan'[i].packet)
           => NotedAt(underway, pending, chan, reports, builder, x)
    <3> SUFFICES ASSUME NEW i \in DOMAIN chan', x = chan'[i].packet
                 PROVE  NotedAt(underway, pending, chan, reports, builder, x)
      OBVIOUS
    <3>1. CASE \E j \in DOMAIN chan : chan'[i].packet = chan[j].packet
      BY <3>1 DEF NotedAt
    <3>2. CASE \E j \in DOMAIN ps : chan'[i].packet = ps[j]
      BY <2>1, <3>2
    <3> QED
      BY <2>2, <3>1, <3>2
  <2>4. CASE \E i \in DOMAIN chan' : x = chan'[i].packet
    BY <2>3, <2>4
  <2>5. CASE ~ \E i \in DOMAIN chan' : x = chan'[i].packet
    <3>1. reports' \subseteq reports /\ UNCHANGED <<underway, pending, builder>>
      BY <1>2
    <3>2. NotedAt(underway, pending, chan, reports', builder, x)
      BY <2>5, <3>1 DEF NotedAt
    <3> QED
      BY <3>1, <3>2 DEF NotedAt
  <2> QED
    BY <2>4, <2>5
<1>11. Came' \subseteq Came
  <2> SUFFICES ASSUME NEW x, KnownAt(chan', reports', builder', x)
               PROVE  KnownAt(chan, reports, builder, x)
    BY NextOut
  <2>1. \A i \in DOMAIN ps : KnownAt(chan, reports, builder, ps[i])
    BY <1>4 DEF KnownAt
  <2> QED
    BY <1>2, <1>7, <1>8, <2>1 DEF KnownAt
<1>12. SentBefore' /\ CloseBy'
  BY <1>2, <1>10, StillOut
<1>13. CameOnce'
  BY <1>1, <1>2, <1>11 DEF CameOnce
<1>14. NumbersHold'
  <2>1. \A i \in DOMAIN chan' : chan'[i].pid = Pid(chan'[i].packet)
    BY <1>1, <1>7, <1>8 DEF NumbersHold
  <2> QED
    BY <1>1, <1>2, <2>1 DEF NumbersHold, Pid
<1>15. BatchesFit'
  BY <1>1, <1>2, <1>8 DEF BatchesFit
<1> QED
  BY <1>9, <1>12, <1>13, <1>14, <1>15 DEF FeedbackIInv

Windows == [top : Int, seen : SUBSET (0 .. WINDOW_BITS - 1)]

LEMMA AdmitIs ==
    ASSUME NEW w \in Windows, NEW pid \in Int
    PROVE  Admit(w, pid).window \in Windows
<1>1. w.top \in Int /\ w.seen \in SUBSET (0 .. WINDOW_BITS - 1)
  BY DEF Windows
<1>2. PICK d \in Int : d = Delta(pid, w.top)
  <2>1. PICK a \in Int : a = pid - w.top
    BY <1>1
  <2>2. a % Numbers \in Int
    BY NumbersIs
  <2> QED
    BY <2>1, <2>2, NumbersIs DEF Delta
<1>3. WINDOW_BITS \in Nat /\ 0 \in 0 .. WINDOW_BITS - 1
  BY FeedbackAssumption
<1>4. \A seen \in SUBSET (0 .. WINDOW_BITS - 1) : [top |-> pid, seen |-> seen] \in Windows
  BY DEF Windows
<1>5. {0} \in SUBSET (0 .. WINDOW_BITS - 1)
      /\ Shifted(w.seen, d) \cup {0} \in SUBSET (0 .. WINDOW_BITS - 1)
  BY <1>3 DEF Shifted
<1>6. -d < WINDOW_BITS /\ d <= 0 => [w EXCEPT !.seen = @ \cup {-d}] \in Windows
  <2> SUFFICES ASSUME -d < WINDOW_BITS, d <= 0
               PROVE  [w EXCEPT !.seen = @ \cup {-d}] \in Windows
    OBVIOUS
  <2>1. -d \in 0 .. WINDOW_BITS - 1
    BY <1>2, <1>3
  <2> QED
    BY <1>1, <2>1 DEF Windows
<1>7. CASE w.top = NoTop
  BY <1>4, <1>5, <1>7 DEF Admit
<1>8. CASE w.top # NoTop /\ d > 0
  BY <1>2, <1>4, <1>5, <1>8 DEF Admit
<1>9. CASE w.top # NoTop /\ d <= 0 /\ -d >= WINDOW_BITS
  BY <1>2, <1>9 DEF Admit
<1>10. CASE w.top # NoTop /\ d <= 0 /\ -d < WINDOW_BITS
  BY <1>2, <1>3, <1>6, <1>10 DEF Admit
<1> QED
  BY <1>2, <1>3, <1>7, <1>8, <1>9, <1>10

LEMMA StepReceive ==
    ASSUME FeedbackIInv, NEW packet \in underway, Receive(packet) PROVE FeedbackIInv'
<1>1. /\ FeedbackTyped /\ SentBefore /\ CloseBy /\ CameOnce /\ NumbersHold /\ BatchesFit
  BY DEF FeedbackIInv
<1>2. packet \in Packets /\ packet \in Outstanding
  BY <1>1 DEF FeedbackTyped, Outstanding
<1>3. PICK p \in Peer : p = packet.peer
  BY <1>2 DEF Packets
<1> DEFINE admitted == Admit(window[p], Pid(packet))
<1>4. PICK b \in Seq(Packets) :
          b = IF admitted.new THEN Observed(builder[p], packet) ELSE builder[p]
  <2>1. builder[p] \in Seq(Packets)
    BY <1>1 DEF FeedbackTyped
  <2>2. Observed(builder[p], packet) \in Seq(Packets)
    BY <1>2, <2>1 DEF Observed
  <2> HIDE DEF admitted
  <2> QED
    BY <2>1, <2>2
<1>5. /\ UNCHANGED <<sent, base, chan, pending, rows, losses, restarts, lost>>
      /\ underway' = underway \ {packet}
      /\ window' = [window EXCEPT ![p] = admitted.window]
      /\ builder' = [builder EXCEPT ![p] = IF Full(b) THEN <<>> ELSE b]
      /\ reports' = IF Full(b) THEN reports \cup {Report(p, b)} ELSE reports
  BY <1>3, <1>4 DEF Receive, server
<1>6. window' \in [Peer -> Windows]
  <2>1. window \in [Peer -> Windows]
    BY <1>1 DEF FeedbackTyped, Windows
  <2>2. Pid(packet) \in Int
    BY <1>1, <1>2, PidIs
  <2>3. admitted.window \in Windows
    BY <2>1, <2>2, AdmitIs
  <2> HIDE DEF admitted
  <2> QED
    BY <1>5, <2>1, <2>3
<1>7. /\ builder[p] \in Seq(Packets) /\ Len(builder[p]) < PID_REPORT_BATCH
      /\ Len(builder[p]) \in Nat /\ PID_REPORT_BATCH \in Nat \ {0}
  BY <1>1, FeedbackAssumption DEF FeedbackTyped, BatchesFit
<1>8. /\ \A i \in DOMAIN b : b[i] = packet \/ \E j \in DOMAIN builder[p] : b[i] = builder[p][j]
      /\ Len(b) \in {Len(builder[p]), Len(builder[p]) + 1}
  <2>1. CASE b = builder[p]
    BY <1>7, <2>1
  <2>2. CASE b = Append(builder[p], packet)
    <3>1. /\ Len(b) = Len(builder[p]) + 1 /\ DOMAIN b = 1 .. Len(builder[p]) + 1
          /\ DOMAIN builder[p] = 1 .. Len(builder[p])
          /\ \A i \in 1 .. Len(builder[p]) : b[i] = builder[p][i]
          /\ b[Len(builder[p]) + 1] = packet
      BY <1>2, <1>7, <2>2
    <3> QED
      BY <1>7, <3>1
  <2> QED
    BY <1>4, <2>1, <2>2 DEF Observed
<1> HIDE DEF admitted
<1>9. /\ builder' \in [Peer -> Seq(Packets)] /\ reports' \subseteq Batches
      /\ NumbersHold' /\ BatchesFit'
      /\ \A x : NotedAt(underway', pending', chan', reports', builder', x) =>
                   \/ x \in underway' \/ NotedAt(underway, pending, chan, reports, builder, x)
                   \/ \E i \in DOMAIN b : x = b[i]
      /\ \A x : KnownAt(chan', reports', builder', x) =>
                   KnownAt(chan, reports, builder, x) \/ \E i \in DOMAIN b : x = b[i]
  <2>1. CASE Full(b)
    <3>1. b # <<>> /\ Len(b) <= PID_REPORT_BATCH
      BY <1>7, <1>8, <2>1 DEF Full
    <3>2. builder' = [builder EXCEPT ![p] = <<>>] /\ reports' = reports \cup {Report(p, b)}
      BY <1>5, <2>1
    <3> QED
      BY <1>5, <3>1, <3>2, ReportGoes
  <2>2. CASE ~Full(b)
    <3>1. builder' = [builder EXCEPT ![p] = b] /\ reports' = reports
      BY <1>5, <2>2
    <3>2. /\ builder' \in [Peer -> Seq(Packets)] /\ builder'[p] = b
          /\ \A q \in Peer \ {p} : builder'[q] = builder[q]
      BY <1>1, <3>1 DEF FeedbackTyped
    <3>3. NumbersHold'
      BY <1>1, <1>5, <3>1 DEF NumbersHold, Pid
    <3>4. BatchesFit'
      BY <1>1, <1>5, <1>7, <1>8, <2>2, <3>1, <3>2 DEF BatchesFit, Full
    <3>5. \A x : NotedAt(underway', pending', chan', reports', builder', x) =>
                   \/ x \in underway' \/ NotedAt(underway, pending, chan, reports, builder, x)
                   \/ \E i \in DOMAIN b : x = b[i]
      BY <1>5, <3>1, <3>2 DEF NotedAt
    <3>6. \A x : KnownAt(chan', reports', builder', x) =>
                   KnownAt(chan, reports, builder, x) \/ \E i \in DOMAIN b : x = b[i]
      BY <1>5, <3>1, <3>2 DEF KnownAt
    <3> QED
      BY <1>1, <3>1, <3>2, <3>3, <3>4, <3>5, <3>6 DEF FeedbackTyped
  <2> QED
    BY <2>1, <2>2
<1>10. Outstanding' \subseteq Outstanding
  <2> SUFFICES ASSUME NEW x, NotedAt(underway', pending', chan', reports', builder', x)
               PROVE  NotedAt(underway, pending, chan, reports, builder, x)
    BY NextOut
  <2>1. \A i \in DOMAIN b : b[i] = packet \/ NotedAt(underway, pending, chan, reports, builder, b[i])
    BY <1>8 DEF NotedAt
  <2>2. \/ x \in underway' \/ NotedAt(underway, pending, chan, reports, builder, x)
        \/ \E i \in DOMAIN b : x = b[i]
    BY <1>9, Zenon
  <2>3. \A y \in underway : NotedAt(underway, pending, chan, reports, builder, y)
    BY DEF NotedAt
  <2>4. underway' \subseteq underway
    BY <1>5
  <2> QED
    BY <2>1, <2>2, <2>3, <2>4, Zenon
<1>11. Came' \subseteq Came \cup {packet}
  <2> SUFFICES ASSUME NEW x, KnownAt(chan', reports', builder', x), x # packet
               PROVE  KnownAt(chan, reports, builder, x)
    BY NextOut
  <2>1. \A i \in DOMAIN b : b[i] = packet \/ KnownAt(chan, reports, builder, b[i])
    BY <1>8 DEF KnownAt
  <2>2. KnownAt(chan, reports, builder, x) \/ \E i \in DOMAIN b : x = b[i]
    BY <1>9, Zenon
  <2> QED
    BY <2>1, <2>2, Zenon
<1>12. SentBefore' /\ CloseBy'
  BY <1>5, <1>10, StillOut
<1>13. CameOnce'
  BY <1>1, <1>5, <1>11 DEF CameOnce
<1>14. FeedbackTyped'
  BY <1>1, <1>5, <1>6, <1>9 DEF FeedbackTyped, Windows
<1> QED
  BY <1>9, <1>12, <1>13, <1>14 DEF FeedbackIInv

LEMMA StepCollect == ASSUME FeedbackIInv, Collect PROVE FeedbackIInv'
<1>1. /\ FeedbackTyped /\ SentBefore /\ CloseBy /\ CameOnce /\ NumbersHold /\ BatchesFit
  BY DEF FeedbackIInv
<1>2. /\ UNCHANGED <<sent, base, window, builder, dropped, underway, reports, losses, restarts, lost>>
      /\ chan # <<>> /\ chan' = Tail(chan)
  BY DEF Collect, peers
<1>3. chan \in Seq(Events) /\ Len(chan) \in Nat /\ Len(chan) > 0 /\ DOMAIN chan = 1 .. Len(chan)
  BY <1>1, <1>2 DEF FeedbackTyped
<1>4. /\ chan' \in Seq(Events) /\ Len(chan') = Len(chan) - 1
      /\ DOMAIN chan' = 1 .. Len(chan) - 1
      /\ \A i \in 1 .. Len(chan) - 1 : chan'[i] = chan[i + 1]
  BY <1>2, <1>3
<1>5. \A i \in DOMAIN chan' : i + 1 \in DOMAIN chan /\ chan'[i] = chan[i + 1]
  BY <1>3, <1>4
<1>6. PICK event \in Events : event = chan[1] /\ event = Head(chan) /\ 1 \in DOMAIN chan
  BY <1>3
<1>7. /\ pending' \subseteq [pid : Int, packet : Packets]
      /\ \A e \in pending' : e \in pending \/ e = [pid |-> event.pid, packet |-> event.packet]
  <2>1. CASE event.kind = "sent"
    <3>1. pending' = {e \in pending : e.pid # event.pid}
                        \cup {[pid |-> event.pid, packet |-> event.packet]}
      BY <1>6, <2>1 DEF Collect
    <3>2. [pid |-> event.pid, packet |-> event.packet] \in [pid : Int, packet : Packets]
      BY DEF Events
    <3> QED
      BY <1>1, <3>1, <3>2 DEF FeedbackTyped
  <2>2. CASE event.kind = "ack"
    <3>1. pending' \subseteq pending
      BY <1>6, <2>2 DEF Collect, Acknowledged
    <3> QED
      BY <1>1, <3>1 DEF FeedbackTyped
  <2> QED
    BY <2>1, <2>2 DEF Events
<1>8. FeedbackTyped'
  BY <1>1, <1>2, <1>4, <1>7 DEF FeedbackTyped
<1>9. Outstanding' \subseteq Outstanding
  <2> SUFFICES ASSUME NEW x, NotedAt(underway', pending', chan', reports', builder', x)
               PROVE  NotedAt(underway, pending, chan, reports, builder, x)
    BY NextOut
  <2>1. \A e \in pending' : e \in pending \/ e.packet = chan[1].packet
    BY <1>6, <1>7
  <2> QED
    BY <1>2, <1>5, <1>6, <2>1 DEF NotedAt
<1>10. Came' \subseteq Came
  <2> SUFFICES ASSUME NEW x, KnownAt(chan', reports', builder', x)
               PROVE  KnownAt(chan, reports, builder, x)
    BY NextOut
  <2> QED
    BY <1>2, <1>5 DEF KnownAt
<1>11. SentBefore' /\ CloseBy'
  BY <1>2, <1>9, StillOut
<1>12. CameOnce'
  BY <1>1, <1>2, <1>10 DEF CameOnce
<1>13. NumbersHold'
  <2>1. \A e \in pending' : e.pid = Pid(e.packet)
    BY <1>1, <1>6, <1>7 DEF NumbersHold
  <2>2. \A i \in DOMAIN chan' : chan'[i].pid = Pid(chan'[i].packet)
    BY <1>1, <1>5 DEF NumbersHold
  <2> QED
    BY <1>1, <1>2, <2>1, <2>2 DEF NumbersHold, Pid
<1>14. BatchesFit'
  <2>1. Len(chan') <= channel_capacity
    BY <1>1, <1>3, <1>4, FeedbackAssumption DEF BatchesFit
  <2> QED
    BY <1>1, <1>2, <2>1 DEF BatchesFit
<1> QED
  BY <1>8, <1>11, <1>12, <1>13, <1>14 DEF FeedbackIInv

LEMMA StepSweep == ASSUME FeedbackIInv, Sweep PROVE FeedbackIInv'
<1>1. /\ FeedbackTyped /\ SentBefore /\ CloseBy /\ CameOnce /\ NumbersHold /\ BatchesFit
  BY DEF FeedbackIInv
<1>2. /\ UNCHANGED <<sent, base, chan, window, builder, dropped, underway, reports, losses, restarts, lost>>
      /\ pending' \subseteq pending
  BY DEF Sweep, peers
<1>3. FeedbackTyped'
  BY <1>1, <1>2 DEF FeedbackTyped
<1>4. Outstanding' \subseteq Outstanding
  <2> SUFFICES ASSUME NEW x, NotedAt(underway', pending', chan', reports', builder', x)
               PROVE  NotedAt(underway, pending, chan, reports, builder, x)
    BY NextOut
  <2> QED
    BY <1>2 DEF NotedAt
<1>5. Came' = Came
  BY <1>2 DEF Came
<1>6. SentBefore' /\ CloseBy'
  BY <1>2, <1>4, StillOut
<1> QED
  BY <1>1, <1>2, <1>3, <1>5, <1>6 DEF FeedbackIInv, CameOnce, NumbersHold, BatchesFit, Pid

LEMMA StepRestart == ASSUME FeedbackIInv, Restart PROVE FeedbackIInv'
<1>1. /\ FeedbackTyped /\ SentBefore
  BY DEF FeedbackIInv
<1>2. /\ base' = sent /\ chan' = <<>> /\ pending' = {} /\ underway' = {} /\ reports' = {}
      /\ builder' = [p \in Peer |-> <<>>] /\ restarts' = restarts + 1
      /\ UNCHANGED <<sent, window, lost>>
  BY DEF Restart
<1>3. FeedbackTyped'
  BY <1>1, <1>2 DEF FeedbackTyped
<1>4. Outstanding' = {}
  <2> SUFFICES ASSUME NEW x PROVE ~NotedAt(underway', pending', chan', reports', builder', x)
    BY NextOut
  <2> QED
    BY <1>2 DEF NotedAt
<1>5. Came' = {}
  <2> SUFFICES ASSUME NEW x PROVE ~KnownAt(chan', reports', builder', x)
    BY NextOut
  <2> QED
    BY <1>2 DEF KnownAt
<1>6. \A p \in Peer : sent[p] \in Nat
  BY <1>1 DEF FeedbackTyped
<1>7. SentBefore' /\ CloseBy' /\ CameOnce'
  BY <1>1, <1>2, <1>4, <1>5, <1>6 DEF SentBefore, CloseBy, CameOnce
<1>8. NumbersHold' /\ BatchesFit'
  BY <1>2, FeedbackAssumption DEF NumbersHold, BatchesFit
<1> QED
  BY <1>3, <1>7, <1>8 DEF FeedbackIInv

LEMMA FeedbackInitIInv == FeedbackInit => FeedbackIInv
<1> SUFFICES ASSUME FeedbackInit PROVE FeedbackIInv
  OBVIOUS
<1>1. /\ sent = [p \in Peer |-> 0] /\ base = sent /\ underway = {} /\ reports = {} /\ lost = {}
      /\ window = [p \in Peer |-> NewWindow] /\ builder = [p \in Peer |-> <<>>]
      /\ chan = <<>> /\ pending = {} /\ restarts = 0
  BY DEF FeedbackInit
<1>2. FeedbackTyped
  <2>1. NewWindow \in Windows
    BY DEF NewWindow, NoTop, Windows
  <2> QED
    BY <1>1, <2>1 DEF FeedbackTyped, Windows
<1>3. Outstanding = {}
  <2> SUFFICES ASSUME NEW x PROVE ~NotedAt(underway, pending, chan, reports, builder, x)
    BY NextOut
  <2> QED
    BY <1>1 DEF NotedAt
<1>4. Came = {}
  BY <1>3, CameOut
<1>5. SentBefore /\ CloseBy /\ CameOnce
  BY <1>1, <1>3, <1>4 DEF SentBefore, CloseBy, CameOnce
<1>6. NumbersHold /\ BatchesFit
  BY <1>1, FeedbackAssumption DEF NumbersHold, BatchesFit
<1> QED
  BY <1>2, <1>5, <1>6 DEF FeedbackIInv

LEMMA FeedbackStepIInv == FeedbackIInv /\ [FeedbackNext]_feedbackVars => FeedbackIInv'
<1> SUFFICES ASSUME FeedbackIInv, [FeedbackNext]_feedbackVars PROVE FeedbackIInv'
  OBVIOUS
<1>1. ASSUME NEW p \in Peer, Send(p) PROVE FeedbackIInv'
  BY <1>1, StepSend
<1>2. ASSUME NEW p \in Peer, ReportTick(p) PROVE FeedbackIInv'
  BY <1>2, StepReportTick
<1>3. ASSUME NEW packet \in underway, Receive(packet) PROVE FeedbackIInv'
  BY <1>3, StepReceive
<1>4. ASSUME NEW report \in reports, HandleReport(report) PROVE FeedbackIInv'
  BY <1>4, StepHandleReport
<1>5. CASE Lose
  BY <1>5, StepLose
<1>6. CASE Collect
  BY <1>6, StepCollect
<1>7. CASE Sweep
  BY <1>7, StepSweep
<1>8. CASE Restart
  BY <1>8, StepRestart
<1>9. CASE UNCHANGED feedbackVars
  <2>1. UNCHANGED <<sent, base, chan, pending, window, builder, underway, reports, restarts, lost>>
    BY <1>9 DEF feedbackVars, server, peers
  <2>2. Outstanding' = Outstanding /\ Came' = Came
    BY <2>1 DEF Outstanding, Came
  <2> QED
    BY <2>1, <2>2 DEF FeedbackIInv, FeedbackTyped, SentBefore, CloseBy, CameOnce, NumbersHold,
                      BatchesFit, Pid
<1> QED
  BY <1>1, <1>2, <1>3, <1>4, <1>5, <1>6, <1>7, <1>8, <1>9 DEF FeedbackNext

LEMMA FeedbackInductive == FeedbackSpec => []FeedbackIInv
BY FeedbackInitIInv, FeedbackStepIInv, PTL DEF FeedbackSpec

-----------------------------------------------------------------------------
(* Windows remember as many numbers as they are wide, reports are small,   *)
(* the channel is bounded.                                                 *)
THEOREM FeedbackTypeCorrect == FeedbackSpec => []FeedbackTypeOK
<1>1. FeedbackIInv => FeedbackTypeOK
  BY DEF FeedbackIInv, FeedbackTyped, BatchesFit, FeedbackTypeOK
<1> QED
  BY <1>1, FeedbackInductive, PTL

(* What is outstanding of one peer is too close together to share a number. *)
LEMMA SameNumber ==
    ASSUME FeedbackIInv, NEW x \in Outstanding, NEW y \in Outstanding, Pid(x) = Pid(y),
           x.peer = y.peer
    PROVE  x = y
<1>1. FeedbackTyped /\ CloseBy
  BY DEF FeedbackIInv
<1>2. x \in Packets /\ y \in Packets
  BY <1>1, PacketsOut
<1>3. x.peer = y.peer /\ x.peer \in Peer /\ x.n \in Nat /\ y.n \in Nat /\ base[x.peer] \in Nat
  BY <1>1, <1>2 DEF Packets, FeedbackTyped
<1>4. 2 * (x.n - y.n) < Numbers /\ 2 * (y.n - x.n) < Numbers
  BY <1>1, <1>3 DEF CloseBy
<1>5. PICK a \in Int, b \in Int : a = x.n - base[x.peer] /\ b = y.n - base[x.peer]
  BY <1>3
<1>6. a % Numbers = b % Numbers
  BY <1>3, <1>5 DEF Pid
<1>7. a - b < Numbers /\ b - a < Numbers
  BY <1>3, <1>4, <1>5, NumbersIs
<1>8. a = b
  BY <1>6, <1>7, NumbersAreTheirs
<1>9. x.n = y.n
  BY <1>3, <1>5, <1>8
<1> QED
  BY <1>2, <1>3, <1>9 DEF Packets

(* What has arrived stays so, as long as the server is not restarted.      *)
LEMMA ArrivedIs ==
    ASSUME FeedbackTyped, NEW x
    PROVE  x \in Arrived <=> /\ x \in Packets /\ base[x.peer] <= x.n /\ x.n < sent[x.peer]
                             /\ x \notin underway \cup lost
<1>1. \A p \in Peer : base[p] \in Nat /\ sent[p] \in Nat
  BY DEF FeedbackTyped
<1>2. x \in Arrived <=> /\ \E p \in Peer : \E n \in base[p] .. sent[p] - 1 : x = Numbered(p, n)
                        /\ x \notin underway \cup lost
  BY DEF Arrived
<1>3. ASSUME x \in Packets, base[x.peer] <= x.n, x.n < sent[x.peer]
      PROVE  \E p \in Peer : \E n \in base[p] .. sent[p] - 1 : x = Numbered(p, n)
  <2>1. x.peer \in Peer /\ x.n \in base[x.peer] .. sent[x.peer] - 1 /\ x = Numbered(x.peer, x.n)
    BY <1>1, <1>3 DEF Packets, Numbered
  <2> QED
    BY <2>1
<1>4. ASSUME NEW p \in Peer, NEW n \in base[p] .. sent[p] - 1, x = Numbered(p, n)
      PROVE  x \in Packets /\ base[x.peer] <= x.n /\ x.n < sent[x.peer]
  BY <1>1, <1>4 DEF Packets, Numbered
<1> QED
  BY <1>2, <1>3, <1>4

LEMMA ArrivedStays ==
    ASSUME FeedbackTyped, FeedbackTyped', base' = base,
           \A p \in Peer : sent[p] <= sent'[p],
           \A x \in underway' \cup lost' : x \in underway \cup lost \/ x.n >= sent[x.peer]
    PROVE  Arrived \subseteq Arrived'
<1> SUFFICES ASSUME NEW x \in Arrived PROVE x \in Arrived'
  OBVIOUS
<1>1. /\ x \in Packets /\ base[x.peer] <= x.n /\ x.n < sent[x.peer]
      /\ x \notin underway \cup lost
  BY ArrivedIs
<1>2. x.peer \in Peer /\ x.n \in Nat
  BY <1>1 DEF Packets
<1>3. sent[x.peer] \in Nat /\ sent'[x.peer] \in Nat /\ sent[x.peer] <= sent'[x.peer]
  BY <1>2 DEF FeedbackTyped
<1>4. x \notin underway' \cup lost'
  BY <1>1, <1>2, <1>3
<1>5. x \in Arrived' <=> /\ x \in Packets /\ base'[x.peer] <= x.n /\ x.n < sent'[x.peer]
                         /\ x \notin underway' \cup lost'
  <2>1. \A p \in Peer : base'[p] \in Nat /\ sent'[p] \in Nat
    BY DEF FeedbackTyped
  <2>2. x \in Arrived' <=> /\ \E p \in Peer : \E n \in base'[p] .. sent'[p] - 1 : x = Numbered(p, n)
                           /\ x \notin underway' \cup lost'
    BY DEF Arrived
  <2>3. x = Numbered(x.peer, x.n)
    BY <1>1 DEF Packets, Numbered
  <2> QED
    BY <1>1, <1>2, <1>3, <1>4, <2>1, <2>2, <2>3
<1> QED
  BY <1>1, <1>2, <1>3, <1>4, <1>5

LEMMA StepRows ==
    ASSUME FeedbackIInv, FeedbackIInv', RowsAreTrue, [FeedbackNext]_feedbackVars
    PROVE  RowsAreTrue'
<1>1. /\ FeedbackTyped /\ SentBefore /\ CameOnce /\ NumbersHold /\ FeedbackTyped'
  BY DEF FeedbackIInv
<1>2. ASSUME UNCHANGED <<rows, base>>, Arrived \subseteq Arrived' PROVE RowsAreTrue'
  BY <1>2 DEF RowsAreTrue, Pid
<1>t. \A p \in Peer : sent[p] \in Nat
  BY <1>1 DEF FeedbackTyped
<1>k. ASSUME UNCHANGED <<rows, base, sent>>, underway' \cup lost' \subseteq underway \cup lost
      PROVE  RowsAreTrue'
  <2>1. Arrived \subseteq Arrived'
    BY <1>1, <1>k, <1>t, ArrivedStays
  <2> QED
    BY <1>2, <1>k, <2>1
<1>3. ASSUME NEW p \in Peer, Send(p) PROVE RowsAreTrue'
  <2> DEFINE packet == Numbered(p, sent[p])
  <2>1. UNCHANGED <<rows, base, lost>> /\ underway' = underway \cup {packet}
        /\ sent' = [sent EXCEPT ![p] = @ + 1]
    BY <1>3 DEF Send
  <2>2. \A q \in Peer : sent[q] \in Nat /\ sent[q] <= sent'[q]
    BY <1>1, <2>1 DEF FeedbackTyped
  <2>3. packet.n >= sent[packet.peer]
    BY <2>2 DEF Numbered
  <2> HIDE DEF packet
  <2>4. Arrived \subseteq Arrived'
    BY <1>1, <2>1, <2>2, <2>3, ArrivedStays
  <2> QED
    BY <1>2, <2>1, <2>4
<1>4. CASE Collect
  <2>1. /\ UNCHANGED <<sent, base, underway, lost>> /\ chan # <<>>
    BY <1>4 DEF Collect
  <2>2. 1 \in DOMAIN chan /\ Head(chan) = chan[1]
    BY <1>1, <2>1 DEF FeedbackTyped
  <2>3. CASE chan[1].kind = "sent"
    <3>1. rows' = {}
      BY <1>4, <2>2, <2>3 DEF Collect
    <3> QED
      BY <3>1 DEF RowsAreTrue
  <2>4. CASE chan[1].kind = "ack"
    <3> DEFINE y == chan[1].packet
    <3>1. rows' = {Row(e.packet, TRUE) : e \in {f \in pending : f.pid = chan[1].pid}}
      BY <1>4, <2>2, <2>4 DEF Collect, Acknowledged
    <3>2. KnownAt(chan, reports, builder, y)
      BY <2>2, <2>4 DEF KnownAt
    <3>3. y \in Came
      BY <3>2, NextOut
    <3>4. y \in Outstanding /\ y \notin underway \cup lost
      BY <1>1, <3>3, CameOut DEF CameOnce
    <3>5. chan[1].pid = Pid(y)
      BY <1>1, <2>2 DEF NumbersHold
    <3> HIDE DEF y
    <3>6. y \in Packets /\ base[y.peer] <= y.n /\ y.n < sent[y.peer]
      BY <1>1, <3>4, PacketsOut DEF SentBefore
    <3>7. y \in Arrived
      BY <1>1, <3>4, <3>6, ArrivedIs
    <3>8. \A e \in pending : e.packet \in Outstanding
      BY NextOut DEF NotedAt
    <3>9. ASSUME NEW e \in pending, e.pid = chan[1].pid
          PROVE  Pid(y) = Pid(e.packet) /\ (y = e.packet \/ y.peer # e.packet.peer)
      <4>1. Pid(y) = Pid(e.packet)
        BY <1>1, <3>5, <3>9 DEF NumbersHold
      <4> QED
        BY <3>4, <3>8, <4>1, SameNumber
    <3>10. ASSUME NEW row \in rows'
           PROVE  Pid(y) = Pid(row.packet) /\ (y = row.packet \/ y.peer # row.packet.peer)
      <4>1. PICK e \in pending : e.pid = chan[1].pid /\ row = Row(e.packet, TRUE)
        BY <3>1
      <4> QED
        BY <3>9, <4>1 DEF Row
    <3>11. Arrived' = Arrived /\ \A x : Pid(x)' = Pid(x)
      BY <2>1 DEF Arrived, Numbered, Pid
    <3> QED
      BY <3>7, <3>10, <3>11, <2>1 DEF RowsAreTrue, Pid
  <2> QED
    BY <1>4, <2>2, <2>3, <2>4 DEF Collect
<1>5. CASE Sweep
  <2>1. \A row \in rows' : row.delivered = FALSE
    BY <1>5 DEF Sweep, Row
  <2> QED
    BY <2>1 DEF RowsAreTrue
<1>6. CASE Restart
  BY <1>6 DEF Restart, RowsAreTrue
<1>7. CASE Lose
  BY <1>k, <1>7 DEF Lose, server
<1>8. ASSUME NEW p \in Peer, ReportTick(p) PROVE RowsAreTrue'
  BY <1>k, <1>8 DEF ReportTick, server
<1>9. ASSUME NEW packet \in underway, Receive(packet) PROVE RowsAreTrue'
  BY <1>k, <1>9 DEF Receive, server
<1>10. ASSUME NEW report \in reports, HandleReport(report) PROVE RowsAreTrue'
  BY <1>k, <1>10 DEF HandleReport
<1>11. CASE UNCHANGED feedbackVars
  BY <1>k, <1>11 DEF feedbackVars, server
<1> QED
  BY <1>3, <1>4, <1>5, <1>6, <1>7, <1>8, <1>9, <1>10, <1>11 DEF FeedbackNext

(* For any number of clients, a row that says "delivered" follows from the *)
(* arrival of a packet with its number, and of no other of the same client: *)
(* what is outstanding of one client is too close together to share one.   *)
THEOREM RowsAreTrueHolds == FeedbackSpec => []RowsAreTrue
<1>1. FeedbackInit => RowsAreTrue
  BY DEF FeedbackInit, RowsAreTrue
<1>2. FeedbackIInv /\ FeedbackIInv' /\ RowsAreTrue /\ [FeedbackNext]_feedbackVars => RowsAreTrue'
  BY StepRows
<1> QED
  BY <1>1, <1>2, FeedbackInductive, PTL DEF FeedbackSpec

-----------------------------------------------------------------------------
(* Until the server is restarted the number a window stands at is that of a *)
(* packet of this round, and what is still on its way lies less than half  *)
(* a round from it and is not among the numbers seen.                      *)
StandsAt(p, t) ==
    /\ t < sent[p] /\ window[p].top = t % Numbers /\ 2 * (sent[p] - 1 - t) < Numbers
    /\ \A x \in underway : x.peer = p => t - x.n \notin window[p].seen

WindowsHold ==
    restarts = 0 =>
        /\ dropped = {} /\ \A p \in Peer : base[p] = 0
        /\ \A p \in Peer : window[p].top # NoTop => \E t \in Nat : StandsAt(p, t)
        /\ \A x \in underway : 2 * (sent[x.peer] - 1 - x.n) < Numbers

LEMMA WindowsAfterSend ==
    ASSUME FeedbackIInv, WindowsHold, restarts = 0, NEW p \in Peer, Send(p) PROVE WindowsHold'
<1>1. FeedbackTyped /\ SentBefore /\ WINDOW_BITS \in Nat
  BY FeedbackAssumption DEF FeedbackIInv
<1> DEFINE packet == Numbered(p, sent[p])
<1>2. /\ NotHalfRound(p)
      /\ sent' = [sent EXCEPT ![p] = @ + 1] /\ underway' = underway \cup {packet}
      /\ UNCHANGED <<base, window, dropped, restarts>>
  BY DEF Send, peers
<1>3. packet.peer = p /\ packet.n = sent[p] /\ sent[p] \in Nat /\ sent'[p] = sent[p] + 1
      /\ \A q \in Peer \ {p} : sent'[q] = sent[q]
  BY <1>1, <1>2 DEF Numbered, FeedbackTyped
<1> HIDE DEF packet
<1>4. \A x \in underway : x \in Packets /\ x \in Outstanding
  BY <1>1 DEF FeedbackTyped, Outstanding
<1>5. \A x \in underway' : 2 * (sent'[x.peer] - 1 - x.n) < Numbers
  <2> SUFFICES ASSUME NEW x \in underway' PROVE 2 * (sent'[x.peer] - 1 - x.n) < Numbers
    OBVIOUS
  <2>1. CASE x = packet
    BY <1>3, <2>1, NumbersIs
  <2>2. CASE x \in underway /\ x.peer = p
    <3>1. 2 * (sent[p] - x.n) < Numbers /\ x.n \in Nat
      BY <1>2, <1>4, <2>2 DEF NotHalfRound, Packets
    <3> QED
      BY <1>3, <2>2, <3>1, NumbersIs
  <2>3. CASE x \in underway /\ x.peer # p
    BY <1>3, <1>4, <2>3 DEF WindowsHold, Packets
  <2> QED
    BY <1>2, <2>1, <2>2, <2>3
<1>6. ASSUME NEW q \in Peer, window[q].top # NoTop
      PROVE  \E t \in Nat : StandsAt(q, t)'
  <2>1. PICK t \in Nat : StandsAt(q, t)
    BY <1>6 DEF WindowsHold
  <2>2. CASE q # p
    <3>1. StandsAt(q, t)'
      BY <1>2, <1>3, <2>1, <2>2 DEF StandsAt
    <3> QED
      BY <3>1
  <2>3. CASE q = p
    <3>1. Delta(Pid(Numbered(p, sent[p])), t % Numbers) > 0
      BY <1>2, <1>6, <2>1, <2>3 DEF NotHalfRound, StandsAt
    <3>2. Pid(Numbered(p, sent[p])) = sent[p] % Numbers
      <4>1. base[p] = 0 /\ sent[p] - 0 = sent[p]
        BY <1>3 DEF WindowsHold
      <4> QED
        BY <4>1 DEF Pid, Numbered
    <3>3. PICK d \in Int : d = sent[p] - t
      BY <1>3
    <3>4. 0 < d /\ 2 * (d - 1) < Numbers
      BY <1>3, <2>1, <2>3, <3>3 DEF StandsAt
    <3>5. d < Numbers
      BY <3>4, NumbersIs
    <3>6. d % Numbers = d
      <4>1. d \in 0 .. Numbers - 1
        BY <3>4, <3>5, NumbersIs
      <4> QED
        BY <3>3, <4>1, RestIs, Zenon
    <3>7. ((sent[p] % Numbers) - (t % Numbers)) % Numbers = d
      <4>1. ((sent[p] % Numbers) - (t % Numbers)) % Numbers = (sent[p] - t) % Numbers
        <5>1. sent[p] \in Int /\ t \in Int
          BY <1>3
        <5> QED
          BY <5>1, RestOfDifference, Zenon
      <4> QED
        BY <3>3, <3>6, <4>1
    <3>8. 2 * d < Numbers
      <4>1. Delta(sent[p] % Numbers, t % Numbers) = IF 2 * d >= Numbers THEN d - Numbers ELSE d
        BY <3>7 DEF Delta
      <4> QED
        BY <3>1, <3>2, <3>5, <4>1, NumbersIs
    <3>9. t - sent[p] \notin window[p].seen
      <4>1. window[p].seen \subseteq 0 .. WINDOW_BITS - 1
        BY <1>1 DEF FeedbackTyped
      <4> QED
        BY <1>1, <1>3, <3>3, <3>4, <4>1
    <3>10. StandsAt(p, t)'
      <4>1. t < sent'[p] /\ 2 * (sent'[p] - 1 - t) < Numbers
        BY <1>3, <3>3, <3>4, <3>8
      <4>2. \A x \in underway' : x.peer = p => t - x.n \notin window[p].seen
        BY <1>2, <1>3, <2>1, <2>3, <3>9 DEF StandsAt
      <4> QED
        BY <1>2, <2>1, <2>3, <4>1, <4>2 DEF StandsAt
    <3> QED
      BY <2>3, <3>10
  <2> QED
    BY <2>2, <2>3
<1> QED
  BY <1>2, <1>5, <1>6 DEF WindowsHold

LEMMA WindowsAfterReceive ==
    ASSUME FeedbackIInv, WindowsHold, restarts = 0, NEW packet \in underway, Receive(packet)
    PROVE  WindowsHold'
<1>1. FeedbackTyped /\ SentBefore /\ WINDOW_BITS \in Nat \ {0}
  BY FeedbackAssumption DEF FeedbackIInv
<1>2. packet \in Packets /\ packet \in Outstanding /\ \A x \in underway : x \in Packets
  BY <1>1 DEF FeedbackTyped, Outstanding
<1>3. PICK p \in Peer, n \in Nat : p = packet.peer /\ n = packet.n /\ packet = Numbered(p, n)
  BY <1>2 DEF Packets, Numbered
<1>0. PICK w \in Windows : w = window[p]
  BY <1>1 DEF FeedbackTyped, Windows
<1> DEFINE admitted == Admit(w, n % Numbers)
<1>4. n < sent[p] /\ sent[p] \in Nat /\ 2 * (sent[p] - 1 - n) < Numbers
  BY <1>1, <1>2, <1>3 DEF SentBefore, FeedbackTyped, WindowsHold
<1>5. Pid(packet) = n % Numbers
  <2>1. base[p] = 0 /\ n - 0 = n
    BY DEF WindowsHold
  <2> QED
    BY <1>3, <2>1 DEF Pid
<1>6. /\ UNCHANGED <<sent, base, restarts>> /\ underway' = underway \ {packet}
      /\ window' = [window EXCEPT ![p] = admitted.window]
      /\ dropped' = IF admitted.new THEN dropped ELSE dropped \cup {packet}
  BY <1>0, <1>3, <1>5 DEF Receive, server
<1>7. window'[p] = admitted.window /\ \A q \in Peer \ {p} : window'[q] = window[q]
  BY <1>1, <1>6 DEF FeedbackTyped
<1>8. w.seen \subseteq 0 .. WINDOW_BITS - 1
  BY DEF Windows
<1>9. \A x \in underway' : x.peer = p => x \in Packets /\ x.n \in Nat /\ x.n # n /\ x \in underway
  BY <1>2, <1>3, <1>6 DEF Packets, Numbered
<1> DEFINE Fine(t) == /\ admitted.new
                      /\ t < sent[p] /\ admitted.window.top = t % Numbers
                      /\ 2 * (sent[p] - 1 - t) < Numbers
                      /\ \A x \in underway' : x.peer = p => t - x.n \notin admitted.window.seen
<1>10. \E t \in Nat : Fine(t)
  <2>1. CASE w.top = NoTop
    <3>1. admitted = [new |-> TRUE, window |-> [top |-> n % Numbers, seen |-> {0}]]
      BY <2>1 DEF Admit
    <3>2. \A x \in underway' : x.peer = p => n - x.n # 0
      BY <1>9
    <3> HIDE DEF admitted
    <3>3. Fine(n)
      BY <1>4, <3>1, <3>2
    <3> QED
      BY <3>3
  <2>2. CASE w.top # NoTop
    <3>1. PICK t \in Nat : StandsAt(p, t)
      BY <1>0, <2>2 DEF WindowsHold
    <3>2. PICK d \in Int : d = n - t
      OBVIOUS
    <3>4. \A x \in underway : x.peer = p => t - x.n \notin w.seen
      BY <1>0, <3>1 DEF StandsAt
    <3>5. t < sent[p] /\ w.top = t % Numbers /\ 2 * (sent[p] - 1 - t) < Numbers
      BY <1>0, <3>1 DEF StandsAt
    <3>3. d = Delta(n % Numbers, w.top)
      <4>1. 2 * (n - t) < Numbers /\ 2 * (t - n) < Numbers
        BY <1>4, <3>5, NumbersIs
      <4> QED
        BY <3>2, <3>5, <4>1, DeltaIs
    <3>6. CASE d > 0
      <4>1. admitted = [new |-> TRUE, window |-> [top |-> n % Numbers,
                                                  seen |-> Shifted(w.seen, d) \cup {0}]]
        BY <2>2, <3>3, <3>6 DEF Admit
      <4>2. ASSUME NEW x \in underway', x.peer = p
            PROVE  n - x.n \notin Shifted(w.seen, d) \cup {0}
        <5>1. x.n \in Nat /\ x.n # n /\ t - x.n \notin w.seen
          BY <1>9, <3>4, <4>2
        <5>2. (n - x.n) - d = t - x.n
          BY <3>2, <5>1
        <5> QED
          BY <5>1, <5>2 DEF Shifted
      <4> HIDE DEF admitted
      <4>3. Fine(n)
        BY <1>4, <4>1, <4>2
      <4> QED
        BY <4>3
    <3>7. CASE d <= 0 /\ -d >= WINDOW_BITS
      <4>1. admitted = [new |-> TRUE, window |-> w]
        BY <2>2, <3>3, <3>7 DEF Admit
      <4> HIDE DEF admitted
      <4>2. Fine(t)
        BY <1>9, <3>4, <3>5, <4>1
      <4> QED
        BY <4>2
    <3>8. CASE d <= 0 /\ -d < WINDOW_BITS
      <4>1. admitted = [new |-> -d \notin w.seen, window |-> [w EXCEPT !.seen = @ \cup {-d}]]
        <5>1. ~(d > 0) /\ ~(-d >= WINDOW_BITS)
          BY <1>1, <3>2, <3>8
        <5> QED
          BY <2>2, <3>3, <5>1 DEF Admit
      <4>2. -d = t - n /\ -d \notin w.seen
        <5>1. t - packet.n \notin w.seen /\ packet.n = n
          BY <1>3, <3>4
        <5>2. -d = t - n
          BY <3>2
        <5> QED
          BY <5>1, <5>2
      <4>3. [w EXCEPT !.seen = @ \cup {-d}] = [top |-> w.top, seen |-> w.seen \cup {-d}]
        BY <1>8 DEF Windows
      <4>4. \A x \in underway' : x.peer = p => t - x.n \notin w.seen \cup {-d}
        BY <1>9, <3>4, <4>2
      <4> HIDE DEF admitted
      <4>5. Fine(t)
        BY <3>5, <4>1, <4>2, <4>3, <4>4
      <4> QED
        BY <4>5
    <3> QED
      BY <1>1, <3>6, <3>7, <3>8
  <2> QED
    BY <2>1, <2>2
<1>11. PICK t \in Nat : Fine(t)
  BY <1>10
<1> HIDE DEF admitted
<1>12. StandsAt(p, t)'
  BY <1>6, <1>7, <1>11 DEF StandsAt
<1>13. ASSUME NEW q \in Peer, q # p, window[q].top # NoTop
       PROVE  \E u \in Nat : StandsAt(q, u)'
  <2>1. PICK u \in Nat : StandsAt(q, u)
    BY <1>13 DEF WindowsHold
  <2>2. StandsAt(q, u)'
    BY <1>6, <1>7, <1>13, <2>1 DEF StandsAt
  <2> QED
    BY <2>2
<1>14. dropped' = {} /\ \A q \in Peer : base'[q] = 0
  BY <1>6, <1>11 DEF WindowsHold
<1>15. \A q \in Peer : window'[q].top # NoTop => \E u \in Nat : StandsAt(q, u)'
  BY <1>7, <1>12, <1>13
<1>16. \A x \in underway' : 2 * (sent'[x.peer] - 1 - x.n) < Numbers
  BY <1>6 DEF WindowsHold
<1> QED
  BY <1>14, <1>15, <1>16 DEF WindowsHold

LEMMA StepWindows ==
    ASSUME FeedbackIInv, WindowsHold, [FeedbackNext]_feedbackVars PROVE WindowsHold'
<1>1. CASE UNCHANGED <<sent, base, window, dropped, restarts>> /\ underway' \subseteq underway
  <2>1. \A p \in Peer, t \in Nat : StandsAt(p, t) => StandsAt(p, t)'
    BY <1>1 DEF StandsAt
  <2> QED
    BY <1>1, <2>1 DEF WindowsHold
<1>2. restarts \in Nat
  BY DEF FeedbackIInv, FeedbackTyped
<1>3. CASE restarts' # 0
  BY <1>3 DEF WindowsHold
<1>4. ASSUME NEW p \in Peer, Send(p) PROVE WindowsHold'
  BY <1>3, <1>4, WindowsAfterSend DEF Send
<1>5. ASSUME NEW packet \in underway, Receive(packet) PROVE WindowsHold'
  BY <1>3, <1>5, WindowsAfterReceive DEF Receive
<1>6. CASE Restart
  BY <1>2, <1>3, <1>6 DEF Restart
<1>7. CASE Lose
  BY <1>1, <1>7 DEF Lose, server, peers
<1>8. ASSUME NEW p \in Peer, ReportTick(p) PROVE WindowsHold'
  BY <1>1, <1>8 DEF ReportTick, server
<1>9. ASSUME NEW report \in reports, HandleReport(report) PROVE WindowsHold'
  BY <1>1, <1>9 DEF HandleReport, peers
<1>10. CASE Collect
  BY <1>1, <1>10 DEF Collect, peers
<1>11. CASE Sweep
  BY <1>1, <1>11 DEF Sweep, peers
<1>12. CASE UNCHANGED feedbackVars
  BY <1>1, <1>12 DEF feedbackVars, server, peers
<1> QED
  BY <1>4, <1>5, <1>6, <1>7, <1>8, <1>9, <1>10, <1>11, <1>12 DEF FeedbackNext

(* However often the numbers come round, and in whatever order packets     *)
(* arrive, none is taken for one that was received before while the server *)
(* is not restarted.                                                       *)
THEOREM NoneTakenForOldHolds == FeedbackSpec => []NoneTakenForOld
<1>1. FeedbackInit => WindowsHold
  BY DEF FeedbackInit, WindowsHold, NewWindow
<1>2. FeedbackIInv /\ WindowsHold /\ [FeedbackNext]_feedbackVars => WindowsHold'
  BY StepWindows
<1>3. WindowsHold => NoneTakenForOld
  BY DEF WindowsHold, NoneTakenForOld
<1> QED
  BY <1>1, <1>2, <1>3, FeedbackInductive, PTL DEF FeedbackSpec

=============================================================================
