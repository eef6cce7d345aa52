---------------------------- MODULE RelaysProofs ----------------------------
(***************************************************************************)
(* Proofs about the relays and the holes through them, for any number of   *)
(* relays, ports, holes and tokens.                                        *)
(***************************************************************************)
EXTENDS Relays, FiniteSetTheorems, WellFoundedInduction, TLAPS

(* Of the type invariant, what the holes and the sessions are about.       *)
HolesTyped ==
    /\ up \subseteq Relay /\ public \subseteq Relay
    /\ mine \in [Hole -> Mine \cup {None}]
    /\ theirs \in [Hole -> Theirs \cup {None}]
    /\ pending \in [Token -> Hole \cup {None}] /\ wire \in [Token -> Message \cup {None}]
    /\ sessions \in [Relay -> [SessionPort -> Hole \cup {None}]]

(* The order of a token: the hole it was given for still waits, no other   *)
(* token is about that hole, and what is on the wire is about it.  A        *)
(* session the relay answers with is that hole's.                          *)
OrderFits(t) ==
    /\ pending[t] # None =>
          /\ Waits(pending[t], "opening") /\ theirs[pending[t]].route \in Relay
          /\ \A u \in Token : pending[u] = pending[t] => u = t
    /\ Is(t, "open") => wire[t].hole \in Hole
    /\ Is(t, "ready") => wire[t].port \in SessionPort
    /\ wire[t] # None /\ pending[t] # None =>
          /\ wire[t].relay = theirs[pending[t]].route
          /\ Is(t, "open") => wire[t].hole = pending[t]
          /\ Is(t, "ready") /\ ~theirs[pending[t]].orphan =>
                sessions[wire[t].relay][wire[t].port] = pending[t]

(* A hole with a session has the session that leads to it; a hole that is  *)
(* live at the client is live at the server.                               *)
HoleFits(h) ==
    /\ Live(h) => Waits(h, "live")
    /\ (Offered(h) \/ Waits(h, "live")) /\ theirs[h].route # Direct =>
          /\ theirs[h].port \in SessionPort
          /\ ~theirs[h].orphan => sessions[theirs[h].route][theirs[h].port] = h

AllFit == (\A t \in Token : OrderFits(t)) /\ (\A h \in Hole : HoleFits(h))

HInv == HolesTyped /\ AllFit

(* The rest of the type invariant: the grants, the list of bad paths.      *)
OthersTyped ==
    /\ reach \subseteq Route /\ alive \subseteq Relay /\ last \in Lists \cup {None}
    /\ offers \in [Lists -> 0 .. ANNOUNCE_COPIES] /\ grant \in Lists
    /\ banned \subseteq Route /\ next_relay \in 0 .. Turns - 1
    /\ troubles \in 0 .. MaxTroubles

IInv == HInv /\ OthersTyped

-----------------------------------------------------------------------------
(* Folds over a sequence.  The library's induction takes a predicate as a  *)
(* parameter; here it is about a set.                                      *)

LEMMA SetInduction ==
    ASSUME NEW T \in SUBSET Nat, 0 \in T, \A n \in T : n + 1 \in T
    PROVE  T = Nat
<1> SUFFICES ASSUME Nat \ T # {}
             PROVE  FALSE
  OBVIOUS
<1> DEFINE Less == OpToRel(<, Nat)
<1>1. IsWellFoundedOn(Less, Nat)
  BY NatLessThanWellFounded
<1>2. PICK m \in Nat \ T : \A n \in Nat \ T : <<n, m>> \notin Less
  <2> HIDE DEF Less
  <2> QED
    BY <1>1, WFMin, Nat \ T \subseteq Nat, Zenon
<1>0. m \in Nat /\ m # 0
  BY <1>2
<1>3. m - 1 \in Nat /\ m - 1 < m
  BY <1>0
<1>4. m - 1 \in Nat \ T
  <2>1. ASSUME m - 1 \in T
        PROVE  m \in T
    <3>1. m - 1 + 1 \in T
      BY <2>1
    <3>2. m - 1 + 1 = m
      BY <1>0
    <3> QED
      BY <3>1, <3>2
  <2> QED
    BY <1>2, <1>3, <2>1
<1>5. <<m - 1, m>> \in Less
  BY <1>2, <1>3 DEF OpToRel
<1> QED
  BY <1>2, <1>4, <1>5

HasMax(t) == \E x \in t : \A y \in t : x >= y

LEMMA MaxIs ==
    ASSUME NEW n \in Nat, NEW s \in SUBSET (1 .. n), s # {}
    PROVE  Max(s) \in s /\ \A x \in s : Max(s) >= x
<1> DEFINE T == {m \in Nat : \A t \in SUBSET (1 .. m) : t # {} => HasMax(t)}
<1>1. 0 \in T
  <2>1. 1 .. 0 = {}
    OBVIOUS
  <2> QED
    BY <2>1
<1>2. ASSUME NEW m \in T
      PROVE  m + 1 \in T
  <2>1. m \in Nat /\ m + 1 \in Nat /\ \A t \in SUBSET (1 .. m) : t # {} => HasMax(t)
    OBVIOUS
  <2>2. ASSUME NEW t \in SUBSET (1 .. m + 1), t # {}
        PROVE  HasMax(t)
    <3>1. CASE m + 1 \in t
      BY <2>1, <3>1 DEF HasMax
    <3>2. CASE m + 1 \notin t
      <4>1. t \in SUBSET (1 .. m)
        BY <2>1, <3>2
      <4> QED
        BY <2>1, <2>2, <4>1
    <3> QED
      BY <3>1, <3>2
  <2> QED
    BY <2>1, <2>2
<1>3. T = Nat
  <2>1. T \in SUBSET Nat
    OBVIOUS
  <2> HIDE DEF T
  <2> QED
    BY <1>1, <1>2, <2>1, SetInduction
<1>4. HasMax(s)
  BY <1>3
<1> QED
  BY <1>4 DEF Max, HasMax

(* f is what the fold computes for each part of the places 1 .. n.          *)
FoldOf(f, n, b, Step) ==
    \A s \in SUBSET (1 .. n) :
        f[s] = IF s = {} THEN b ELSE Step[<<f[s \ {Max(s)}], Max(s)>>]

HasFold(n, S, b, Step) == \E f \in [SUBSET (1 .. n) -> S] : FoldOf(f, n, b, Step)

(* A step that stays in a set can be taken once for every place, in order. *)
LEMMA FoldExists ==
    ASSUME NEW n \in Nat, NEW S, NEW b \in S, NEW Step \in [S \X (1 .. n) -> S]
    PROVE  HasFold(n, S, b, Step)
<1> DEFINE T == {m \in Nat : m <= n => HasFold(m, S, b, Step)}
<1>1. 0 \in T
  <2>1. FoldOf([s \in SUBSET (1 .. 0) |-> b], 0, b, Step)
    BY DEF FoldOf
  <2> QED
    BY <2>1 DEF HasFold
<1>2. ASSUME NEW m \in T
      PROVE  m + 1 \in T
  <2>0. m \in Nat /\ m + 1 \in Nat
    OBVIOUS
  <2> SUFFICES ASSUME m + 1 <= n
               PROVE  HasFold(m + 1, S, b, Step)
    BY <2>0
  <2>1. PICK f \in [SUBSET (1 .. m) -> S] : FoldOf(f, m, b, Step)
    <3>1. m <= n
      BY <2>0
    <3>2. HasFold(m, S, b, Step)
      BY <3>1
    <3> QED
      BY <3>2 DEF HasFold
  <2> DEFINE g == [s \in SUBSET (1 .. m + 1) |->
                      IF m + 1 \in s THEN Step[<<f[s \ {m + 1}], m + 1>>] ELSE f[s]]
  <2>2. ASSUME NEW s \in SUBSET (1 .. m + 1), m + 1 \in s
        PROVE  /\ Max(s) = m + 1 /\ s \ {m + 1} \in SUBSET (1 .. m)
               /\ g[s] = Step[<<g[s \ {Max(s)}], Max(s)>>] /\ g[s] \in S
    <3>1. Max(s) \in s /\ Max(s) >= m + 1
      BY <2>0, <2>2, MaxIs
    <3>2. Max(s) = m + 1
      <4>1. Max(s) \in 1 .. m + 1
        BY <3>1
      <4> QED
        BY <2>0, <3>1, <4>1
    <3>3. s \ {m + 1} \in SUBSET (1 .. m)
      BY <2>0
    <3>4. f[s \ {m + 1}] \in S /\ <<f[s \ {m + 1}], m + 1>> \in S \X (1 .. n)
      BY <2>0, <2>1, <3>3
    <3>5. g[s \ {m + 1}] = f[s \ {m + 1}] /\ g[s] = Step[<<f[s \ {m + 1}], m + 1>>]
      BY <2>2, <3>3
    <3> QED
      BY <3>2, <3>3, <3>4, <3>5
  <2>3. ASSUME NEW s \in SUBSET (1 .. m + 1), m + 1 \notin s
        PROVE  /\ s \in SUBSET (1 .. m) /\ g[s] = f[s] /\ g[s] \in S
               /\ g[s] = IF s = {} THEN b ELSE Step[<<g[s \ {Max(s)}], Max(s)>>]
    <3>1. s \in SUBSET (1 .. m)
      BY <2>0, <2>3
    <3>2. g[s] = f[s] /\ g[s \ {Max(s)}] = f[s \ {Max(s)}]
      BY <2>3, <3>1
    <3> QED
      BY <2>1, <3>1, <3>2 DEF FoldOf
  <2>4. g \in [SUBSET (1 .. m + 1) -> S]
    <3> HIDE DEF g
    <3>1. \A s \in SUBSET (1 .. m + 1) : g[s] \in S
      BY <2>2, <2>3
    <3> QED
      BY <3>1 DEF g
  <2>5. FoldOf(g, m + 1, b, Step)
    <3> HIDE DEF g
    <3> QED
      BY <2>2, <2>3 DEF FoldOf
  <2> QED
    BY <2>4, <2>5 DEF HasFold
<1>3. T = Nat
  <2>1. T \in SUBSET Nat
    OBVIOUS
  <2> HIDE DEF T
  <2> QED
    BY <1>1, <1>2, <2>1, SetInduction
<1> QED
  BY <1>3

-----------------------------------------------------------------------------
USE NoneAssumption

LEMMA KnockRelayKeeps ==
    ASSUME HInv, NEW h \in Hole, NEW t \in Token, KnockRelay(h, t)
    PROVE  HInv'
<1>0. mine[h].route \in Relay
  BY DEF KnockRelay, HInv, HolesTyped
<1>1. PICK g \in Theirs, m \in Message :
        /\ theirs' = [theirs EXCEPT ![h] = g] /\ pending' = [pending EXCEPT ![t] = h]
        /\ wire' = [wire EXCEPT ![t] = m]
        /\ g.stage = "opening" /\ g.route \in Relay
        /\ m.kind = "open" /\ m.hole = h /\ m.relay = g.route
  <2>1. PICK r \in Relay : r = mine[h].route
    BY <1>0
  <2> DEFINE g == [route |-> r, stage |-> "opening", port |-> None, orphan |-> FALSE]
             m == [kind |-> "open", relay |-> r, hole |-> h, port |-> None]
  <2>2. g \in Theirs /\ m \in Message
    BY DEF Theirs, Message, Route
  <2> QED
    BY <2>1, <2>2 DEF KnockRelay
<1>2. /\ theirs[h] = None /\ ~Live(h) /\ pending[t] = None /\ wire[t] = None
      /\ UNCHANGED <<up, public, mine, sessions>>
  BY DEF KnockRelay, Knocks, Asking, Live, world, clientVars, announceVars, HInv, HolesTyped
<1>3. HolesTyped'
  BY <1>1, <1>2 DEF HInv, HolesTyped, clientVars, Mine, Asking
<1>4. ASSUME NEW u \in Token
      PROVE  OrderFits(u)'
  <2>1. OrderFits(u) /\ pending[u] # h /\ h # None /\ m # None /\ g # None
    BY <1>2 DEF HInv, AllFit, OrderFits, Waits
  <2>2. ASSUME NEW v \in Token
        PROVE  pending'[v] = IF v = t THEN h ELSE pending[v]
    BY <1>1 DEF HInv, HolesTyped
  <2>3. \A v \in Token : pending[v] # h
    BY <1>2 DEF HInv, AllFit, OrderFits, Waits
  <2>4. CASE u = t
    BY <1>1, <1>2, <1>3, <2>1, <2>2, <2>3, <2>4 DEF OrderFits, Waits, Is, HInv, HolesTyped
  <2>5. CASE u # t
    <3>1. wire'[u] = wire[u] /\ pending'[u] = pending[u]
      BY <1>1, <2>5 DEF HInv, HolesTyped
    <3>2. pending[u] # None => theirs'[pending[u]] = theirs[pending[u]]
      BY <1>1, <2>1 DEF HInv, HolesTyped
    <3> QED
      BY <1>2, <2>1, <2>2, <2>3, <3>1, <3>2 DEF OrderFits, Waits, Is
  <2> QED
    BY <2>4, <2>5
<1>5. ASSUME NEW i \in Hole
      PROVE  HoleFits(i)'
  <2>1. theirs'[i] = IF i = h THEN g ELSE theirs[i]
    BY <1>1 DEF HInv, HolesTyped
  <2> QED
    BY <1>1, <1>2, <2>1 DEF HInv, AllFit, HoleFits, Waits, Live, Offered
<1> QED
  BY <1>3, <1>4, <1>5 DEF HInv, AllFit

(* The port was free: no hole is led to another one by the new session.    *)
LEMMA OpenSessionKeeps ==
    ASSUME HInv, NEW t \in Token, OpenSession(t)
    PROVE  HInv'
<1>2. UNCHANGED <<up, public, mine, theirs, pending>> /\ wire[t] \in Message /\ Is(t, "open")
  BY DEF HInv, HolesTyped, OpenSession, clientVars, world, announceVars, Is
<1>3. CASE wire' = [wire EXCEPT ![t] = None] /\ UNCHANGED sessions
  <2>1. ASSUME NEW u \in Token
        PROVE  OrderFits(u)'
    BY <1>2, <1>3 DEF HInv, HolesTyped, AllFit, OrderFits, Waits, Is
  <2>2. ASSUME NEW i \in Hole
        PROVE  HoleFits(i)'
    BY <1>2, <1>3 DEF HInv, AllFit, HoleFits, Waits, Live, Offered
  <2>3. HolesTyped'
    BY <1>2, <1>3 DEF HInv, HolesTyped, clientVars, Mine, Asking
  <2> QED
    BY <2>1, <2>2, <2>3 DEF HInv, AllFit
<1>4. CASE wire'[t] # None
  <2>0. wire[t].relay \in Relay /\ wire[t].hole \in Hole
    BY <1>2 DEF HInv, AllFit, OrderFits, Message
  <2>1. PICK r \in Relay, q \in SessionPort, g \in Hole :
          /\ r = wire[t].relay /\ g = wire[t].hole /\ sessions[r][q] = None
          /\ sessions' = [sessions EXCEPT ![r][q] = g]
          /\ wire' = [wire EXCEPT ![t].kind = "ready", ![t].hole = None, ![t].port = q]
    <3>1. wire' # [wire EXCEPT ![t] = None]
      BY <1>4 DEF HInv, HolesTyped
    <3> QED
      BY <2>0, <3>1 DEF OpenSession
  <2>2. /\ wire'[t].kind = "ready" /\ wire'[t].relay = r /\ wire'[t].port = q
        /\ \A u \in Token : u # t => wire'[u] = wire[u]
        /\ sessions'[r][q] = g
        /\ \A a \in Relay, b \in SessionPort : <<a, b>> # <<r, q>> => sessions'[a][b] = sessions[a][b]
    BY <1>2, <2>1 DEF HInv, HolesTyped, Message
  <2>3. ASSUME NEW u \in Token
        PROVE  OrderFits(u)'
    <3>1. OrderFits(u) /\ OrderFits(t) /\ theirs \in [Hole -> Theirs \cup {None}]
          /\ pending \in [Token -> Hole \cup {None}] /\ wire[u] \in Message \cup {None}
      BY DEF HInv, AllFit, HolesTyped
    <3>2. CASE u = t
      BY <1>2, <2>1, <2>2, <3>1, <3>2 DEF OrderFits, Waits, Is
    <3>3. CASE u # t
      <4>1. UNCHANGED <<Is(u, "open"), Is(u, "ready"), wire[u]>>
        BY <2>2, <3>3 DEF Is
      <4>2. Is(u, "ready") => wire[u].relay \in Relay
        BY <3>1 DEF Is, Message
      <4>3. Is(u, "ready") /\ pending[u] # None /\ ~theirs[pending[u]].orphan
              => <<wire[u].relay, wire[u].port>> # <<r, q>>
        BY <2>1, <3>1 DEF OrderFits, Is
      <4> QED
        BY <1>2, <2>2, <3>1, <4>1, <4>2, <4>3 DEF OrderFits, Waits
    <3> QED
      BY <3>2, <3>3
  <2>4. ASSUME NEW i \in Hole
        PROVE  HoleFits(i)'
    <3>1. HoleFits(i) /\ theirs[i] \in Theirs \cup {None}
      BY DEF HInv, AllFit, HolesTyped
    <3>2. theirs[i] # None /\ theirs[i].route # Direct => theirs[i].route \in Relay
      BY <3>1 DEF Theirs, Route
    <3> QED
      BY <1>2, <2>1, <2>2, <3>1, <3>2 DEF HoleFits, Waits, Live, Offered
  <2>5. HolesTyped'
    <3>1. wire'[t] \in Message
      BY <1>2, <2>1 DEF HInv, HolesTyped, Message
    <3> QED
      BY <1>2, <2>1, <3>1 DEF HInv, HolesTyped
  <2> QED
    BY <2>3, <2>4, <2>5 DEF HInv, AllFit
<1>5. wire'[t] # None \/ (wire' = [wire EXCEPT ![t] = None] /\ UNCHANGED sessions)
  <2>1. ASSUME NEW q, wire' = [wire EXCEPT ![t].kind = "ready", ![t].hole = None, ![t].port = q],
               q \in SessionPort
        PROVE  wire'[t] \in Message
    BY <1>2, <2>1 DEF HInv, HolesTyped, Message
  <2> QED
    BY <2>1 DEF OpenSession
<1> QED
  BY <1>3, <1>4, <1>5

(* An answer nobody waits for changes nothing; one that is waited for is    *)
(* about the hole that waits.                                              *)
LEMMA ReadyKeeps ==
    ASSUME HInv, NEW t \in Token, Ready(t)
    PROVE  HInv'
<1>1. /\ UNCHANGED <<up, public, mine, sessions>> /\ wire' = [wire EXCEPT ![t] = None]
      /\ wire[t] \in Message /\ Is(t, "ready") /\ wire[t].port \in SessionPort
  BY DEF HInv, HolesTyped, AllFit, OrderFits, Ready, clientVars, world, announceVars, Is
<1>2. CASE UNCHANGED <<theirs, pending>>
  BY <1>1, <1>2 DEF HInv, HolesTyped, AllFit, OrderFits, HoleFits, Waits, Is, Live, Offered
<1>3. CASE Answered(t) # {}
  <2>1. PICK h \in Hole, q \in SessionPort :
          /\ h = pending[t] /\ q = wire[t].port
          /\ theirs' = [theirs EXCEPT ![h].stage = "offered", ![h].port = q]
          /\ pending' = [pending EXCEPT ![t] = None]
    BY <1>1, <1>3 DEF Ready, Answered, Forgotten, HInv, HolesTyped
  <2>2. /\ theirs[h] \in Theirs /\ Waits(h, "opening") /\ theirs[h].route \in Relay
        /\ ~theirs[h].orphan => sessions[theirs[h].route][q] = h
        /\ \A u \in Token : pending[u] = h => u = t
    BY <1>1, <2>1 DEF HInv, HolesTyped, AllFit, OrderFits, Waits
  <2>3. /\ theirs' \in [Hole -> Theirs \cup {None}]
        /\ theirs'[h].stage = "offered" /\ theirs'[h].port = q /\ theirs'[h] # None
        /\ theirs'[h].route = theirs[h].route /\ theirs'[h].orphan = theirs[h].orphan
        /\ \A i \in Hole : i # h => theirs'[i] = theirs[i]
    <3>1. PICK x : x = [theirs[h] EXCEPT !.stage = "offered", !.port = q]
      OBVIOUS
    <3>2. /\ x \in Theirs /\ x.stage = "offered" /\ x.port = q
          /\ x.route = theirs[h].route /\ x.orphan = theirs[h].orphan
      BY <2>2, <3>1 DEF Theirs
    <3>3. theirs' = [theirs EXCEPT ![h] = x]
      BY <2>1, <3>1
    <3>4. theirs \in [Hole -> Theirs \cup {None}] /\ x # None
      BY <3>2, NoneAssumption DEF HInv, HolesTyped
    <3> QED
      BY <3>2, <3>3, <3>4
  <2>4. HolesTyped'
    BY <1>1, <2>1, <2>3 DEF HInv, HolesTyped, clientVars, Mine, Asking
  <2>5. ASSUME NEW u \in Token
        PROVE  OrderFits(u)'
    <3>1. OrderFits(u) /\ pending[u] \in Hole \cup {None} /\ \A v \in Token : pending'[v] \in {pending[v], None}
      BY <2>1 DEF HInv, AllFit, HolesTyped
    <3>2. CASE u = t
      <4>1. pending'[t] = None /\ wire'[t] = None
        BY <1>1, <2>1 DEF HInv, HolesTyped
      <4> QED
        BY <3>2, <4>1 DEF OrderFits, Is
    <3>3. CASE u # t
      <4>1. pending'[u] = pending[u] /\ wire'[u] = wire[u] /\ pending[u] # h
        BY <1>1, <2>1, <2>2, <3>3 DEF HInv, HolesTyped
      <4>2. pending[u] # None => theirs'[pending[u]] = theirs[pending[u]]
        BY <2>3, <3>1, <4>1
      <4> QED
        BY <1>1, <3>1, <4>1, <4>2 DEF OrderFits, Is, Waits
    <3> QED
      BY <3>2, <3>3
  <2>6. ASSUME NEW i \in Hole
        PROVE  HoleFits(i)'
    BY <1>1, <2>2, <2>3 DEF HInv, AllFit, HoleFits, Waits, Live, Offered
  <2> QED
    BY <2>4, <2>5, <2>6 DEF HInv, AllFit
<1> QED
  BY <1>2, <1>3 DEF Ready

LEMMA SessionIdleKeeps ==
    ASSUME HInv, NEW r \in Relay, NEW q \in SessionPort, SessionIdle(r, q)
    PROVE  HInv'
<1>1. HolesTyped'
  BY DEF HInv, HolesTyped, SessionIdle, world, announceVars, clientVars, Mine, Asking
<1>2. ASSUME NEW u \in Token
      PROVE  OrderFits(u)'
  <2>1. /\ UNCHANGED <<theirs, pending, wire>> /\ OrderFits(u)
        /\ sessions[r][q] # None /\ sessions' = [sessions EXCEPT ![r][q] = None]
    BY DEF HInv, AllFit, SessionIdle
  <2> QED
    BY <2>1 DEF HInv, HolesTyped, OrderFits, SessionIdle, Waits, Is, Theirs, Message
<1>3. ASSUME NEW i \in Hole
      PROVE  HoleFits(i)'
  <2>1. /\ UNCHANGED <<theirs, mine>> /\ HoleFits(i)
        /\ sessions' = [sessions EXCEPT ![r][q] = None]
    BY DEF HInv, AllFit, SessionIdle, clientVars
  <2>2. theirs[i] # None /\ theirs[i].route = r /\ theirs[i].port = q => sessions[r][q] # i
    BY DEF SessionIdle, InUse
  <2>3. theirs[i] # None /\ sessions[theirs[i].route][theirs[i].port] = i
           /\ theirs[i].route \in Relay /\ theirs[i].port \in SessionPort =>
        sessions'[theirs[i].route][theirs[i].port] = i
    BY <2>1, <2>2 DEF HInv, HolesTyped
  <2>4. theirs[i] # None => theirs[i].route = Direct \/ theirs[i].route \in Relay
    BY DEF HInv, HolesTyped, Theirs, Route
  <2> QED
    BY <2>1, <2>3, <2>4 DEF HoleFits, Waits, Live, Offered
<1> QED
  BY <1>1, <1>2, <1>3 DEF HInv, AllFit

LEMMA RelayStopsKeeps ==
    ASSUME HInv, NEW r \in Relay, RelayStops(r)
    PROVE  HInv'
<1>1. HolesTyped'
  <2>1. UNCHANGED <<public, mine, pending, wire>> /\ up' \subseteq Relay
    BY DEF HInv, HolesTyped, RelayStops, announceVars, clientVars
  <2>2. theirs' \in [Hole -> Theirs \cup {None}]
    <3>1. ASSUME NEW h \in Hole, theirs[h] # None
          PROVE  [theirs[h] EXCEPT !.orphan = TRUE] \in Theirs
      <4>1. PICK x \in Theirs : x = theirs[h]
        BY <3>1 DEF HInv, HolesTyped
      <4>2. [x EXCEPT !.orphan = TRUE] \in Theirs
        BY DEF Theirs
      <4> QED
        BY <4>1, <4>2
    <3> QED
      BY <3>1 DEF HInv, HolesTyped, RelayStops
  <2>3. sessions' \in [Relay -> [SessionPort -> Hole \cup {None}]]
    BY DEF HInv, HolesTyped, RelayStops
  <2> QED
    BY <2>1, <2>2, <2>3 DEF HInv, HolesTyped
<1>2. /\ UNCHANGED <<mine, pending, wire>>
      /\ \A a \in Relay : a # r => sessions'[a] = sessions[a]
  BY DEF HInv, HolesTyped, RelayStops, clientVars
<1>3. ASSUME NEW i \in Hole, theirs[i] # None
      PROVE  /\ theirs'[i] # None
             /\ theirs'[i].stage = theirs[i].stage /\ theirs'[i].route = theirs[i].route
             /\ theirs'[i].port = theirs[i].port
             /\ theirs'[i].orphan = (theirs[i].orphan \/ theirs[i].route = r)
  <2>1. theirs[i] \in Theirs
    BY <1>3 DEF HInv, HolesTyped
  <2>2. theirs'[i] = IF theirs[i].route = r THEN [theirs[i] EXCEPT !.orphan = TRUE] ELSE theirs[i]
    BY <1>3 DEF RelayStops
  <2> QED
    BY <2>1, <2>2 DEF Theirs
<1>4. ASSUME NEW i \in Hole, theirs[i] = None
      PROVE  theirs'[i] = None
  BY <1>4 DEF RelayStops
<1>5. ASSUME NEW u \in Token
      PROVE  OrderFits(u)'
  <2>1. OrderFits(u) /\ pending[u] \in Hole \cup {None} /\ wire[u] \in Message \cup {None}
    BY DEF HInv, AllFit, HolesTyped
  <2>2. wire[u] # None => wire[u].relay \in Relay
    BY <2>1 DEF Message
  <2> QED
    BY <1>2, <1>3, <2>1, <2>2 DEF OrderFits, Waits, Is
<1>6. ASSUME NEW i \in Hole
      PROVE  HoleFits(i)'
  <2>1. HoleFits(i) /\ theirs[i] \in Theirs \cup {None}
    BY DEF HInv, AllFit, HolesTyped
  <2>2. theirs[i] # None /\ theirs[i].route # Direct => theirs[i].route \in Relay
    BY <2>1 DEF Theirs, Route
  <2> QED
    BY <1>2, <1>3, <1>4, <2>1, <2>2 DEF HoleFits, Waits, Live, Offered
<1> QED
  BY <1>1, <1>5, <1>6 DEF HInv, AllFit

LEMMA HoleStepsKeep ==
    ASSUME HInv, NEW h \in Hole,
           KnockDirect(h) \/ GiveUp(h) \/ Punched(h) \/ NobodyCame(h) \/ Ends(h)
    PROVE  HInv'
<1>1. CASE KnockDirect(h)
  <2>1. HolesTyped'
    BY <1>1 DEF HInv, HolesTyped, KnockDirect, sessionVars, world, announceVars, Theirs, Route, clientVars, Mine, Asking
  <2>2. ASSUME NEW u \in Token
        PROVE  OrderFits(u)'
    BY <1>1 DEF HInv, HolesTyped, AllFit, OrderFits, KnockDirect, Knocks, sessionVars, Waits, Is, Theirs
  <2>3. ASSUME NEW i \in Hole
        PROVE  HoleFits(i)'
    BY <1>1 DEF HInv, HolesTyped, AllFit, HoleFits, KnockDirect, Knocks, Asking, sessionVars, clientVars, Waits, Live, Offered, Theirs
  <2> QED
    BY <2>1, <2>2, <2>3 DEF HInv, AllFit
<1>2. CASE GiveUp(h)
  BY <1>2 DEF HInv, HolesTyped, AllFit, OrderFits, HoleFits, GiveUp, Asking, announceVars, sessionVars, Waits, Live, Offered, Is
<1>3. CASE Punched(h)
  <2>1. HolesTyped'
    <3>1. mine[h] \in Mine /\ theirs[h] \in Theirs
      BY <1>3 DEF Punched, HInv, HolesTyped, Offered, Waits, Asking
    <3>2. [mine[h] EXCEPT !.live = TRUE] \in Mine
      BY <3>1 DEF Mine
    <3>3. [theirs[h] EXCEPT !.stage = "live"] \in Theirs
      BY <3>1 DEF Theirs
    <3> QED
      BY <1>3, <3>2, <3>3 DEF Punched, HInv, HolesTyped, sessionVars, world, announceVars
  <2>2. ASSUME NEW u \in Token
        PROVE  OrderFits(u)'
    BY <1>3 DEF HInv, HolesTyped, AllFit, OrderFits, Punched, Offered, sessionVars, Waits, Is, Theirs
  <2>3. ASSUME NEW i \in Hole
        PROVE  HoleFits(i)'
    BY <1>3 DEF HInv, HolesTyped, AllFit, HoleFits, Punched, LeadsHome, Asking, sessionVars, clientVars, Waits, Live, Offered, Theirs
  <2> QED
    BY <2>1, <2>2, <2>3 DEF HInv, AllFit
<1>4. CASE NobodyCame(h)
  <2>1. HolesTyped'
    BY <1>4 DEF HInv, HolesTyped, NobodyCame, sessionVars, announceVars, clientVars, Mine, Asking
  <2>2. ASSUME NEW u \in Token
        PROVE  OrderFits(u)'
    BY <1>4 DEF HInv, HolesTyped, AllFit, OrderFits, NobodyCame, Offered, sessionVars, Waits, Is, Theirs
  <2>3. ASSUME NEW i \in Hole
        PROVE  HoleFits(i)'
    BY <1>4 DEF HInv, HolesTyped, AllFit, HoleFits, NobodyCame, sessionVars, clientVars, Waits, Live, Offered, Theirs
  <2> QED
    BY <2>1, <2>2, <2>3 DEF HInv, AllFit
<1>5. CASE Ends(h)
  <2>1. HolesTyped'
    BY <1>5 DEF HInv, HolesTyped, Ends, sessionVars, announceVars, clientVars, Mine, Asking
  <2>2. ASSUME NEW u \in Token
        PROVE  OrderFits(u)'
    <3>1. Waits(h, "live")
      BY <1>5 DEF Ends, HInv, AllFit, HoleFits
    <3> QED
      BY <1>5, <3>1 DEF HInv, HolesTyped, AllFit, OrderFits, Ends, sessionVars, Waits, Is, Theirs
  <2>3. ASSUME NEW i \in Hole
        PROVE  HoleFits(i)'
    <3>1. /\ theirs'[i] = IF i = h THEN None ELSE theirs[i]
          /\ i # h => UNCHANGED Live(i)
          /\ i = h => ~Live(i)'
      BY <1>5 DEF Ends, Live, HInv, HolesTyped
    <3> QED
      BY <1>5, <3>1 DEF Ends, sessionVars, HInv, AllFit, HoleFits, Waits, Offered
  <2> QED
    BY <2>1, <2>2, <2>3 DEF HInv, AllFit
<1> QED
  BY <1>1, <1>2, <1>3, <1>4, <1>5

LEMMA ControlStepsKeep ==
    ASSUME HInv, NEW t \in Token, LoseControl(t) \/ OpenWaitOver(t)
    PROVE  HInv'
<1>1. CASE LoseControl(t)
  <2>1. HolesTyped'
    BY <1>1 DEF HInv, HolesTyped, LoseControl, announceVars, clientVars, Mine, Asking
  <2>2. ASSUME NEW u \in Token
        PROVE  OrderFits(u)'
    BY <1>1 DEF HInv, HolesTyped, AllFit, OrderFits, LoseControl, Waits, Is
  <2>3. ASSUME NEW i \in Hole
        PROVE  HoleFits(i)'
    BY <1>1 DEF HInv, AllFit, HoleFits, LoseControl, clientVars, Waits, Live, Offered
  <2> QED
    BY <2>1, <2>2, <2>3 DEF HInv, AllFit
<1>2. CASE OpenWaitOver(t)
  <2>1. HolesTyped'
    BY <1>2 DEF HInv, HolesTyped, OpenWaitOver, Forgotten, announceVars, clientVars, Mine, Asking
  <2>2. ASSUME NEW u \in Token
        PROVE  OrderFits(u)'
    BY <1>2 DEF HInv, HolesTyped, AllFit, OrderFits, OpenWaitOver, Forgotten, Waits, Is
  <2>3. ASSUME NEW i \in Hole
        PROVE  HoleFits(i)'
    BY <1>2 DEF HInv, HolesTyped, AllFit, OrderFits, HoleFits, OpenWaitOver, clientVars, Waits, Live, Offered
  <2> QED
    BY <2>1, <2>2, <2>3 DEF HInv, AllFit
<1> QED
  BY <1>1, <1>2

-----------------------------------------------------------------------------
(* The client opens its holes, one after the other.                        *)

LEMMA InTurnIs ==
    ASSUME NEW relays \in SUBSET Relay, relays # {}, NEW turn \in Nat
    PROVE  InTurn(relays, turn) \in relays
<1>1. PICK n : n = Cardinality(relays)
  OBVIOUS
<1>2. IsFiniteSet(relays) /\ n \in Nat \ {0}
  BY <1>1, PathsAssumption, FS_Subset, FS_CardinalityType, FS_EmptySet
<1> DEFINE Below(r) == {s \in relays : s < r}
           Rank == [r \in relays |-> Cardinality(Below(r))]
<1>3. ASSUME NEW r \in relays
      PROVE  IsFiniteSet(Below(r)) /\ Cardinality(Below(r)) \in 0 .. n - 1
  <2>1. Below(r) \in SUBSET (relays \ {r})
    BY PathsAssumption
  <2>2. IsFiniteSet(relays \ {r}) /\ Cardinality(relays \ {r}) = n - 1
    BY <1>1, <1>2, FS_RemoveElement
  <2>3. IsFiniteSet(Below(r)) /\ Cardinality(Below(r)) <= n - 1
    BY <2>1, <2>2, FS_Subset
  <2> QED
    BY <1>2, <2>3, FS_CardinalityType
<1>4. ASSUME NEW r \in relays, NEW s \in relays, r < s
      PROVE  Rank[r] # Rank[s]
  <2>1. Below(r) \in SUBSET Below(s) /\ r \in Below(s) /\ r \notin Below(r)
    <3>1. \A x \in relays : x \in Nat
      BY PathsAssumption
    <3>2. \A x \in relays : x < r => x < s
      BY <1>4, <3>1
    <3>3. ~(r < r)
      BY <3>1
    <3> QED
      BY <1>4, <3>2, <3>3
  <2>2. Cardinality(Below(r)) # Cardinality(Below(s))
    BY <1>3, <2>1, FS_Subset
  <2> QED
    BY <2>2
<1>5. Rank \in Injection(relays, 0 .. n - 1)
  <2>1. Rank \in [relays -> 0 .. n - 1]
    BY <1>3
  <2>2. \A r, s \in relays : Rank[r] = Rank[s] => r = s
    <3> SUFFICES ASSUME NEW r \in relays, NEW s \in relays, r # s
                 PROVE  Rank[r] # Rank[s]
      OBVIOUS
    <3>1. r < s \/ s < r
      BY PathsAssumption
    <3> HIDE DEF Rank
    <3> QED
      BY <1>4, <3>1
  <2> HIDE DEF Rank
  <2> QED
    BY <2>1, <2>2 DEF Injection, IsInjective
<1>6. Rank \in Surjection(relays, 0 .. n - 1)
  <2>1. IsFiniteSet(0 .. n - 1) /\ Cardinality(0 .. n - 1) = n
    BY <1>2, FS_Interval
  <2> HIDE DEF Rank
  <2> QED
    BY <1>1, <1>5, <2>1, FS_Injection
<1>7. turn % n \in 0 .. n - 1
  BY <1>2
<1>8. PICK r \in relays : Rank[r] = turn % n
  <2> HIDE DEF Rank
  <2> QED
    BY <1>6, <1>7 DEF Surjection
<1> QED
  BY <1>1, <1>8 DEF InTurn

(* What evaluate makes of the holes: those that were there are as they were, *)
(* those that are new ask.                                                 *)
Acc == {acc \in [holes : [Hole -> Mine \cup {None}], next : 0 .. Turns - 1] :
           \A h \in Hole : \/ acc.holes[h] = mine[h]
                           \/ h \in Free /\ acc.holes[h] # None /\ ~acc.holes[h].live}

LEMMA OpenedIs ==
    ASSUME OthersTyped, NEW acc \in Acc, NEW h \in Free
    PROVE  Opened(acc, h) \in Acc
<1>1. acc.holes \in [Hole -> Mine \cup {None}] /\ acc.next \in 0 .. Turns - 1 /\ h \in Hole
  BY DEF Acc, Free
<1>2. Turns \in Nat \ {0}
  BY RelaysAssumption
<1> DEFINE allowed == Allowed(banned, grant)
<1>3. allowed.relays \in SUBSET Relay
  BY DEF Allowed, OthersTyped, Lists
<1>4. PICK through \in BOOLEAN, route \in Route, next \in 0 .. Turns - 1 :
        Opened(acc, h) = [holes |-> [acc.holes EXCEPT ![h] = [route |-> route, live |-> FALSE]],
                          next |-> next]
  <2>1. allowed.relays # {} => InTurn(allowed.relays, acc.next) \in Route
    BY <1>1, <1>2, <1>3, InTurnIs DEF Route
  <2>2. Direct \in Route /\ (acc.next + 1) % Turns \in 0 .. Turns - 1
    BY <1>1, <1>2 DEF Route
  <2> QED
    BY <1>1, <2>1, <2>2 DEF Opened
<1>5. PICK hole \in Mine : hole = [route |-> route, live |-> FALSE]
  BY DEF Mine
<1>6. hole # None /\ ~hole.live
  BY <1>5
<1>7. PICK holes \in [Hole -> Mine \cup {None}] : holes = [acc.holes EXCEPT ![h] = hole]
  BY <1>1
<1>8. Opened(acc, h) = [holes |-> holes, next |-> next]
  BY <1>4, <1>5, <1>7
<1>9. \A i \in Hole : holes[i] = IF i = h THEN hole ELSE acc.holes[i]
  BY <1>1, <1>7
<1>10. \A i \in Hole : \/ holes[i] = mine[i]
                       \/ i \in Free /\ holes[i] # None /\ ~holes[i].live
  BY <1>6, <1>9 DEF Acc
<1> QED
  BY <1>8, <1>10 DEF Acc

LEMMA EvaluateIs ==
    ASSUME OthersTyped, HolesTyped, Evaluate
    PROVE  \E acc \in Acc : mine' = acc.holes /\ next_relay' = acc.next
<1>1. IsFiniteSet(Free)
  BY RelaysAssumption, FS_Subset DEF Free
<1>2. PICK n \in Nat : n = Cardinality(Free)
  BY <1>1, FS_CardinalityType
<1>3. PICK ids : ids = SetToSeq(Free)
  OBVIOUS
<1>4. ids \in [1 .. n -> Free]
  <2>1. \E f \in [1 .. n -> Free] : IsInjective(f)
    BY <1>1, <1>2, FS_CardinalityType DEF ExistsBijection, Bijection, Injection
  <2> QED
    BY <1>2, <1>3, <2>1 DEF SetToSeq
<1>5. PICK base : base = [holes |-> mine, next |-> next_relay]
  OBVIOUS
<1>6. base \in Acc
  BY <1>5 DEF Acc, OthersTyped, HolesTyped
<1> DEFINE Step == [x \in Acc \X (1 .. n) |-> Opened(x[1], ids[x[2]])]
           Folds(f) == f = [s \in SUBSET (1 .. n) |->
                               IF s = {} THEN base ELSE Opened(f[s \ {Max(s)}], ids[Max(s)])]
<1>7. ASSUME NEW acc \in Acc, NEW i \in 1 .. n
      PROVE  Opened(acc, ids[i]) \in Acc /\ Step[<<acc, i>>] = Opened(acc, ids[i])
  BY <1>4, <1>7, OpenedIs
<1>8. Step \in [Acc \X (1 .. n) -> Acc]
  BY <1>7
<1>9. \E f : Folds(f)
  <2>1. PICK f \in [SUBSET (1 .. n) -> Acc] : FoldOf(f, n, base, Step)
    <3> HIDE DEF Step
    <3> QED
      BY <1>6, <1>8, FoldExists DEF HasFold
  <2>2. ASSUME NEW s \in SUBSET (1 .. n), s # {}
        PROVE  f[s] = Opened(f[s \ {Max(s)}], ids[Max(s)])
    <3>1. Max(s) \in 1 .. n /\ f[s \ {Max(s)}] \in Acc
      BY <2>1, <2>2, MaxIs
    <3> HIDE DEF Step
    <3> QED
      BY <1>7, <2>1, <2>2, <3>1 DEF FoldOf
  <2>3. \A s \in SUBSET (1 .. n) : s = {} => f[s] = base
    BY <2>1 DEF FoldOf
  <2>4. Folds(f)
    BY <2>1, <2>2, <2>3
  <2> QED
    BY <2>4
<1>10. PICK f : f = CHOOSE g : Folds(g)
  OBVIOUS
<1>11. \A s \in SUBSET (1 .. n) :
           f[s] = IF s = {} THEN base ELSE Opened(f[s \ {Max(s)}], ids[Max(s)])
  <2>1. Folds(f)
    BY <1>9, <1>10
  <2> QED
    BY <2>1
<1>12. FoldLeft(Opened, base, ids) = f[1 .. n]
  <2>1. DOMAIN ids = 1 .. n
    BY <1>4
  <2> QED
    BY <1>10, <2>1 DEF FoldLeft, MapThenFoldSet
<1> DEFINE T == {m \in Nat : m <= n => f[1 .. m] \in Acc}
<1>13. 0 \in T
  <2>1. 1 .. 0 = {}
    OBVIOUS
  <2> QED
    BY <1>6, <1>11, <2>1
<1>14. ASSUME NEW m \in T
       PROVE  m + 1 \in T
  <2>1. m \in Nat /\ m + 1 \in Nat
    OBVIOUS
  <2>2. SUFFICES ASSUME m + 1 <= n
                 PROVE  f[1 .. m + 1] \in Acc
    BY <2>1
  <2>3. f[1 .. m] \in Acc
    <3>1. m <= n
      BY <2>1, <2>2
    <3> QED
      BY <3>1
  <2>4. PICK s \in SUBSET (1 .. n) : s = 1 .. m + 1
    BY <2>1, <2>2
  <2>5. Max(s) = m + 1
    <3>1. m + 1 \in s /\ s # {}
      BY <2>1, <2>4
    <3>2. Max(s) \in 1 .. m + 1 /\ Max(s) >= m + 1
      BY <2>4, <3>1, MaxIs
    <3> QED
      BY <2>1, <3>2
  <2>6. s \ {m + 1} = 1 .. m
    BY <2>1, <2>4
  <2>7. f[s] = Opened(f[1 .. m], ids[m + 1])
    <3>1. s # {}
      BY <2>1, <2>4
    <3>2. f[s] = Opened(f[s \ {Max(s)}], ids[Max(s)])
      BY <1>11, <3>1
    <3> QED
      BY <2>5, <2>6, <3>2
  <2>8. m + 1 \in 1 .. n
    BY <2>1, <2>2
  <2> QED
    BY <1>7, <2>3, <2>4, <2>7, <2>8
<1>15. T = Nat
  <2>1. T \in SUBSET Nat
    OBVIOUS
  <2> HIDE DEF T
  <2> QED
    BY <1>13, <1>14, <2>1, SetInduction
<1>16. f[1 .. n] \in Acc
  BY <1>15
<1> QED
  BY <1>3, <1>5, <1>12, <1>16 DEF Evaluate

LEMMA EvaluateKeeps ==
    ASSUME IInv, Evaluate
    PROVE  IInv'
<1>1. PICK acc \in Acc : mine' = acc.holes /\ next_relay' = acc.next
  BY EvaluateIs DEF IInv, HInv
<1>2. /\ mine' \in [Hole -> Mine \cup {None}] /\ next_relay' \in 0 .. Turns - 1
      /\ \A i \in Hole : Live(i)' => Live(i)
  BY <1>1 DEF Acc, Live
<1>3. /\ UNCHANGED <<up, public, theirs, pending, wire, sessions>>
      /\ UNCHANGED <<reach, alive, last, offers, grant, banned, troubles>>
  BY DEF Evaluate, world, announceVars, sessionVars
<1>4. HolesTyped' /\ OthersTyped'
  BY <1>2, <1>3 DEF IInv, HInv, HolesTyped, OthersTyped
<1>5. ASSUME NEW u \in Token
      PROVE  OrderFits(u)'
  BY <1>3 DEF IInv, HInv, AllFit, OrderFits, Waits, Is
<1>6. ASSUME NEW i \in Hole
      PROVE  HoleFits(i)'
  <2>1. HoleFits(i)
    BY DEF IInv, HInv, AllFit
  <2> QED
    BY <1>2, <1>3, <2>1 DEF HoleFits, Offered, Waits
<1> QED
  BY <1>4, <1>5, <1>6 DEF IInv, HInv, AllFit

-----------------------------------------------------------------------------
(* Steps that touch neither holes nor sessions, and what the others leave   *)
(* alone.                                                                  *)

LEMMA WorldKeeps ==
    ASSUME HInv, up' \subseteq Relay, public' \subseteq Relay,
           UNCHANGED <<mine, theirs, pending, wire, sessions>>
    PROVE  HInv'
<1>1. HolesTyped'
  BY DEF HInv, HolesTyped
<1>2. ASSUME NEW u \in Token
      PROVE  OrderFits(u)'
  BY DEF HInv, AllFit, OrderFits, Waits, Is
<1>3. ASSUME NEW i \in Hole
      PROVE  HoleFits(i)'
  BY DEF HInv, AllFit, HoleFits, Waits, Live, Offered
<1> QED
  BY <1>1, <1>2, <1>3 DEF HInv, AllFit

LEMMA TwoOfThem ==
    ASSUME NEW a \in Nat, NEW b \in Nat
    PROVE  Max({a, b}) \in {a, b} /\ Min({a, b}) \in {a, b} /\ Min({a, b}) <= b
<1>1. \E x \in {a, b} : \A y \in {a, b} : x >= y
  OBVIOUS
<1>2. \E x \in {a, b} : \A y \in {a, b} : x <= y
  OBVIOUS
<1> QED
  BY <1>1, <1>2 DEF Max, Min

LEMMA AnnounceKeeps ==
    ASSUME IInv, Announce
    PROVE  IInv'
<1> DEFINE links == {h \in Hole : Waits(h, "live")}
<1>1. PICK c \in Nat : c = Cardinality(links)
  BY RelaysAssumption, FS_Subset, FS_CardinalityType
<1>2. Listed \in Lists
  BY DEF Listed, IInv, OthersTyped, Lists
<1>3. PICK few \in 0 .. ANNOUNCE_COPIES : few = Min({c, ANNOUNCE_COPIES})
  BY RelaysAssumption, TwoOfThem
<1>4. PICK many \in 0 .. ANNOUNCE_COPIES : many = Max({offers[Listed], few})
  <2>1. offers[Listed] \in 0 .. ANNOUNCE_COPIES
    BY <1>2 DEF IInv, OthersTyped
  <2> QED
    <3>1. offers[Listed] \in Nat /\ few \in Nat
      BY <2>1, RelaysAssumption
    <3> QED
      BY <2>1, <3>1, TwoOfThem
<1>5. offers' = [offers EXCEPT ![Listed] = many]
  BY <1>1, <1>3, <1>4 DEF Announce
<1>6. OthersTyped'
  BY <1>2, <1>5 DEF Announce, IInv, OthersTyped, world, clientVars
<1> QED
  BY <1>6, WorldKeeps DEF Announce, IInv, HInv, HolesTyped, world, clientVars, sessionVars

LEMMA GrantsKeep ==
    ASSUME IInv, NEW l \in Lists, ReceiveOffer(l) \/ LoseOffer(l)
    PROVE  IInv'
<1>1. offers[l] - 1 \in 0 .. ANNOUNCE_COPIES
  BY RelaysAssumption DEF ReceiveOffer, LoseOffer, IInv, OthersTyped
<1>2. troubles' \in 0 .. MaxTroubles
  BY RelaysAssumption DEF ReceiveOffer, LoseOffer, Trouble, world, IInv, OthersTyped
<1>3. OthersTyped'
  BY <1>1, <1>2 DEF ReceiveOffer, LoseOffer, FromOffer, IInv, OthersTyped, world, announceVars, clientVars
<1> QED
  BY <1>3, WorldKeeps DEF ReceiveOffer, LoseOffer, IInv, HInv, HolesTyped, world, announceVars, clientVars, sessionVars

LEMMA CheckPathsKeeps ==
    ASSUME IInv, CheckPaths
    PROVE  IInv'
<1>1. \A holes : Judged(holes) \subseteq Route
  BY DEF Judged, Judgeable
<1>2. OthersTyped'
  BY <1>1 DEF CheckPaths, IInv, OthersTyped, world, announceVars
<1> QED
  BY <1>2, WorldKeeps DEF CheckPaths, IInv, HInv, HolesTyped, world, announceVars, sessionVars

LEMMA OthersUnchanged ==
    ASSUME OthersTyped, troubles' \in 0 .. MaxTroubles,
           UNCHANGED <<reach, alive, last, offers, grant, banned, next_relay>>
    PROVE  OthersTyped'
BY DEF OthersTyped

LEMMA InitIInv == Init => IInv
<1> SUFFICES ASSUME Init
             PROVE  IInv
  OBVIOUS
<1>1. OthersTyped
  BY RelaysAssumption DEF Init, OthersTyped, Route, Lists
<1>2. HolesTyped
  BY DEF Init, HolesTyped
<1>3. AllFit
  BY DEF Init, AllFit, OrderFits, HoleFits, Waits, Is, Live, Offered
<1> QED
  BY <1>1, <1>2, <1>3 DEF IInv, HInv

LEMMA StepIInv == IInv /\ [Next]_vars => IInv'
<1> SUFFICES ASSUME IInv, [Next]_vars
             PROVE  IInv'
  OBVIOUS
<1>0. HInv /\ OthersTyped /\ HolesTyped
  BY DEF IInv, HInv
<1>1. ASSUME NEW r \in Relay, Hello(r) \/ CheckAlive(r) \/ RelayStarts(r)
      PROVE  IInv'
  <2>1. OthersTyped'
    BY <1>0, <1>1 DEF Hello, CheckAlive, RelayStarts, OthersTyped, world, announceVars, clientVars
  <2> QED
    BY <1>0, <1>1, <2>1, WorldKeeps DEF Hello, CheckAlive, RelayStarts, IInv, HolesTyped, world, announceVars, clientVars, sessionVars
<1>2. ASSUME NEW r \in Relay, RelayStops(r)
      PROVE  IInv'
  <2>1. OthersTyped'
    BY <1>0, <1>2, RelaysAssumption, OthersUnchanged DEF RelayStops, Trouble, OthersTyped, announceVars, clientVars
  <2> QED
    BY <1>0, <1>2, <2>1, RelayStopsKeeps DEF IInv
<1>3. ASSUME NEW r \in Relay, NEW q \in SessionPort, SessionIdle(r, q)
      PROVE  IInv'
  <2>1. OthersTyped'
    BY <1>0, <1>3 DEF SessionIdle, OthersTyped, world, announceVars, clientVars
  <2> QED
    BY <1>0, <1>3, <2>1, SessionIdleKeeps DEF IInv
<1>4. CASE GrantExpires
  <2>1. OthersTyped'
    BY <1>0, <1>4 DEF GrantExpires, OthersTyped, Lists, world, announceVars, clientVars
  <2> QED
    BY <1>0, <1>4, <2>1, WorldKeeps DEF GrantExpires, IInv, HolesTyped, world, announceVars, clientVars, sessionVars
<1>5. ASSUME NEW route \in Route, BanExpires(route) \/ PathChanges(route)
      PROVE  IInv'
  <2>1. troubles' \in 0 .. MaxTroubles
    BY <1>0, <1>5, RelaysAssumption DEF BanExpires, PathChanges, Trouble, TroubleIf, world, OthersTyped
  <2>2. OthersTyped'
    BY <1>0, <1>5, <2>1 DEF BanExpires, PathChanges, OthersTyped, world, announceVars, clientVars
  <2> QED
    BY <1>0, <1>5, <2>2, WorldKeeps DEF BanExpires, PathChanges, IInv, HolesTyped, world, announceVars, clientVars, sessionVars
<1>6. ASSUME NEW t \in Token, OpenSession(t) \/ Ready(t)
      PROVE  IInv'
  <2>1. OthersTyped'
    BY <1>0, <1>6 DEF OpenSession, Ready, OthersTyped, world, announceVars, clientVars
  <2> QED
    BY <1>0, <1>6, <2>1, OpenSessionKeeps, ReadyKeeps DEF IInv
<1>7. ASSUME NEW t \in Token, LoseControl(t) \/ OpenWaitOver(t)
      PROVE  IInv'
  <2>1. troubles' \in 0 .. MaxTroubles
    BY <1>0, <1>7, RelaysAssumption DEF LoseControl, OpenWaitOver, Trouble, TroubleIf, OthersTyped
  <2>2. OthersTyped'
    BY <1>0, <1>7, <2>1, OthersUnchanged DEF LoseControl, OpenWaitOver, announceVars, clientVars
  <2> QED
    BY <1>0, <1>7, <2>2, ControlStepsKeep DEF IInv
<1>8. ASSUME NEW h \in Hole,
             KnockDirect(h) \/ GiveUp(h) \/ Punched(h) \/ NobodyCame(h) \/ Ends(h)
      PROVE  IInv'
  <2>1. troubles' \in 0 .. MaxTroubles
    BY <1>0, <1>8, RelaysAssumption DEF KnockDirect, GiveUp, Punched, NobodyCame, Ends, Trouble, TroubleIf, world, OthersTyped
  <2>2. UNCHANGED <<reach, alive, last, offers, grant, banned, next_relay>>
    BY <1>8 DEF KnockDirect, GiveUp, Punched, NobodyCame, Ends, world, announceVars, clientVars
  <2>3. OthersTyped'
    BY <1>0, <2>1, <2>2, OthersUnchanged
  <2> QED
    BY <1>0, <1>8, <2>3, HoleStepsKeep DEF IInv
<1>9. ASSUME NEW h \in Hole, NEW t \in Token, KnockRelay(h, t)
      PROVE  IInv'
  <2>1. OthersTyped'
    BY <1>0, <1>9 DEF KnockRelay, OthersTyped, world, announceVars, clientVars
  <2> QED
    BY <1>0, <1>9, <2>1, KnockRelayKeeps DEF IInv
<1>10. CASE UNCHANGED vars
  <2>1. OthersTyped'
    BY <1>0, <1>10 DEF vars, OthersTyped, world, announceVars, clientVars
  <2> QED
    BY <1>0, <1>10, <2>1, WorldKeeps DEF vars, IInv, HolesTyped, world, announceVars, clientVars, sessionVars
<1> QED
  BY <1>1, <1>2, <1>3, <1>4, <1>5, <1>6, <1>7, <1>8, <1>9, <1>10,
     AnnounceKeeps, CheckPathsKeeps, EvaluateKeeps, GrantsKeep DEF Next

LEMMA Invariance == Spec => []IInv
<1> QED
  BY InitIInv, StepIInv, PTL DEF Spec

(* The state of the client, the server and the relays keeps its types; what  *)
(* the client makes of its holes, one after another in Manager::open, are    *)
(* routes it knows.                                                        *)
THEOREM TypeCorrect == Spec => []TypeOK
<1>1. IInv => TypeOK
  BY DEF IInv, HInv, HolesTyped, OthersTyped, TypeOK
<1> QED
  BY <1>1, Invariance, PTL

(* The port a client is offered is the session of that very hole (relay.rs,  *)
(* Relays::ready and open): for any number of relays, ports, holes and       *)
(* tokens, and any delay, loss or late answer.                             *)
THEOREM OfferedLeadsHomeHolds == Spec => []OfferedLeadsHome
<1>1. IInv => OfferedLeadsHome
  BY DEF IInv, HInv, AllFit, HoleFits, OfferedLeadsHome, LeadsHome
<1> QED
  BY <1>1, Invariance, PTL
=============================================================================
