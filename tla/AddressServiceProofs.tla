------------------------ MODULE AddressServiceProofs ------------------------
(***************************************************************************)
(* Proofs about the book, the hub's table and the tasks that use them, for *)
(* any peers, names, pools and runtime.  The strengthening IInv adds to    *)
(* the checked invariants that the disk is never behind the book and that  *)
(* a request in flight carries what the book gave its key.                 *)
(***************************************************************************)
EXTENDS AddressService, TLAPS

(* What a request carries from the book to the hub is what the book holds. *)
RequestsFollowTheBook ==
    \A r \in serving : book[KeyOf(r.link.peer, r.client)] = r.address

IInv ==
    /\ TypeOK
    /\ Mutual(routes)
    /\ file = book
    /\ AddressesDistinct
    /\ RequestsFollowTheBook
    /\ RoutesFollowTheBook
    /\ AddressesStay
-----------------------------------------------------------------------------
(* None is no address, so a map to addresses tells them apart from it.     *)
LEMMA NoneIsNoAddress == None \notin Address /\ None \notin Target
<1>1. Address \subseteq Nat
  BY PoolAssumption DEF Address, Pools
<1> QED
  BY <1>1, NoneAssumption, OptionAssumption DEF Target, Link

(* The key of an owner is a key of the book.                               *)
LEMMA KeyType ==
    ASSUME NEW peer \in Peer, NEW client \in Behind
    PROVE  KeyOf(peer, client) \in Key
BY ServiceAssumption DEF KeyOf, Key

(* assign keeps the table well formed (hub.rs, Hub::assign).               *)
LEMMA AssignedType ==
    ASSUME NEW rt \in Routes, NEW a \in Address, NEW link \in Link, NEW client \in Behind
    PROVE  Assigned(rt, a, link, client) \in Routes
<1> DEFINE owner == OwnerOf(link, client)
           target == [link |-> link, client |-> client]
<1>1. owner \in Owner /\ target \in Target
  BY DEF OwnerOf, Owner, Link, Target
<1>2. /\ rt.by_addr \in [Address -> Target \cup {None}]
      /\ rt.by_owner \in [Owner -> Address \cup {None}]
  BY DEF Routes
<1>3. TargetsAfter(rt, a, link, client) \in [Address -> Target \cup {None}]
  BY <1>1, <1>2 DEF TargetsAfter
<1>4. OwnersAfter(rt, a, owner) \in [Owner -> Address \cup {None}]
  BY <1>2 DEF OwnersAfter
<1> QED
  BY <1>3, <1>4 DEF Assigned, Routes

(* remove_peer keeps it well formed.                                       *)
LEMMA WithoutPeerType ==
    ASSUME NEW rt \in Routes, NEW peer \in Peer
    PROVE  WithoutPeer(rt, peer) \in Routes
BY DEF WithoutPeer, Routes

(* assign keeps the two maps mutual: the owner's old address and the       *)
(* address's old owner are both forgotten.                                 *)
LEMMA AssignedMutual ==
    ASSUME NEW rt \in Routes, NEW a \in Address, NEW link \in Link, NEW client \in Behind,
           Mutual(rt)
    PROVE  Mutual(Assigned(rt, a, link, client))
<1> DEFINE owner == OwnerOf(link, client)
           target == [link |-> link, client |-> client]
           new == Assigned(rt, a, link, client)
<1>1. CASE AlreadyAssigned(rt, a, owner)
  BY <1>1 DEF Assigned
<1>2. CASE ~AlreadyAssigned(rt, a, owner)
  <2>1. /\ new.by_addr = TargetsAfter(rt, a, link, client)
        /\ new.by_owner = OwnersAfter(rt, a, owner)
    BY <1>2 DEF Assigned
  <2>2. owner \in Owner /\ target \in Target /\ TargetOwner(target) = owner
    BY DEF OwnerOf, Owner, Link, Target, TargetOwner
  <2>3. /\ \A b \in Address : new.by_addr[b] =
             IF b = a THEN target ELSE IF b = rt.by_owner[owner] THEN None ELSE rt.by_addr[b]
        /\ \A o \in Owner : new.by_owner[o] =
             IF o = owner THEN a
             ELSE IF rt.by_addr[a] # None /\ o = TargetOwner(rt.by_addr[a]) THEN None
             ELSE rt.by_owner[o]
    BY <2>1, <2>2 DEF TargetsAfter, OwnersAfter
  <2>4. /\ \A b \in Address : rt.by_addr[b] \in Target \cup {None}
        /\ \A o \in Owner : rt.by_owner[o] \in Address \cup {None}
    BY DEF Routes
  <2>5. \A t \in Target : TargetOwner(t) \in Owner
    BY DEF Target, TargetOwner, OwnerOf, Owner, Link
  <2>6. ASSUME NEW o \in Owner, new.by_owner[o] # None
        PROVE  /\ new.by_addr[new.by_owner[o]] # None
               /\ TargetOwner(new.by_addr[new.by_owner[o]]) = o
    <3>1. CASE o = owner
      BY <3>1, <2>2, <2>3, NoneIsNoAddress
    <3>2. CASE o # owner
      <4>1. new.by_owner[o] = rt.by_owner[o] /\ rt.by_owner[o] \in Address
        BY <3>2, <2>3, <2>4, <2>6
      <4>2. /\ rt.by_addr[rt.by_owner[o]] # None
            /\ TargetOwner(rt.by_addr[rt.by_owner[o]]) = o
        BY <4>1, <2>6 DEF Mutual
      <4>3. rt.by_owner[o] # a
        BY <3>2, <4>2, <2>3, <2>6
      <4>4. rt.by_owner[o] # rt.by_owner[owner]
        BY <4>1, <4>2, <3>2, <2>2, NoneIsNoAddress DEF Mutual
      <4> QED
        BY <4>1, <4>2, <4>3, <4>4, <2>3
    <3> QED
      BY <3>1, <3>2
  <2>7. ASSUME NEW b \in Address, new.by_addr[b] # None
        PROVE  new.by_owner[TargetOwner(new.by_addr[b])] = b
    <3>1. CASE b = a
      BY <3>1, <2>2, <2>3
    <3>2. CASE b # a
      <4>1. new.by_addr[b] = rt.by_addr[b] /\ b # rt.by_owner[owner] /\ rt.by_addr[b] \in Target
        BY <3>2, <2>3, <2>4, <2>7
      <4>2. rt.by_owner[TargetOwner(rt.by_addr[b])] = b
        BY <4>1, <2>7 DEF Mutual
      <4>3. TargetOwner(rt.by_addr[b]) # owner
        BY <4>1, <4>2
      <4>4. rt.by_addr[a] # None => TargetOwner(rt.by_addr[b]) # TargetOwner(rt.by_addr[a])
        BY <4>2, <3>2 DEF Mutual
      <4> QED
        BY <4>1, <4>2, <4>3, <4>4, <2>3, <2>5
    <3> QED
      BY <3>1, <3>2
  <2> QED
    BY <2>6, <2>7 DEF Mutual
<1> QED
  BY <1>1, <1>2

(* remove_peer keeps the two maps mutual.                                  *)
LEMMA WithoutPeerMutual ==
    ASSUME NEW rt \in Routes, NEW peer \in Peer, Mutual(rt)
    PROVE  Mutual(WithoutPeer(rt, peer))
<1> DEFINE new == WithoutPeer(rt, peer)
<1>1. /\ \A a \in Address : new.by_addr[a] =
           IF \E o \in OwnersOf(peer) : rt.by_owner[o] = a THEN None ELSE rt.by_addr[a]
      /\ \A o \in Owner : new.by_owner[o] =
           IF o \in OwnersOf(peer) THEN None ELSE rt.by_owner[o]
  BY DEF WithoutPeer
<1>2. /\ \A a \in Address : rt.by_addr[a] \in Target \cup {None}
      /\ \A o \in Owner : rt.by_owner[o] \in Address \cup {None}
  BY DEF Routes
<1>3. \A t \in Target : TargetOwner(t) \in Owner
  BY DEF Target, TargetOwner, OwnerOf, Owner, Link
<1>4. OwnersOf(peer) \subseteq Owner
  BY DEF OwnersOf
<1>5. ASSUME NEW o \in Owner, new.by_owner[o] # None
      PROVE  /\ new.by_addr[new.by_owner[o]] # None
             /\ TargetOwner(new.by_addr[new.by_owner[o]]) = o
  <2>1. new.by_owner[o] = rt.by_owner[o] /\ rt.by_owner[o] \in Address /\ o \notin OwnersOf(peer)
    BY <1>1, <1>2, <1>5
  <2>2. /\ rt.by_addr[rt.by_owner[o]] # None
        /\ TargetOwner(rt.by_addr[rt.by_owner[o]]) = o
    BY <2>1, <1>5 DEF Mutual
  <2>3. \A p \in OwnersOf(peer) : rt.by_owner[p] # rt.by_owner[o]
    BY <2>1, <2>2, <1>4, NoneIsNoAddress DEF Mutual
  <2> QED
    BY <2>1, <2>2, <2>3, <1>1
<1>6. ASSUME NEW a \in Address, new.by_addr[a] # None
      PROVE  new.by_owner[TargetOwner(new.by_addr[a])] = a
  <2>1. /\ new.by_addr[a] = rt.by_addr[a]
        /\ rt.by_addr[a] \in Target
        /\ \A o \in OwnersOf(peer) : rt.by_owner[o] # a
    BY <1>1, <1>2, <1>6
  <2>2. rt.by_owner[TargetOwner(rt.by_addr[a])] = a
    BY <2>1, <1>6 DEF Mutual
  <2> QED
    BY <2>1, <2>2, <1>1, <1>3
<1> QED
  BY <1>5, <1>6 DEF Mutual

(* Whatever an assign leaves in by_owner was there before or is the new    *)
(* pair.                                                                   *)
LEMMA AssignedOwners ==
    ASSUME NEW rt \in Routes, NEW a \in Address, NEW link \in Link, NEW client \in Behind,
           NEW o \in Owner,
           Assigned(rt, a, link, client).by_owner[o] # None
    PROVE  \/ Assigned(rt, a, link, client).by_owner[o] = rt.by_owner[o]
           \/ /\ o = OwnerOf(link, client)
              /\ Assigned(rt, a, link, client).by_owner[o] = a
BY DEF Assigned, OwnersAfter

(* The same of by_addr and the targets it leads to.                        *)
LEMMA AssignedTargets ==
    ASSUME NEW rt \in Routes, NEW a \in Address, NEW link \in Link, NEW client \in Behind,
           NEW b \in Address,
           Assigned(rt, a, link, client).by_addr[b] # None
    PROVE  \/ Assigned(rt, a, link, client).by_addr[b] = rt.by_addr[b]
           \/ Assigned(rt, a, link, client).by_addr[b] = [link |-> link, client |-> client]
BY DEF Assigned, TargetsAfter

(* After remove_peer no address leads to the peer, if the maps agreed.     *)
LEMMA WithoutPeerForgets ==
    ASSUME NEW rt \in Routes, NEW peer \in Peer, Mutual(rt), NEW a \in Address,
           WithoutPeer(rt, peer).by_addr[a] # None
    PROVE  /\ WithoutPeer(rt, peer).by_addr[a] = rt.by_addr[a]
           /\ rt.by_addr[a].link.peer # peer
<1>1. /\ WithoutPeer(rt, peer).by_addr[a] = rt.by_addr[a]
      /\ \A o \in OwnersOf(peer) : rt.by_owner[o] # a
  BY DEF WithoutPeer
<1>2. rt.by_addr[a] \in Target
  BY <1>1 DEF Routes
<1>3. rt.by_owner[TargetOwner(rt.by_addr[a])] = a
  BY <1>1 DEF Mutual
<1>4. TargetOwner(rt.by_addr[a]) \notin OwnersOf(peer)
  BY <1>1, <1>3
<1> QED
  BY <1>1, <1>2, <1>4 DEF OwnersOf, TargetOwner, OwnerOf, Target, Link, Owner

-----------------------------------------------------------------------------
(* The service starts inside the invariant: empty maps and no calls.       *)
LEMMA InitIInv == Init => IInv
<1> SUFFICES ASSUME Init PROVE IInv
  OBVIOUS
<1>1. NoRoutes \in Routes /\ EmptyBook \in Book
  BY DEF NoRoutes, EmptyBook, Routes, Book
<1>2. TypeOK
  BY <1>1 DEF Init, TypeOK
<1>3. Mutual(routes) /\ RoutesFollowTheBook
  BY DEF Init, NoRoutes, Mutual, RoutesFollowTheBook
<1>4. AddressesDistinct
  BY DEF Init, EmptyBook, AddressesDistinct
<1> QED
  BY <1>2, <1>3, <1>4 DEF Init, IInv, RequestsFollowTheBook, AddressesStay

(* What get_or_assign does to a book: only the asked key may change, from  *)
(* nothing to an address no other key holds; and the answer is an address  *)
(* of the pools that is not the server's own.                              *)
LEMMA GivenFacts ==
    ASSUME NEW bk \in Book, NEW key \in Key, NEW kind \in {"host", "phone"}, NEW a \in Pools,
           IsGiven(bk, key, kind, a)
    PROVE  /\ a \in Address
           /\ WithGiven(bk, key, a) \in Book
           /\ WithGiven(bk, key, a)[key] = a
           /\ \A k \in Key : k # key => WithGiven(bk, key, a)[k] = bk[k]
           /\ bk[key] # None => WithGiven(bk, key, a) = bk
           /\ bk[key] = None => \A k \in Key : bk[k] # a
<1>1. CASE bk[key] # None
  <2>1. a = bk[key] /\ a \in Address
    BY <1>1 DEF IsGiven, Book
  <2> QED
    BY <1>1, <2>1 DEF WithGiven, Book
<1>2. CASE bk[key] = None
  <2>1. a \in Free(bk, kind)
    BY <1>2 DEF IsGiven
  <2>2. a \in Address /\ a # None
    BY <2>1, PoolAssumption, NoneAssumption DEF Free, Pool, Address, Pools
  <2>3. \A k \in Key : bk[k] # a
    BY <2>1, <2>2 DEF Free, Used
  <2> QED
    BY <1>2, <2>2, <2>3 DEF WithGiven, Book
<1> QED
  BY <1>1, <1>2

(* Every step keeps the types.                                             *)
LEMMA TypeStep == TypeOK /\ [Next]_vars => TypeOK'
<1> SUFFICES ASSUME TypeOK, [Next]_vars PROVE TypeOK'
  OBVIOUS
<1> USE DEF TypeOK
<1>1. ASSUME NEW peer \in Peer, Add(peer) PROVE TypeOK'
  BY <1>1 DEF Add, Link
<1>2. ASSUME NEW l \in tasks, NEW client \in Behind, NEW kind \in {"host", "phone"},
             NEW a \in Pools, Grant(l, client, kind, a)
      PROVE  TypeOK'
  <2>1. l \in Link /\ KeyOf(l.peer, client) \in Key
    BY KeyType DEF Link
  <2>2. a \in Address /\ book' \in Book
    BY <1>2, <2>1, GivenFacts DEF Grant
  <2>3. [link |-> l, client |-> client, address |-> a] \in Request
    BY <2>1, <2>2 DEF Request
  <2>4. file' \in Book
    BY <1>2, <2>2 DEF Grant, Saved
  <2>5. [link |-> l, client |-> client] \in Target
    BY <2>1 DEF Target
  <2> QED
    BY <1>2, <2>2, <2>3, <2>4, <2>5 DEF Grant
<1>3. ASSUME NEW r \in serving, Assign(r) PROVE TypeOK'
  <2>1. r.link \in Link /\ r.client \in Behind /\ r.address \in Address
    BY DEF Request
  <2>2. routes' \in Routes
    BY <1>3, <2>1, AssignedType DEF Assign
  <2>3. KeyOf(r.link.peer, r.client) \in Key
    BY <2>1, KeyType DEF Link
  <2> QED
    BY <1>3, <2>1, <2>2, <2>3 DEF Assign
<1>4. ASSUME NEW l \in entries, TakeOut(l) PROVE TypeOK'
  <2>1. [link |-> l, forgotten |-> FALSE] \in Removal
    BY DEF Removal
  <2>2. entries' \subseteq Link /\ removing' \subseteq Removal
    BY <1>4, <2>1 DEF TakeOut
  <2> QED
    BY <1>4, <2>2 DEF TakeOut
<1>5. ASSUME NEW r \in removing, Forget(r) PROVE TypeOK'
  <2>1. r \in Removal /\ r.link.peer \in Peer
    BY DEF Removal, Link
  <2>2. routes' \in Routes
    BY <1>5, <2>1, WithoutPeerType DEF Forget
  <2>3. [r EXCEPT !.forgotten = TRUE] \in Removal
    BY <2>1 DEF Removal
  <2>4. InFlight(r.link) \subseteq Target
    BY <2>1 DEF InFlight, Request, Removal, Target
  <2> QED
    BY <1>5, <2>2, <2>3, <2>4 DEF Forget
<1>6. ASSUME NEW r \in removing, Dropped(r) PROVE TypeOK'
  BY <1>6 DEF Dropped
<1>7. ASSUME Restart PROVE TypeOK'
  <2>1. NoRoutes \in Routes
    BY DEF NoRoutes, Routes
  <2> QED
    BY <1>7, <2>1 DEF Restart
<1>8. CASE UNCHANGED vars
  BY <1>8 DEF vars
<1> QED
  BY <1>1, <1>2, <1>3, <1>4, <1>5, <1>6, <1>7, <1>8 DEF Next

(* Every step keeps the invariant; only a request's two halves and a       *)
(* removal touch what it is about.                                         *)
LEMMA StepIInv == IInv /\ [Next]_vars => IInv'
<1> SUFFICES ASSUME IInv, [Next]_vars PROVE IInv'
  OBVIOUS
<1>t. TypeOK /\ TypeOK'
  BY TypeStep DEF IInv
<1>o. ASSUME NEW o \in Owner PROVE KeyOf(o.peer, o.client) \in Key
  BY KeyType DEF Owner
<1>1. ASSUME UNCHANGED <<book, file, routes, told>>, serving' \subseteq serving
      PROVE  IInv'
  BY <1>1, <1>t DEF IInv, Mutual, AddressesDistinct, RequestsFollowTheBook,
     RoutesFollowTheBook, AddressesStay
<1>2. ASSUME NEW l \in tasks, NEW client \in Behind, NEW kind \in {"host", "phone"},
             NEW a \in Pools, Grant(l, client, kind, a)
      PROVE  IInv'
  <2> DEFINE key == KeyOf(l.peer, client)
  <2>1. l \in Link /\ key \in Key
    BY <1>t, KeyType DEF TypeOK, Link
  <2>2. book \in Book /\ book' = WithGiven(book, key, a) /\ IsGiven(book, key, kind, a)
    BY <1>2, <1>t DEF Grant, TypeOK
  <2>3. /\ a \in Address
        /\ book'[key] = a
        /\ \A k \in Key : k # key => book'[k] = book[k]
        /\ book[key] # None => book' = book
        /\ book[key] = None => \A k \in Key : book[k] # a
    BY <2>1, <2>2, GivenFacts
  <2>4. \A k \in Key : book[k] # None => book'[k] = book[k]
    BY <2>3
  <2>5. file' = book'
    BY <1>2 DEF Grant, Saved, IInv
  <2>6. AddressesDistinct'
    <3>1. ASSUME NEW j \in Key, NEW k \in Key, j # k, book'[j] # None
          PROVE  book'[j] # book'[k]
      <4>1. book \in Book /\ a # None
        BY <2>2, <2>3, NoneIsNoAddress
      <4> QED
        BY <3>1, <4>1, <2>3 DEF IInv, AddressesDistinct
    <3> QED
      BY <3>1, <2>5 DEF AddressesDistinct
  <2>7. RequestsFollowTheBook'
    <3>1. ASSUME NEW r \in serving PROVE book'[KeyOf(r.link.peer, r.client)] = r.address
      <4>1. r \in Request /\ KeyOf(r.link.peer, r.client) \in Key
        BY <1>t, KeyType DEF TypeOK, Request, Link
      <4>2. book[KeyOf(r.link.peer, r.client)] = r.address /\ r.address # None
        BY <4>1, NoneIsNoAddress DEF IInv, RequestsFollowTheBook, Request
      <4> QED
        BY <4>1, <4>2, <2>4
    <3>2. serving' = serving \cup {[link |-> l, client |-> client, address |-> a]}
      BY <1>2 DEF Grant
    <3> QED
      BY <3>1, <3>2, <2>3 DEF RequestsFollowTheBook
  <2>8. RoutesFollowTheBook'
    <3>1. routes' = routes
      BY <1>2 DEF Grant
    <3>2. \A o \in Owner : routes.by_owner[o] # None =>
            book[KeyOf(o.peer, o.client)] = routes.by_owner[o]
      BY DEF IInv, RoutesFollowTheBook
    <3> QED
      BY <3>1, <3>2, <2>4, <1>o DEF RoutesFollowTheBook
  <2>9. AddressesStay'
    <3>1. told' = told
      BY <1>2 DEF Grant
    <3>2. ASSUME NEW t \in told PROVE book'[t[1]] = t[2]
      <4>1. t[1] \in Key /\ t[2] \in Address /\ book[t[1]] = t[2]
        BY <1>t DEF TypeOK, IInv, AddressesStay
      <4> QED
        BY <4>1, <2>4, NoneIsNoAddress
    <3> QED
      BY <3>1, <3>2, <2>5 DEF AddressesStay
  <2>10. Mutual(routes)'
    BY <1>2 DEF Grant, IInv, Mutual
  <2> QED
    BY <1>t, <2>5, <2>6, <2>7, <2>8, <2>9, <2>10 DEF IInv
<1>3. ASSUME NEW r \in serving, Assign(r) PROVE IInv'
  <2>1. /\ r.link \in Link /\ r.client \in Behind /\ r.address \in Address
        /\ routes \in Routes
    BY <1>t DEF TypeOK, Request
  <2>2. /\ routes' = Assigned(routes, r.address, r.link, r.client)
        /\ told' = told \cup {<<KeyOf(r.link.peer, r.client), r.address>>}
        /\ serving' \subseteq serving
        /\ book' = book /\ file' = file
    BY <1>3 DEF Assign
  <2>3. book[KeyOf(r.link.peer, r.client)] = r.address
    BY DEF IInv, RequestsFollowTheBook
  <2>4. Mutual(routes')
    BY <2>1, <2>2, AssignedMutual DEF IInv
  <2>5. RoutesFollowTheBook'
    <3>1. ASSUME NEW o \in Owner, routes'.by_owner[o] # None
          PROVE  book[KeyOf(o.peer, o.client)] = routes'.by_owner[o]
      <4>1. \/ routes'.by_owner[o] = routes.by_owner[o]
            \/ o = OwnerOf(r.link, r.client) /\ routes'.by_owner[o] = r.address
        BY <3>1, <2>1, <2>2, AssignedOwners
      <4> QED
        BY <3>1, <4>1, <2>3 DEF IInv, RoutesFollowTheBook, OwnerOf
    <3> QED
      BY <3>1, <2>2 DEF RoutesFollowTheBook
  <2>6. AddressesStay'
    <3>1. file = book
      BY DEF IInv
    <3> QED
      BY <2>2, <2>3, <3>1 DEF IInv, AddressesStay
  <2> QED
    BY <1>t, <2>2, <2>4, <2>5, <2>6 DEF IInv, AddressesDistinct, RequestsFollowTheBook
<1>4. ASSUME NEW r \in removing, Forget(r) PROVE IInv'
  <2>1. r.link.peer \in Peer /\ routes \in Routes
    BY <1>t DEF TypeOK, Removal, Link
  <2>2. routes' = WithoutPeer(routes, r.link.peer) /\ UNCHANGED <<book, file, serving, told>>
    BY <1>4 DEF Forget
  <2>3. Mutual(routes')
    BY <2>1, <2>2, WithoutPeerMutual DEF IInv
  <2>4. RoutesFollowTheBook'
    BY <2>1, <2>2 DEF IInv, RoutesFollowTheBook, WithoutPeer
  <2> QED
    BY <1>t, <2>2, <2>3, <2>4 DEF IInv, AddressesDistinct, RequestsFollowTheBook, AddressesStay
<1>5. CASE Restart
  <2>1. /\ routes' = NoRoutes /\ serving' = {} /\ book' = file /\ file' = file /\ told' = told
        /\ file = book
    BY <1>5 DEF Restart, IInv
  <2>2. Mutual(routes') /\ RoutesFollowTheBook'
    BY <2>1 DEF NoRoutes, Mutual, RoutesFollowTheBook
  <2> QED
    BY <1>t, <2>1, <2>2 DEF IInv, AddressesDistinct, RequestsFollowTheBook, AddressesStay
<1>6. ASSUME NEW peer \in Peer, Add(peer) PROVE IInv'
  BY <1>6, <1>1 DEF Add
<1>7. ASSUME NEW l \in entries, TakeOut(l) PROVE IInv'
  BY <1>7, <1>1 DEF TakeOut
<1>8. ASSUME NEW r \in removing, Dropped(r) PROVE IInv'
  BY <1>8, <1>1 DEF Dropped
<1>9. CASE UNCHANGED vars
  BY <1>9, <1>1 DEF vars
<1> QED
  BY <1>2, <1>3, <1>4, <1>5, <1>6, <1>7, <1>8, <1>9 DEF Next

LEMMA Invariance == Spec => []IInv
BY InitIInv, StepIInv, PTL DEF Spec
-----------------------------------------------------------------------------
(* Every reachable state is well typed: no client is ever given or routed  *)
(* the server's own address.                                               *)
THEOREM TypeCorrect == Spec => []TypeOK
<1>1. IInv => TypeOK
  BY DEF IInv
<1> QED
  BY <1>1, Invariance, PTL

(* Uplink and downlink agree once the maps are each other's inverse.       *)
LEMMA MutualAgrees ==
    ASSUME TypeOK, Mutual(routes)
    PROVE  RoutesAgree
<1>1. \A t \in Target : TargetOwner(t) \in Owner
  BY DEF Target, TargetOwner, OwnerOf, Owner, Link
<1>2. routes \in Routes /\ None \notin Address
  BY NoneIsNoAddress DEF TypeOK
<1>3. ASSUME NEW a \in Address, NEW o \in Owner
      PROVE  routes.by_owner[o] = a <=>
                routes.by_addr[a] # None /\ TargetOwner(routes.by_addr[a]) = o
  BY <1>1, <1>2, <1>3 DEF Mutual, Routes
<1> QED
  BY <1>3 DEF RoutesAgree, Allowed, Lookup

(* Where a packet for an address goes is who may send from it, in every    *)
(* state and for every history of assignments and removals.                *)
THEOREM RoutesAgreeHolds == Spec => []RoutesAgree
<1>1. IInv => RoutesAgree
  BY MutualAgrees DEF IInv
<1> QED
  BY <1>1, Invariance, PTL

(* No two clients ever share an address, in memory or on disk.             *)
THEOREM AddressesDistinctHolds == Spec => []AddressesDistinct
<1>1. IInv => AddressesDistinct
  BY DEF IInv
<1> QED
  BY <1>1, Invariance, PTL

(* A routed owner holds the address the book gave its key.                 *)
THEOREM RoutesFollowTheBookHolds == Spec => []RoutesFollowTheBook
<1>1. IInv => RoutesFollowTheBook
  BY DEF IInv
<1> QED
  BY <1>1, Invariance, PTL

(* A client once told an address keeps it, through every restart.          *)
THEOREM AddressesStayHolds == Spec => []AddressesStay
<1>1. IInv => AddressesStay
  BY DEF IInv
<1> QED
  BY <1>1, Invariance, PTL
-----------------------------------------------------------------------------
(* A link is started once, so nothing has two removals or is both an entry *)
(* and being removed.                                                      *)
StartedOnce ==
    /\ \A l \in entries : l.start < starts /\ \A r \in removing : r.link # l
    /\ \A r \in removing : r.link.start < starts
    /\ \A q, r \in removing : q.link = r.link => q = r

(* Links whose peer the hub has yet to forget.                             *)
ToForget == entries \cup {r.link : r \in {q \in removing : ~q.forgotten}}

(* A request in flight is of such a link, or it was overtaken.             *)
RequestsKnown ==
    \A r \in serving : r.link \in ToForget \/ [link |-> r.link, client |-> r.client] \in overtaken

(* The same of every route.                                                *)
RoutesKnown ==
    \A a \in Address : routes.by_addr[a] # None =>
        routes.by_addr[a].link \in ToForget \/ routes.by_addr[a] \in overtaken

(* A task that lives is of an entry or of one being removed.               *)
TasksKnown == tasks \subseteq entries \cup {r.link : r \in removing}

RIInv == IInv /\ StartedOnce /\ RequestsKnown /\ RoutesKnown /\ TasksKnown

LEMMA InitRIInv == Init => RIInv
BY InitIInv DEF RIInv, Init, StartedOnce, RequestsKnown, RoutesKnown, TasksKnown, NoRoutes

(* Every step keeps it: only a request whose link the hub has forgotten,   *)
(* or forgets before the request is over, leaves a route without a link.   *)
LEMMA StepRIInv == RIInv /\ [Next]_vars => RIInv'
<1> SUFFICES ASSUME RIInv, [Next]_vars PROVE RIInv'
  OBVIOUS
<1> DEFINE RInv == StartedOnce /\ RequestsKnown /\ RoutesKnown /\ TasksKnown
<1>i. IInv /\ IInv' /\ TypeOK
  BY StepIInv DEF RIInv, IInv
<1>d. StartedOnce /\ RequestsKnown /\ RoutesKnown /\ TasksKnown
  BY DEF RIInv
<1>n. starts \in Nat /\ entries \subseteq Link /\ removing \subseteq Removal
  BY <1>i DEF TypeOK
<1>1. ASSUME NEW peer \in Peer, Add(peer) PROVE RInv'
  <2> DEFINE new == [peer |-> peer, start |-> starts]
  <2>1. /\ entries' = entries \cup {new} /\ tasks' = tasks \cup {new} /\ starts' = starts + 1
        /\ UNCHANGED <<serving, removing, routes, overtaken>>
    BY <1>1 DEF Add
  <2>2. \A r \in removing : r.link # new
    BY <1>d, <1>n DEF StartedOnce
  <2>3. StartedOnce'
    BY <2>1, <2>2, <1>d, <1>n DEF StartedOnce, Link, Removal
  <2>4. ToForget \subseteq ToForget'
    BY <2>1 DEF ToForget
  <2> QED
    BY <2>1, <2>3, <2>4, <1>d DEF RequestsKnown, RoutesKnown, TasksKnown
<1>2. ASSUME NEW l \in tasks, NEW client \in Behind, NEW kind \in {"host", "phone"},
             NEW a \in Pools, Grant(l, client, kind, a)
      PROVE  RInv'
  <2> DEFINE asked == [link |-> l, client |-> client]
  <2>1. /\ UNCHANGED <<entries, tasks, removing, routes, starts>>
        /\ serving' = serving \cup {[link |-> l, client |-> client, address |-> a]}
        /\ overtaken' = IF IsForgotten(l) THEN overtaken \cup {asked} ELSE overtaken
    BY <1>2 DEF Grant
  <2>2. l \in ToForget \/ IsForgotten(l)
    <3>1. CASE l \in entries
      BY <3>1 DEF ToForget
    <3>2. CASE l \notin entries
      <4>1. PICK r \in removing : r.link = l
        BY <3>2, <1>d DEF TasksKnown
      <4>2. CASE r.forgotten
        BY <4>1, <4>2, <1>n DEF IsForgotten, Removal
      <4>3. CASE ~r.forgotten
        BY <4>1, <4>3 DEF ToForget
      <4> QED
        BY <4>2, <4>3
    <3> QED
      BY <3>1, <3>2
  <2>3. ToForget' = ToForget /\ overtaken \subseteq overtaken'
    BY <2>1 DEF ToForget
  <2>4. RequestsKnown'
    <3>1. l \in ToForget' \/ asked \in overtaken'
      BY <2>1, <2>2, <2>3
    <3>2. ASSUME NEW r \in serving'
          PROVE  r.link \in ToForget' \/ [link |-> r.link, client |-> r.client] \in overtaken'
      <4>1. CASE r \in serving
        BY <4>1, <2>3, <1>d DEF RequestsKnown
      <4>2. CASE r = [link |-> l, client |-> client, address |-> a]
        BY <4>2, <3>1
      <4> QED
        BY <4>1, <4>2, <2>1
    <3> QED
      BY <3>2 DEF RequestsKnown
  <2> QED
    BY <2>1, <2>3, <2>4, <1>d DEF StartedOnce, RoutesKnown, TasksKnown
<1>3. ASSUME NEW r \in serving, Assign(r) PROVE RInv'
  <2>1. /\ r.link \in Link /\ r.client \in Behind /\ r.address \in Address /\ routes \in Routes
    BY <1>i DEF TypeOK, Request
  <2>2. /\ routes' = Assigned(routes, r.address, r.link, r.client)
        /\ UNCHANGED <<entries, removing, tasks, starts, overtaken>>
        /\ serving' \subseteq serving
    BY <1>3 DEF Assign
  <2>3. ToForget' = ToForget
    BY <2>2 DEF ToForget
  <2>4. RoutesKnown'
    <3>1. ASSUME NEW a \in Address, routes'.by_addr[a] # None
          PROVE  routes'.by_addr[a].link \in ToForget \/ routes'.by_addr[a] \in overtaken
      <4>1. \/ routes'.by_addr[a] = routes.by_addr[a]
            \/ routes'.by_addr[a] = [link |-> r.link, client |-> r.client]
        BY <3>1, <2>1, <2>2, AssignedTargets
      <4> QED
        BY <4>1, <3>1, <1>d DEF RequestsKnown, RoutesKnown
    <3> QED
      BY <3>1, <2>2, <2>3 DEF RoutesKnown
  <2> QED
    BY <2>2, <2>3, <2>4, <1>d DEF StartedOnce, RequestsKnown, TasksKnown
<1>4. ASSUME NEW l \in entries, TakeOut(l) PROVE RInv'
  <2> DEFINE out == [link |-> l, forgotten |-> FALSE]
  <2>1. /\ entries' = entries \ {l}
        /\ removing' = removing \cup {out}
        /\ UNCHANGED <<tasks, serving, routes, starts, overtaken>>
    BY <1>4 DEF TakeOut
  <2>2. ToForget \subseteq ToForget'
    BY <2>1 DEF ToForget
  <2>3. StartedOnce'
    <3>1. out.link = l /\ l.start < starts /\ \A r \in removing : r.link # l
      BY <1>d DEF StartedOnce
    <3> HIDE DEF out
    <3>2. \A m \in entries' : m.start < starts' /\ \A r \in removing' : r.link # m
      BY <2>1, <3>1, <1>d DEF StartedOnce
    <3>3. \A r \in removing' : r.link.start < starts'
      BY <2>1, <3>1, <1>d DEF StartedOnce
    <3>4. \A q, r \in removing' : q.link = r.link => q = r
      BY <2>1, <3>1, <1>d DEF StartedOnce
    <3> QED
      BY <3>2, <3>3, <3>4 DEF StartedOnce
  <2>4. TasksKnown'
    BY <2>1, <1>d DEF TasksKnown
  <2> QED
    BY <2>1, <2>2, <2>3, <2>4, <1>d DEF RequestsKnown, RoutesKnown
<1>5. ASSUME NEW r \in removing, Forget(r) PROVE RInv'
  <2> DEFINE done == [r EXCEPT !.forgotten = TRUE]
  <2>1. r \in Removal /\ r.link.peer \in Peer /\ routes \in Routes /\ Mutual(routes)
    BY <1>i DEF TypeOK, Removal, Link, IInv
  <2>2. done.link = r.link /\ done.forgotten /\ ~r.forgotten
    BY <2>1, <1>5 DEF Removal, Forget
  <2>3. /\ removing' = (removing \ {r}) \cup {done}
        /\ routes' = WithoutPeer(routes, r.link.peer)
        /\ overtaken' = overtaken \cup InFlight(r.link)
        /\ UNCHANGED <<entries, tasks, serving, starts>>
    BY <1>5 DEF Forget
  <2> HIDE DEF done
  <2>4. \A l \in ToForget : l \in ToForget' \/ l = r.link
    BY <2>3 DEF ToForget
  <2>5. RequestsKnown'
    <3>1. ASSUME NEW q \in serving
          PROVE  q.link \in ToForget' \/ [link |-> q.link, client |-> q.client] \in overtaken'
      <4>1. CASE q.link = r.link
        BY <4>1, <2>3 DEF InFlight
      <4>2. CASE q.link # r.link
        BY <4>2, <2>3, <2>4, <1>d DEF RequestsKnown
      <4> QED
        BY <4>1, <4>2
    <3> QED
      BY <3>1, <2>3 DEF RequestsKnown
  <2>6. RoutesKnown'
    <3>1. ASSUME NEW a \in Address, routes'.by_addr[a] # None
          PROVE  routes'.by_addr[a].link \in ToForget' \/ routes'.by_addr[a] \in overtaken'
      <4>1. routes'.by_addr[a] = routes.by_addr[a] /\ routes.by_addr[a].link.peer # r.link.peer
        BY <3>1, <2>1, <2>3, WithoutPeerForgets
      <4> QED
        BY <4>1, <3>1, <2>3, <2>4, <1>d DEF RoutesKnown
    <3> QED
      BY <3>1 DEF RoutesKnown
  <2>7. StartedOnce'
    BY <2>2, <2>3, <1>d DEF StartedOnce
  <2>8. TasksKnown'
    BY <2>2, <2>3, <1>d DEF TasksKnown
  <2> QED
    BY <2>5, <2>6, <2>7, <2>8
<1>6. ASSUME NEW r \in removing, Dropped(r) PROVE RInv'
  <2>1. /\ removing' = removing \ {r} /\ tasks' = tasks \ {r.link}
        /\ UNCHANGED <<entries, serving, routes, starts, overtaken>>
        /\ r.forgotten
    BY <1>6 DEF Dropped
  <2>2. ToForget' = ToForget
    BY <2>1 DEF ToForget
  <2>3. TasksKnown'
    BY <2>1, <1>d DEF TasksKnown
  <2>4. StartedOnce'
    BY <2>1, <1>d DEF StartedOnce
  <2> QED
    BY <2>1, <2>2, <2>3, <2>4, <1>d DEF RequestsKnown, RoutesKnown
<1>7. ASSUME Restart PROVE RInv'
  BY <1>7 DEF Restart, StartedOnce, RequestsKnown, RoutesKnown, TasksKnown, NoRoutes
<1>8. ASSUME UNCHANGED vars PROVE RInv'
  BY <1>8, <1>d DEF vars, StartedOnce, RequestsKnown, RoutesKnown, TasksKnown, ToForget
<1> QED
  BY <1>i, <1>1, <1>2, <1>3, <1>4, <1>5, <1>6, <1>7, <1>8 DEF Next, RIInv

(* On any runtime a removed peer's addresses lead nowhere once remove_peer *)
(* is over, but for those of the requests it overtook.                     *)
THEOREM RoutesLeadToEntriesHolds == Spec => []RoutesLeadToEntries
<1>1. RIInv => RoutesLeadToEntries
  BY DEF RIInv, RoutesKnown, RoutesLeadToEntries, ToForget
<1> QED
  BY <1>1, InitRIInv, StepRIInv, PTL DEF Spec

(* On a single-threaded runtime (vps-server by default) a removal overtakes *)
(* no request, so that the comment of Hub::remove_peer is right there.      *)
NoneOvertakenHere == overtaken = {} /\ (removing # {} => serving = {})

THEOREM OneThreadForgets ==
    ASSUME ~MultiThread
    PROVE  Spec => []RemovedAreForgotten
<1>1. Init => RIInv /\ NoneOvertakenHere
  BY InitRIInv DEF Init, NoneOvertakenHere
<1>2. RIInv /\ NoneOvertakenHere /\ [Next]_vars => (RIInv /\ NoneOvertakenHere)'
  <2> SUFFICES ASSUME NoneOvertakenHere, [Next]_vars PROVE NoneOvertakenHere'
    BY StepRIInv
  <2>1. ASSUME NEW peer \in Peer, Add(peer) PROVE NoneOvertakenHere'
    BY <2>1 DEF Add, NoneOvertakenHere
  <2>2. ASSUME NEW l \in tasks, NEW client \in Behind, NEW kind \in {"host", "phone"},
               NEW a \in Pools, Grant(l, client, kind, a)
        PROVE  NoneOvertakenHere'
    BY <2>2 DEF Grant, Undisturbed, IsForgotten, NoneOvertakenHere
  <2>3. ASSUME NEW r \in serving, Assign(r) PROVE NoneOvertakenHere'
    BY <2>3 DEF Assign, NoneOvertakenHere
  <2>4. ASSUME NEW l \in entries, TakeOut(l) PROVE NoneOvertakenHere'
    BY <2>4 DEF TakeOut, Undisturbed, NoneOvertakenHere
  <2>5. ASSUME NEW r \in removing, Forget(r) PROVE NoneOvertakenHere'
    BY <2>5 DEF Forget, InFlight, NoneOvertakenHere
  <2>6. ASSUME NEW r \in removing, Dropped(r) PROVE NoneOvertakenHere'
    BY <2>6 DEF Dropped, NoneOvertakenHere
  <2>7. ASSUME Restart PROVE NoneOvertakenHere'
    BY <2>7 DEF Restart, NoneOvertakenHere
  <2>8. ASSUME UNCHANGED vars PROVE NoneOvertakenHere'
    BY <2>8 DEF vars, NoneOvertakenHere
  <2> QED
    BY <2>1, <2>2, <2>3, <2>4, <2>5, <2>6, <2>7, <2>8 DEF Next
<1>3. RIInv /\ NoneOvertakenHere => RemovedAreForgotten
  BY DEF RIInv, RoutesKnown, ToForget, NoneOvertakenHere, RemovedAreForgotten
<1> QED
  BY <1>1, <1>2, <1>3, PTL DEF Spec
=============================================================================
