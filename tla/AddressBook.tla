---------------------------- MODULE AddressBook ----------------------------
(***************************************************************************)
(* The server's book of tunnel addresses                                   *)
(* (hp-server/src/addresses.rs): which address each client key holds, and  *)
(* the first free address of a pool for a key that has none.               *)
(*                                                                         *)
(* A book is a function from keys to addresses, None where nothing has     *)
(* been given out.  Addresses are numbers in the order the pools are       *)
(* walked; the subnet does not change while the book is used, so contains  *)
(* holds of every address in it.                                           *)
(***************************************************************************)
EXTENDS Naturals

CONSTANTS
    Name,       \* peers' short names (first group of the GUID)
    Client,     \* numbers of phones behind a router (client_id)
    HostPool,   \* the addresses for routers and hosts
    PhonePool,  \* the addresses for phones; the same set in a narrow subnet
    Server,     \* the server's own address in the tunnel
    None        \* Option::None

ASSUME PoolAssumption == HostPool \subseteq Nat /\ PhonePool \subseteq Nat
ASSUME NoneAssumption == None \notin Nat /\ None \notin Client

Pools == HostPool \cup PhonePool
Address == Pools \ {Server}
Behind == Client \cup {None}

(* client_key: "peer:<name>" or "via:<name>:<client>". *)
Key == [name : Name, client : Behind]

Book == [Key -> Address \cup {None}]
EmptyBook == [k \in Key |-> None]

Pool(kind) == IF kind = "host" THEN HostPool ELSE PhonePool

Used(book) == {book[k] : k \in Key} \ {None}
Free(book, kind) == (Pool(kind) \ {Server}) \ Used(book)

(* The address get_or_assign returns for a key: the one it holds, else the *)
(* first free one of the pool.                                             *)
IsGiven(book, key, kind, a) ==
    IF book[key] # None
    THEN a = book[key]
    ELSE /\ a \in Free(book, kind)
         /\ \A b \in Free(book, kind) : a <= b

(* The book after that call. *)
WithGiven(book, key, a) == [book EXCEPT ![key] = a]

=============================================================================
