------------------------------ MODULE MCServer ------------------------------
(***************************************************************************)
(* Small instances of two parts of the server that share nothing: the      *)
(* holes of one client (VpsServer) and the peers in service (Pairing).  A  *)
(* behaviour follows one of the two; `part` says which.                    *)
(*                                                                         *)
(* VpsServer: an old client that registers its numbers anew with new       *)
(* sessions, and a new one that is restarted once and takes numbers of its *)
(* own each time.  Pairing: two connections of the tray, and clients two   *)
(* of which have GUIDs with the same first group; clients.txt is changed   *)
(* three times, or twice with a restart in between, before or after.       *)
(***************************************************************************)
EXTENDS VpsServer, Pairing

CONSTANTS s1, s2, s3, s4, p1, p2, ClientA, ClientB, ClientC

VARIABLE part

Request(slot, session, started) == [slot |-> slot, session |-> session, started |-> started]

MCOldClient == {Request(1, s1, 0), Request(1, s2, 0), Request(2, s3, 0), Request(3, s4, 0)}
MCNewClient == {Request(1, s1, 1), Request(2, s2, 1), Request(3, s3, 2), Request(4, s4, 2)}
MCClients == {MCOldClient, MCNewClient}
MCPort == {p1, p2}

MCClient == {ClientA, ClientB, ClientC}
MCNameOf == [c \in MCClient |-> IF c = ClientC THEN "c" ELSE "ab"]
MCPrograms == {"hp-server", "hp-router", "vps-server"}

MCInit ==
    /\ Init /\ PairingInit
    /\ \/ part = "holes" /\ program = "vps-server"
       \/ part = "peers" /\ client = MCOldClient

MCNext ==
    \/ part = "holes" /\ Next /\ UNCHANGED <<pairingVars, part>>
    \/ /\ part = "peers" /\ PairingNext /\ edits' + restarts' <= MaxEdits
       /\ UNCHANGED <<vars, part>>

serverVars == <<vars, pairingVars, part>>

MCSpec == MCInit /\ [][MCNext]_serverVars
MCFairSpec == MCSpec /\ (part = "peers" => Fairness)
=============================================================================
