------------------------------ MODULE MCTunnel ------------------------------
(***************************************************************************)
(* A small instance of Tunnel: two uplinks, the first one preferred, and   *)
(* one relay.                                                              *)
(***************************************************************************)
EXTENDS Tunnel

MCUplink == 1 .. 2
=============================================================================
