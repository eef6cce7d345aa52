---------------------------- MODULE MCMultiLink ----------------------------
(***************************************************************************)
(* A small instance of MultiLink: two holes of a server.  A channel holds  *)
(* one command, so it is full at times.                                    *)
(***************************************************************************)
EXTENDS MultiLink

MCSlot == 1 .. 2
=============================================================================
