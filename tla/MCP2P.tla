------------------------------- MODULE MCP2P -------------------------------
(***************************************************************************)
(* A small instance of P2P: sets of one or two holes.  Without troubles the *)
(* sets grow, three sessions a side; with one trouble six, as many as the    *)
(* sides open at most: with seven there are no more states.                 *)
(***************************************************************************)
EXTENDS P2P

MCBounds == {[sessions |-> 3, troubles |-> 0, growth |-> BOOLEAN],
             [sessions |-> 6, troubles |-> 1, growth |-> {FALSE}]}
MCFirstId == [s \in Side |-> IF s = "a" THEN 1 ELSE 3]
=============================================================================
