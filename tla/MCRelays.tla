------------------------------ MODULE MCRelays ------------------------------
(***************************************************************************)
(* A small instance of Relays: one relay with one port for sessions, a     *)
(* client with two holes.                                                  *)
(***************************************************************************)
EXTENDS Relays

MCRelay == {1}
MCHole == {1, 2}
MCToken == {1, 2}
MCSessionPort == {7}
\* Few losses, many, or none known yet.
MCMeasured ==
    {[old |-> TRUE, loss_out |-> loss, sent |-> 2, loss_in |-> IF loss = NotKnown THEN loss ELSE 0,
      received |-> 2] : loss \in {NotKnown, 5, 300}}
=============================================================================
