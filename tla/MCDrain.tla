------------------------------ MODULE MCDrain ------------------------------
(***************************************************************************)
(* A small instance of Drain: one request period of 2, a wait of 5 (so a   *)
(* request is repeated twice), the smallest GRACE the assumption allows,   *)
(* and both ends free to ask at any moment of 0 .. Horizon.                *)
(***************************************************************************)
EXTENDS Drain

MCConfirmWait == 5
MCRetry == 2
MCNetDelay == 1
MCLateness == 1
MCGrace == MCConfirmWait + MCNetDelay + MCLateness + 1
MCHorizon == 3
=============================================================================
