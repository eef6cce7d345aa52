----------------------------- MODULE MCHolePool -----------------------------
(***************************************************************************)
(* Small instances of HolePool: every pool of up to max_total * 2 holes.   *)
(***************************************************************************)
EXTENDS HolePool

MCMinActive == 1
MCMaxTotal == 2
MCMaxTroubles == 2
=============================================================================
