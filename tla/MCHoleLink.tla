----------------------------- MODULE MCHoleLink -----------------------------
(***************************************************************************)
(* Small instances of HoleLink.  Lossy: the other end is one port away     *)
(* from where it was seen, or is passive; one of the ends moves once, a    *)
(* packet is lost, another comes twice.  Slow: nothing is lost, but a hole *)
(* that sends its statistics has up to five packets on their way, in any   *)
(* order, so that a report overtakes what it counts.                       *)
(***************************************************************************)
EXTENDS HoleLink

MCPlace == [e \in End |-> IF e = "a" THEN << <<"home", 2>>, <<"mobile", 2>> >>
                                     ELSE << <<"office", 2>> >>]

Lossy(known) ==
    [known |-> [a |-> << <<"office", 1>>, <<"old", 2>> >>, b |-> known],
     kinds |-> [a |-> {"Stats", "TimeProbe"}, b |-> {"KeepAlive"}],
     rounds |-> [a |-> 2, b |-> 3], lites |-> [a |-> 1, b |-> 1],
     moves |-> 1, flight |-> 2, losses |-> 1, copies |-> 1]

Slow ==
    [known |-> [a |-> <<>>, b |-> << <<"home", 2>> >>],
     kinds |-> [a |-> {"Stats", "KeepAlive"}, b |-> {"KeepAlive"}],
     rounds |-> [a |-> 0, b |-> 1], lites |-> [a |-> 5, b |-> 1],
     moves |-> 0, flight |-> 5, losses |-> 0, copies |-> 0]

MCSettings == {Lossy(<<>>), Lossy(<< <<"home", 2>> >>), Slow}
=============================================================================
