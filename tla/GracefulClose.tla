--------------------------- MODULE GracefulClose ---------------------------
(***************************************************************************)
(* What closing a hole by agreement promises, without clocks, timers or    *)
(* messages.  A hole has two ends.  Each end sends data over the hole and  *)
(* receives data from it; an end may be told by the other that the hole is *)
(* going away.  The promise: an end stops receiving only after it stopped  *)
(* sending, and an end that was told is never left sending into a hole     *)
(* whose other end is gone.                                                *)
(***************************************************************************)
CONSTANT End          \* the two ends of the hole

VARIABLES
    sending,          \* sending[e]: e still chooses the hole for data
    receiving,        \* receiving[e]: e's socket is open
    told              \* told[e]: e learned that the other end drains the hole

vars == <<sending, receiving, told>>

\* Three flags for each end.
TypeOK ==
    /\ sending \in [End -> BOOLEAN]
    /\ receiving \in [End -> BOOLEAN]
    /\ told \in [End -> BOOLEAN]

Init ==
    /\ sending = [e \in End |-> TRUE]
    /\ receiving = [e \in End |-> TRUE]
    /\ told = [e \in End |-> FALSE]

\* The end learns of the drain while both ends still receive; it may stop
\* sending in the same step.
Tell(e) ==
    /\ ~told[e]
    /\ \A d \in End : receiving[d]
    /\ told' = [told EXCEPT ![e] = TRUE]
    /\ \E s \in BOOLEAN : sending' = [sending EXCEPT ![e] = @ /\ s]
    /\ UNCHANGED receiving

StopSending(e) ==
    /\ sending[e]
    /\ sending' = [sending EXCEPT ![e] = FALSE]
    /\ UNCHANGED <<receiving, told>>

\* The end closes the hole: it no longer sends, and nobody who was told does.
StopReceiving(e) ==
    /\ receiving[e]
    /\ ~sending[e]
    /\ \A d \in End : told[d] => ~sending[d]
    /\ receiving' = [receiving EXCEPT ![e] = FALSE]
    /\ UNCHANGED <<sending, told>>

Next == \E e \in End : Tell(e) \/ StopSending(e) \/ StopReceiving(e)

Spec == Init /\ [][Next]_vars
=============================================================================
