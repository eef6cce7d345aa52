----------------------------- MODULE MCPackets -----------------------------
(***************************************************************************)
(* Small instances of what is done for packets: their order (Flows) and    *)
(* the statistics about them (Feedback), which share nothing.  A behaviour *)
(* follows one of the two; `part` says which.                              *)
(*                                                                         *)
(* Flows: a ring of four slots, one session fewer than the senders' flows  *)
(* need, and one new numbering of each behaviour.  Feedback: six numbers   *)
(* that come round, a window of two, a channel for two events and reports  *)
(* of two packets; either one client has all the numbers go round, or two  *)
(* clients share the collector.                                            *)
(***************************************************************************)
EXTENDS Flows, Feedback

CONSTANTS alice, bob

VARIABLE part

MCMaxSent == [p \in {alice, bob} |-> IF p = alice THEN 7 ELSE 1]

(* How many packets are sent to a client in a part. *)
Quota(p) ==
    CASE part = "one client" -> IF p = alice THEN 7 ELSE 0
      [] part = "two clients" -> IF p = alice THEN 2 ELSE 1
      [] OTHER -> 0

FeedbackPart == part \in {"one client", "two clients"}

MCInit == FlowsInit /\ FeedbackInit /\ part \in {"order", "one client", "two clients"}

MCNext ==
    \/ part = "order" /\ FlowsNext /\ UNCHANGED <<feedbackVars, part>>
    \/ /\ FeedbackPart /\ FeedbackNext /\ \A p \in Peer : sent'[p] <= Quota(p)
       /\ UNCHANGED <<allVars, part>>

packetVars == <<allVars, feedbackVars, part>>

MCSpec == MCInit /\ [][MCNext]_packetVars
MCFairSpec == MCSpec /\ (FeedbackPart => WF_feedbackVars(Collect) /\ WF_feedbackVars(Sweep))
=============================================================================
