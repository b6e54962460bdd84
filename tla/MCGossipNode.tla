---------------------------- MODULE MCGossipNode ----------------------------
(* Two rival transfers, their proof and one report. *)
EXTENDS GossipNode

CONSTANTS t1, t2, c, rep

MCExposes == [p \in {c} |-> {t1, t2}]

=============================================================================
