---------------------------- MODULE MCAppendQueue ----------------------------
(* TLC instances of AppendQueue. *)
EXTENDS AppendQueue, TLC

CONSTANTS j1, j2, j3, j4, p1, p2

\* One address with three handler threads against an address with one.
MCPeerOf == [j \in Requests |-> IF j = j4 THEN p2 ELSE p1]

=============================================================================
