----------------------------- MODULE MCSpendMap -----------------------------
(* TLC instances of SpendMap: a tree of four slots. *)
EXTENDS SpendMap, TLC

CONSTANTS c1, c2, c3

\* c1 and c2 are neighbours, c3 is in the other half and rivalled by nobody.
MCKeyOf == [c \in Claims |-> CASE c = c1 -> 0 [] c = c2 -> 1 [] c = c3 -> 2]

=============================================================================
