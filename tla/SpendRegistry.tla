---------------------------- MODULE SpendRegistry ----------------------------
(***************************************************************************)
(* What a transparency operator promises its clients, with no log, no      *)
(* roots and no recovery: a registry of spend claims in which the first    *)
(* transfer to claim a spend key keeps it.  Claims whose proof archive was *)
(* mirrored are durable: nothing, not even a lost disk, takes them back.   *)
(***************************************************************************)
CONSTANTS Transfers, SpendKeyOf

VARIABLES
    registered,  \* transfers that hold their spend key
    durable      \* registered transfers that an archive proves

vars == <<registered, durable>>

RivalOf(t, u) == t # u /\ SpendKeyOf[t] = SpendKeyOf[u]

Init == registered = {} /\ durable = {}

\* The first claim of a spend key wins.
Register(t) ==
    /\ \A u \in registered : ~RivalOf(t, u)
    /\ registered' = registered \cup {t}
    /\ UNCHANGED durable

\* A mirrored archive makes a set of registered claims durable.
MakeDurable(S) ==
    /\ S \subseteq registered
    /\ durable' = durable \cup S
    /\ UNCHANGED registered

\* A lost disk forgets claims, never durable ones.
Forget(S) ==
    /\ durable \subseteq S /\ S \subseteq registered
    /\ registered' = S
    /\ UNCHANGED durable

Next ==
    \/ \E t \in Transfers : Register(t)
    \/ \E S \in SUBSET Transfers : MakeDurable(S) \/ Forget(S)

Spec == Init /\ [][Next]_vars

\* Two registered transfers never share a spend key.
FirstClaimWins == \A t, u \in registered : ~RivalOf(t, u)

=============================================================================
