--------------------------- MODULE MCRootObserver ---------------------------
(* TLC instances of RootObserver. *)
EXTENDS RootObserver, TLC

CONSTANTS a1, a2, again, fork, m1, m2

\* again is a1 signed anew, too late after a2; fork leaves the log after a1,
\* collides with again (one time) and with a2 only by its content.
MCTree == a1 :> <<1>> @@ a2 :> <<1, 2>> @@ again :> <<1>> @@ fork :> <<1, 3, 4>>
MCTime == a1 :> 1 @@ a2 :> 2 @@ again :> 3 @@ fork :> 3
MCTrees == [r \in Roots |-> MCTree[r]]
MCTimes == [r \in Roots |-> MCTime[r]]
MCMirrors == <<m1, m2>>
MCOneMirror == <<m1>>
MCSymmetry == Permutations(Gossips) \cup Permutations(Peers)

=============================================================================
