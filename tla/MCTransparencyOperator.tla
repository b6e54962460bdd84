----------------------- MODULE MCTransparencyOperator -----------------------
(* TLC instances of TransparencyOperator. *)
EXTENDS TransparencyOperator, TLC

CONSTANTS t1, t2, t3, k1, k2

\* t1 and t2 spend the same bill state, t3 another one.  t2 is the older of the
\* two, so the recovery feeds offer it first.
MCKeys == (t1 :> k1) @@ (t2 :> k1) @@ (t3 :> k2)
MCSpendKeyOf == [t \in Transfers |-> MCKeys[t]]
MCRanks == (t2 :> 0) @@ (t1 :> 1) @@ (t3 :> 2)
MCFeedRank == [t \in Transfers |-> MCRanks[t]]

MCSymmetry == Permutations(Requests) \cup Permutations(Publishers)

=============================================================================
