---------------------------- MODULE MCSettlement ----------------------------
(* TLC instances of Settlement. *)
EXTENDS Settlement, TLC

CONSTANTS n1, n2, a, b, c, d

\* a and b spend the same bill state; c and d both spend the state after a.
MCFamily == (a :> {}) @@ (b :> {}) @@ (c :> {a}) @@ (d :> {a})
MCAncestors == [t \in Transfers |-> MCFamily[t]]

MCPeers == [n \in Nodes |-> Nodes \ {n}]
MCNoPeers == [n \in Nodes |-> {}]

\* Each node hears of one branch only, n2 of what n1 sends, or all of everything.
MCSplit == {<<n1, a>>, <<n2, b>>}
MCReceiver == {<<n2, a>>}
MCAll == Nodes \X Transfers
MCOwnFirst == {<<n1, a>>}

\* Which claims reach an operator behind the nodes' back.
MCAnyOperator == Operators \X Transfers
MCStrayFirst == Operators \X {a}

MCSymmetry == Permutations(Operators) \cup Permutations(Finalizers)

\* a and b may be exchanged where every node hears of both.
MCBranchSymmetry == MCSymmetry \cup Permutations({a, b})

=============================================================================
