---------------------------- MODULE MCBillChain ----------------------------
(* TLC instances of BillChain: a bill that goes back and forth. *)
EXTENDS BillChain, TLC

CONSTANTS n1, n2, n3, issue, a, b, c, d

\* b comes on the day of issue and a, which is over the limit; c comes a day later.
MCParent == [t \in Transfers |-> CASE t = issue -> Genesis [] t = a -> issue
                                   [] t \in {b, c} -> a [] t = d -> c]
MCTime == [t \in Transfers |-> CASE t = issue -> 1 [] t = a -> 2 [] t = b -> 3
                                 [] t = c -> 12 [] t = d -> 13]
\* c pays a wallet whose node heard nothing of a.
MCNewcomer == [t \in Transfers |-> CASE t = a -> n2 [] t = c -> n3 [] OTHER -> n1]
MCRecipient == [t \in Transfers |-> IF t \in {a, d} THEN n2 ELSE n1]

=============================================================================
