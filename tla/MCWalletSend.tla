---------------------------- MODULE MCWalletSend ----------------------------
(* A transfer of each of two bills. *)
EXTENDS WalletSend, TLC

CONSTANTS b1, b2, t1, t2

MCBills == {b1, b2}
MCTransfers == {t1, t2}
MCBillOf == (t1 :> b1) @@ (t2 :> b2)
=============================================================================
