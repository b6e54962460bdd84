---------------------------- MODULE MCWalletSync ----------------------------
(* TLC instance of WalletSync: two bills, one peer, pages of one record. *)
EXTENDS WalletSync, TLC
=============================================================================
