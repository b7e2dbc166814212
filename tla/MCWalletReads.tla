----------------------------- MODULE MCWalletReads -----------------------------
(* A small instance of WalletReads for TLC.                                *)
EXTENDS WalletReads

Steps == {1, -1}
===============================================================================
