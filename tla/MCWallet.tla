------------------------------ MODULE MCWallet ------------------------------
(* The wallet at a size TLC explores completely. *)
EXTENDS Wallet
CONSTANTS w1, t1
=============================================================================
