-------------------------- MODULE MCWalletTransfer --------------------------
(***************************************************************************)
(* Instances of WalletTransfer for TLC.                                     *)
(***************************************************************************)
EXTENDS WalletTransfer, TLC

CONSTANTS p1, c1, d1
=============================================================================
