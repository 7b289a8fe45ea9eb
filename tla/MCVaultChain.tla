---------------------------- MODULE MCVaultChain ----------------------------
(***************************************************************************)
(* Small instances of VaultChain for TLC.                                  *)
(***************************************************************************)
EXTENDS VaultChain

MCDeposits == {1}
=============================================================================
