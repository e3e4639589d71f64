------------------------------ MODULE MCVault ------------------------------
(***************************************************************************)
(* Small instances of the accounting core for TLC.                         *)
(***************************************************************************)
EXTENDS Vault, TLC

Symmetry == Permutations(Users)
=============================================================================
