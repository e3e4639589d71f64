----------------------------- MODULE MCStorage -----------------------------
(***************************************************************************)
(* A small instance of the storage lifetimes for TLC.                      *)
(***************************************************************************)
EXTENDS StorageLifetimes

CONSTANTS alice, bob, carol

MCUsers == {alice, bob}
MCDelegations == {<<alice, bob>>}
=============================================================================
