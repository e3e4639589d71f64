---------------------------- MODULE MCCallFrames ----------------------------
(***************************************************************************)
(* A small instance of the call frames for TLC.                            *)
(***************************************************************************)
EXTENDS CallFrames

CONSTANTS alice, bob, carol

MCUsers == {alice, bob}
MCOneUser == {alice}
MCDelegations == {<<alice, bob>>}
=============================================================================
