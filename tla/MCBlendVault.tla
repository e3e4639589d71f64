---------------------------- MODULE MCBlendVault ----------------------------
(***************************************************************************)
(* A small instance of the contract's entry points for TLC: alice, bob and *)
(* carol hold shares, alice delegates to both others, bob may also become  *)
(* signer and carol admin.                                                 *)
(***************************************************************************)
EXTENDS BlendVault

CONSTANTS alice, bob, carol, dan

MCUsers == {alice, bob, carol}
MCDelegations == {<<alice, bob>>, <<alice, carol>>}

\* Every step overwrites auths and none reads it.
KeysView == <<vault, shares, pool, wallet, ledger, allowance, keys>>
=============================================================================
