--------------------------- MODULE MCVaultSummary ---------------------------
(***************************************************************************)
(* A small instance of the summary for TLC: a typical curve, the flat one  *)
(* with target 0 that the tests deploy, and one with the target at 95%.    *)
(***************************************************************************)
EXTENDS VaultSummary

Typical ==
  [r_base |-> 1, r_one |-> 3, r_two |-> 7, r_three |-> 50, util |-> 30, bstop_rate |-> 4]
Flat ==
  [r_base |-> 4, r_one |-> 0, r_two |-> 0, r_three |-> 0, util |-> 0, bstop_rate |-> 0]
LateTarget ==
  [r_base |-> 2, r_one |-> 11, r_two |-> 13, r_three |-> 40, util |-> 38, bstop_rate |-> 8]

MCConfigs == {Typical, Flat, LateTarget}
=============================================================================
