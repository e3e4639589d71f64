----------------------------- MODULE MCEventLog -----------------------------
(***************************************************************************)
(* A small instance of the event log for TLC.                              *)
(***************************************************************************)
EXTENDS EventLog

CONSTANTS alice, bob, carol

MCUsers == {alice, bob}
MCDelegations == {<<alice, bob>>}

\* Every step overwrites auths and event and none reads them: states that
\* differ only there have the same successors.  The properties of steps are
\* still checked on every step.
LogView == <<vault, shares, pool, wallet, ledger, allowance, keys, log>>
=============================================================================
