---------------------------- MODULE BlendVault ----------------------------
(***************************************************************************)
(* The contract's entry points (contract.rs): who must authorize a call,   *)
(* the SEP-41 allowances that delegate a holder's shares (storage.rs), and *)
(* the administrative keys, on top of the accounting of module Vault.      *)
(***************************************************************************)
EXTENDS Vault

CONSTANTS
  Delegations,    \* <<from, spender>> pairs whose allowance is modelled
  Admins,         \* addresses that may become admin
  Signers,        \* addresses that may become deposit signer
  ApproveAmounts, \* amounts a holder may approve
  Expirations,    \* expiration ledgers a holder may give
  NoSigner        \* get_signer's None

ASSUME DelegationsAssumption == Delegations \subseteq Users \X Users
ASSUME ApproveAmountsAssumption == ApproveAmounts \subseteq Int
ASSUME ExpirationsAssumption == Expirations \subseteq Nat
ASSUME NoSignerAssumption == NoSigner \notin Signers \cup Admins

VARIABLES
  allowance,   \* the AllowanceValue stored for every delegation
  admin,
  signer,
  router_set,  \* whether set_router was ever called
  auths        \* the addresses whose authorization the last call consumed

blendVars == <<vault, shares, pool, wallet, ledger, allowance, admin, signer, router_set, auths>>

AllowanceValue == [amount : Int, expiration_ledger : Nat]

BlendTypeOK ==
  /\ TypeOK
  /\ allowance \in [Delegations -> AllowanceValue]
  /\ admin \in Admins
  /\ signer \in Signers \cup {NoSigner}
  /\ router_set \in BOOLEAN
  /\ auths \subseteq Users \cup Admins \cup Signers

\* __constructor; no entry in storage reads as an allowance of 0.
BlendInit ==
  /\ VaultInit
  /\ allowance = [d \in Delegations |-> [amount |-> 0, expiration_ledger |-> 0]]
  /\ admin \in Admins
  /\ signer = NoSigner
  /\ router_set = FALSE
  /\ auths = {admin}

keys == <<admin, signer, router_set>>
-----------------------------------------------------------------------------
\* storage.rs:204-213: an expired allowance reads as nothing.
get_allowance(from, spender) ==
  LET stored == allowance[<<from, spender>>]
  IN  IF stored.expiration_ledger >= ledger THEN stored.amount ELSE 0

\* Mutant: every use of a delegation prolongs it.
SpendAndProlong(from, spender, amount) ==
  /\ <<from, spender>> \in Delegations
  /\ get_allowance(from, spender) >= amount
  /\ allowance' = [allowance EXCEPT ![<<from, spender>>] =
                     [amount |-> @.amount - amount, expiration_ledger |-> ledger + 1]]

\* Takes `amount` off a delegation that covers it; its expiration stays.
SpendAllowance(from, spender, amount) ==
  /\ <<from, spender>> \in Delegations
  /\ get_allowance(from, spender) >= amount
  /\ allowance' = [allowance EXCEPT ![<<from, spender>>].amount = @ - amount]

\* Mutant: the allowance is checked but not charged.
check_operator_allowance(owner, operator, burnt) ==
  /\ owner # operator => /\ <<owner, operator>> \in Delegations
                         /\ get_allowance(owner, operator) >= burnt
  /\ UNCHANGED allowance

\* contract.rs:30-39: owners burn their own shares without an allowance.
spend_operator_allowance(owner, operator, burnt) ==
  IF owner = operator THEN UNCHANGED allowance
                      ELSE SpendAllowance(owner, operator, burnt)
-----------------------------------------------------------------------------
(***************************************************************************)
(* Entry points.                                                           *)
(***************************************************************************)

\* contract.rs:205-209: neither the amount nor the expiration is checked.
Approve(from, spender, amount, expiration_ledger) ==
  /\ <<from, spender>> \in Delegations
  /\ allowance' = [allowance EXCEPT ![<<from, spender>>] =
                     [amount |-> amount, expiration_ledger |-> expiration_ledger]]
  /\ auths' = {from}
  /\ UNCHANGED <<vaultVars, keys>>

\* contract.rs:217-231.
Transfer(from, to, amount) ==
  /\ MoveShares(from, to, amount)
  /\ auths' = {from}
  /\ UNCHANGED <<allowance, keys>>

\* contract.rs:240-261.
TransferFrom(spender, from, to, amount) ==
  /\ SpendAllowance(from, spender, amount)
  /\ MoveShares(from, to, amount)
  /\ auths' = {spender}
  /\ UNCHANGED keys

\* contract.rs:367-391.  The signer is asked in the operator's frame, where
\* the same address cannot authorize twice; `from` is asked by the pool.
DepositCall(amount, receiver, from, operator) ==
  /\ operator # signer
  /\ Deposit(amount, receiver, from)
  /\ auths' = {operator, from} \cup ({signer} \ {NoSigner})
  /\ UNCHANGED <<allowance, keys>>

\* contract.rs:404-428: the allowance is charged the shares really burnt.
WithdrawCall(amount, receiver, owner, operator) ==
  /\ Withdraw(amount, receiver, owner)
  /\ spend_operator_allowance(owner, operator, shares[owner] - shares'[owner])
  /\ auths' = {operator}
  /\ UNCHANGED keys

\* Mutant: the signer's gate of deposits put in front of redemptions too.
SignedRedeemCall(amount, receiver, owner, operator) ==
  /\ operator # signer
  /\ Redeem(amount, receiver, owner)
  /\ spend_operator_allowance(owner, operator, amount)
  /\ auths' = {operator} \cup ({signer} \ {NoSigner})
  /\ UNCHANGED keys

\* contract.rs:446-467.
RedeemCall(amount, receiver, owner, operator) ==
  /\ Redeem(amount, receiver, owner)
  /\ spend_operator_allowance(owner, operator, amount)
  /\ auths' = {operator}
  /\ UNCHANGED keys

\* contract.rs:310-353: open to anyone once a router is set.
ClaimEmissions(received) ==
  /\ router_set
  /\ HarvestEmissions(received)
  /\ auths' = {}
  /\ UNCHANGED <<allowance, keys>>

\* Mutant: the new admin is not asked.
AppointAdmin(new) ==
  /\ admin' = new
  /\ auths' = {admin}
  /\ UNCHANGED <<vaultVars, allowance, signer, router_set>>

\* contract.rs:269-274: both sides authorize in one frame, so they differ.
SetAdmin(new) ==
  /\ new # admin
  /\ admin' = new
  /\ auths' = {admin, new}
  /\ UNCHANGED <<vaultVars, allowance, signer, router_set>>

\* contract.rs:280-289.
SetSigner(new) ==
  /\ new # admin
  /\ signer' = new
  /\ auths' = {admin, new} \ {NoSigner}
  /\ UNCHANGED <<vaultVars, allowance, admin, router_set>>

\* contract.rs:295-299.
SetRouter ==
  /\ router_set' = TRUE
  /\ auths' = {admin}
  /\ UNCHANGED <<vaultVars, allowance, admin, signer>>

Tick == CloseLedger /\ auths' = {} /\ UNCHANGED <<allowance, keys>>
-----------------------------------------------------------------------------
TokenCall ==
  \/ \E d \in Delegations, amount \in ApproveAmounts, expiration_ledger \in Expirations :
       Approve(d[1], d[2], amount, expiration_ledger)
  \/ \E from, to \in Users, amount \in Amounts : Transfer(from, to, amount)
  \/ \E spender, from, to \in Users, amount \in Amounts :
       TransferFrom(spender, from, to, amount)

PoolCall ==
  \/ \E amount \in Amounts, receiver, from, operator \in Users :
       DepositCall(amount, receiver, from, operator)
  \/ \E amount \in Amounts, receiver, owner, operator \in Users :
       \/ WithdrawCall(amount, receiver, owner, operator)
       \/ RedeemCall(amount, receiver, owner, operator)
  \/ \E received \in SwapOuts : ClaimEmissions(received)

AdminCall ==
  \/ \E new \in Admins : SetAdmin(new)
  \/ \E new \in Signers \cup {NoSigner} : SetSigner(new)
  \/ SetRouter

BlendNext == TokenCall \/ PoolCall \/ AdminCall \/ Tick

BlendSpec == BlendInit /\ [][BlendNext]_blendVars
-----------------------------------------------------------------------------
(***************************************************************************)
(* Properties.                                                             *)
(***************************************************************************)

\* No call takes shares or underlying tokens from somebody who did not
\* authorize it, except shares taken by a delegate who did, under an unexpired
\* allowance that covers them and is charged exactly as much.
NobodyIsDebitedUnasked ==
  [][\A u \in Users :
       LET taken == shares[u] - shares'[u]
       IN  /\ wallet'[u] < wallet[u] => u \in auths'
           /\ taken > 0 =>
                \/ u \in auths'
                \/ \E spender \in auths' :
                     /\ <<u, spender>> \in Delegations
                     /\ get_allowance(u, spender) >= taken
                     /\ allowance'[<<u, spender>>].amount
                          = allowance[<<u, spender>>].amount - taken]_blendVars

\* What a delegate may take, and until when, only the holder can extend: no
\* spending, and no passing of time, revives or prolongs an allowance.
OnlyTheHolderDelegates ==
  [][\A d \in Delegations :
       \/ d[1] \in auths'
       \/ /\ get_allowance(d[1], d[2])' > 0
             => get_allowance(d[1], d[2])' <= get_allowance(d[1], d[2])
          /\ allowance'[d].expiration_ledger = allowance[d].expiration_ledger]_blendVars

\* What all delegates of u together may still take.
Granted(u) ==
  SumFunction([d \in Delegations |->
    IF d[1] = u /\ get_allowance(d[1], d[2]) > 0 THEN get_allowance(d[1], d[2]) ELSE 0])

\* Delegates never take more than they were given, jointly and over any number
\* of calls: without the holder's authorization the shares the holder has in
\* excess of everything granted never become fewer.
DelegatesKeepToTheirBudget ==
  [][\A u \in Users :
       u \notin auths' => shares'[u] - Granted(u)' >= shares[u] - Granted(u)]_blendVars

\* While a signer is set no shares are minted without it, and no key changes
\* hands without its present owner, nor to somebody who did not agree.
KeysNeedConsent ==
  [][/\ vault'.total_shares > vault.total_shares /\ signer # NoSigner => signer \in auths'
     /\ keys' # keys => admin \in auths'
     /\ admin' # admin => admin' \in auths'
     /\ signer' \notin {signer, NoSigner} => signer' \in auths']_blendVars

\* Whatever admin, signer and router are set to, holders whose position is
\* worth something can redeem all of it on their own authority.
NoKeyBlocksExit ==
  \A u \in Users :
    /\ get_vault_updated.b_rate > 0
    /\ Quote(shares[u]) > 0
    /\ shares[u] <= vault.total_shares
    /\ quote_returns(get_vault_updated, shares[u])
    => ENABLED RedeemCall(shares[u], u, u, u)
=============================================================================
