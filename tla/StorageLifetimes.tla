-------------------------- MODULE StorageLifetimes --------------------------
(***************************************************************************)
(* How long the ledger keeps what the contract stores (storage.rs), under  *)
(* the calls of module BlendVault.                                         *)
(*                                                                         *)
(* Every entry is live up to a ledger.  After it, a persistent entry (the  *)
(* instance, the vault record, a share balance) is archived: a call that   *)
(* touches it fails until somebody restores it.  A temporary entry (an     *)
(* allowance) is deleted for good.                                         *)
(***************************************************************************)
EXTENDS BlendVault

CONSTANTS
  SharedThreshold,  \* LEDGER_THRESHOLD_SHARED
  SharedBump,       \* LEDGER_BUMP_SHARED
  UserThreshold,    \* LEDGER_THRESHOLD_USER
  UserBump,         \* LEDGER_BUMP_USER
  MinTemporaryTtl,  \* the host's lifetime of a new temporary entry
  MinPersistentTtl, \* the host's lifetime of a new or restored persistent entry
  MaxEntryTtl       \* the host's longest lifetime of any entry

ASSUME BumpAssumption ==
  /\ SharedThreshold \in Nat /\ SharedBump \in Nat /\ SharedThreshold < SharedBump
  /\ UserThreshold \in Nat /\ UserBump \in Nat /\ UserThreshold < UserBump

ASSUME HostTtlAssumption ==
  /\ MaxEntryTtl \in Nat
  /\ MinTemporaryTtl \in 1..MaxEntryTtl
  /\ MinPersistentTtl \in 1..MaxEntryTtl

VARIABLES
  \* The last ledger at which the entry is live; NoEntry before it is created.
  instance_live,
  vault_live,
  balance_live,
  allowance_live

lifetimes == <<instance_live, vault_live, balance_live, allowance_live>>

storageVars == <<blendVars, lifetimes>>

NoEntry == -1

LifetimesTypeOK ==
  /\ instance_live \in Nat
  /\ vault_live \in Nat
  /\ balance_live \in [Users -> Nat \cup {NoEntry}]
  /\ allowance_live \in [Delegations -> Nat \cup {NoEntry}]

StorageTypeOK == BlendTypeOK /\ LifetimesTypeOK
-----------------------------------------------------------------------------
(***************************************************************************)
(* The host (external).  Extending a temporary entry beyond the host's     *)
(* longest lifetime is an error, a persistent one is extended up to it.    *)
(***************************************************************************)
IsLive(live_until) == live_until >= ledger

IsArchived(live_until) == live_until # NoEntry /\ live_until < ledger

Created(ttl) == ledger + ttl - 1

LongestLife == ledger + MaxEntryTtl - 1

Later(a, b) == IF a >= b THEN a ELSE b

ExtendTtl(live_until, threshold, extend_to) ==
  LET target == IF ledger + extend_to > LongestLife THEN LongestLife ELSE ledger + extend_to
  IN  IF live_until - ledger <= threshold THEN Later(live_until, target) ELSE live_until
-----------------------------------------------------------------------------
(***************************************************************************)
(* storage.rs, as far as lifetimes are concerned.                          *)
(***************************************************************************)

\* Every call loads the contract instance; it is not extended by that.
load_instance == IsLive(instance_live) /\ UNCHANGED instance_live

\* storage.rs:46-51, first thing in the administrative and the pool calls.
extend_instance ==
  /\ IsLive(instance_live)
  /\ instance_live' = ExtendTtl(instance_live, SharedThreshold, SharedBump)

\* Mutant: threshold and bump of the two kinds of entries mixed up.
BumpedAsShared(live_until) ==
  ExtendTtl(IF live_until = NoEntry THEN Created(MinPersistentTtl) ELSE live_until,
            SharedThreshold, SharedBump)

\* A persistent entry, written and then extended.
Bumped(live_until) ==
  ExtendTtl(IF live_until = NoEntry THEN Created(MinPersistentTtl) ELSE live_until,
            UserThreshold, UserBump)

\* storage.rs:154-163.
set_vault_data == IsLive(vault_live) /\ vault_live' = Bumped(vault_live)

\* storage.rs:174-183.
set_vault_shares(users) ==
  /\ \A u \in users : ~IsArchived(balance_live[u])
  /\ balance_live' = [u \in Users |-> IF u \in users THEN Bumped(balance_live[u])
                                                     ELSE balance_live[u]]

\* Mutant: the entry is written but not extended.
SetWithoutExtending(d, expiration_ledger) ==
  allowance_live' =
    [allowance_live EXCEPT ![d] = IF IsLive(@) THEN @ ELSE Created(MinTemporaryTtl)]

\* storage.rs:217-237: extend_ttl(key, ttl, ttl) with ttl up to the expiration.
set_allowance(d, expiration_ledger) ==
  LET written == IF IsLive(allowance_live[d]) THEN allowance_live[d]
                                              ELSE Created(MinTemporaryTtl)
  IN  /\ expiration_ledger <= Later(ledger, LongestLife)
      /\ allowance_live' = [allowance_live EXCEPT ![d] = Later(written, expiration_ledger)]

\* Spending reads the entry (none left reads as 0) and writes it back.
respend_allowance(d) ==
  /\ IsLive(allowance_live[d])
  /\ set_allowance(d, allowance[d].expiration_ledger)
-----------------------------------------------------------------------------
(***************************************************************************)
(* The calls of BlendVault with the entries they touch.                    *)
(***************************************************************************)
StorageInit ==
  /\ BlendInit
  /\ instance_live = Created(MinPersistentTtl)
  /\ vault_live = Bumped(NoEntry)
  /\ balance_live = [u \in Users |-> NoEntry]
  /\ allowance_live = [d \in Delegations |-> NoEntry]

StoredApprove(from, spender, amount, expiration_ledger) ==
  /\ load_instance
  /\ Approve(from, spender, amount, expiration_ledger)
  /\ set_allowance(<<from, spender>>, expiration_ledger)
  /\ UNCHANGED <<vault_live, balance_live>>

StoredTransfer(from, to, amount) ==
  /\ load_instance
  /\ Transfer(from, to, amount)
  /\ set_vault_shares({from, to})
  /\ UNCHANGED <<vault_live, allowance_live>>

StoredTransferFrom(spender, from, to, amount) ==
  /\ load_instance
  /\ TransferFrom(spender, from, to, amount)
  /\ respend_allowance(<<from, spender>>)
  /\ set_vault_shares({from, to})
  /\ UNCHANGED vault_live

StoredDeposit(amount, receiver, from, operator) ==
  /\ extend_instance
  /\ DepositCall(amount, receiver, from, operator)
  /\ set_vault_data
  /\ set_vault_shares({receiver})
  /\ UNCHANGED allowance_live

\* Withdrawals and redemptions.
StoredExit(amount, receiver, owner, operator) ==
  /\ extend_instance
  /\ \/ WithdrawCall(amount, receiver, owner, operator)
     \/ RedeemCall(amount, receiver, owner, operator)
  /\ IF owner = operator THEN UNCHANGED allowance_live
                         ELSE respend_allowance(<<owner, operator>>)
  /\ set_vault_data
  /\ set_vault_shares({owner})

StoredClaim(received) ==
  /\ extend_instance
  /\ ClaimEmissions(received)
  /\ set_vault_data
  /\ UNCHANGED <<balance_live, allowance_live>>

\* contract.rs:326-328: nothing to claim, but the instance was extended.
ClaimNothing ==
  /\ router_set
  /\ ~pool.blnd
  /\ extend_instance
  /\ UNCHANGED <<blendVars, vault_live, balance_live, allowance_live>>

StoredAdminCall ==
  /\ extend_instance
  /\ AdminCall
  /\ UNCHANGED <<vault_live, balance_live, allowance_live>>

\* Anybody may pay to restore an archived entry.
RestoreFootprint ==
  /\ \/ /\ IsArchived(instance_live)
        /\ instance_live' = Created(MinPersistentTtl)
        /\ UNCHANGED <<vault_live, balance_live>>
     \/ /\ IsArchived(vault_live)
        /\ vault_live' = Created(MinPersistentTtl)
        /\ UNCHANGED <<instance_live, balance_live>>
     \/ \E u \in Users :
          /\ IsArchived(balance_live[u])
          /\ balance_live' = [balance_live EXCEPT ![u] = Created(MinPersistentTtl)]
          /\ UNCHANGED <<instance_live, vault_live>>
  /\ UNCHANGED <<blendVars, allowance_live>>
-----------------------------------------------------------------------------
StoredTokenCall ==
  \/ \E d \in Delegations, amount \in ApproveAmounts, expiration_ledger \in Expirations :
       StoredApprove(d[1], d[2], amount, expiration_ledger)
  \/ \E from, to \in Users, amount \in Amounts : StoredTransfer(from, to, amount)
  \/ \E spender, from, to \in Users, amount \in Amounts :
       StoredTransferFrom(spender, from, to, amount)

StoredPoolCall ==
  \/ \E amount \in Amounts, receiver, from, operator \in Users :
       StoredDeposit(amount, receiver, from, operator)
  \/ \E amount \in Amounts, receiver, owner, operator \in Users :
       StoredExit(amount, receiver, owner, operator)
  \/ \E received \in SwapOuts : StoredClaim(received)
  \/ ClaimNothing

StorageNext ==
  \/ StoredTokenCall
  \/ StoredPoolCall
  \/ StoredAdminCall
  \/ RestoreFootprint
  \/ Tick /\ UNCHANGED lifetimes

StorageSpec == StorageInit /\ [][StorageNext]_storageVars
-----------------------------------------------------------------------------
(***************************************************************************)
(* Properties.                                                             *)
(***************************************************************************)

\* The ledger never deletes an allowance that has something left and has not
\* expired, however often and by whichever call it is spent: what the contract
\* reads is what the holder approved (storage.rs:216).
AllowanceOutlivesExpiration ==
  \A d \in Delegations :
    allowance[d].amount # 0 /\ allowance[d].expiration_ledger >= ledger
      => allowance_live[d] >= allowance[d].expiration_ledger

Lasts(live_until, threshold) == live_until - ledger > threshold \/ live_until = LongestLife

\* "bumping on write is sufficient" (storage.rs:151-152): whichever call books
\* something in the vault or moves a balance leaves the entries it needed with
\* more than their threshold to live, also when it just created or restored
\* them, and nothing ever shortens a life.
BumpingOnWriteSuffices ==
  [][/\ vault' # vault => /\ Lasts(vault_live', UserThreshold)
                          /\ Lasts(instance_live', SharedThreshold)
     /\ \A u \in Users :
          /\ shares'[u] # shares[u] => Lasts(balance_live'[u], UserThreshold)
          /\ balance_live'[u] >= balance_live[u]
     /\ instance_live' >= instance_live
     /\ vault_live' >= vault_live]_storageVars
=============================================================================
