---------------------------- MODULE StorageProofs ----------------------------
(***************************************************************************)
(* For any thresholds, bumps and host lifetimes: the calls with the        *)
(* entries they touch are calls of the contract, allowances outlive their  *)
(* expiration, and bumping on write suffices.                              *)
(***************************************************************************)
EXTENDS StorageLifetimes, BlendVaultProofs

\* Entries only restrict which calls succeed.
LEMMA StoredCallIsCall == [StorageNext]_storageVars => [BlendNext]_blendVars
<1>1. StoredTokenCall => BlendNext
  BY DEF StoredTokenCall, StoredApprove, StoredTransfer, StoredTransferFrom,
         BlendNext, TokenCall
<1>2. StoredPoolCall => [BlendNext]_blendVars
  BY DEF StoredPoolCall, StoredDeposit, StoredExit, StoredClaim, ClaimNothing,
         BlendNext, PoolCall
<1>3. StoredAdminCall => BlendNext
  BY DEF StoredAdminCall, BlendNext
<1>4. RestoreFootprint => UNCHANGED blendVars
  BY DEF RestoreFootprint
<1>5. Tick => BlendNext
  BY DEF BlendNext
<1>6. UNCHANGED storageVars => UNCHANGED blendVars
  BY DEF storageVars
<1> QED  BY <1>1, <1>2, <1>3, <1>4, <1>5, <1>6 DEF StorageNext

\* The contract on a ledger that archives and deletes entries implements the
\* contract on one that does not: a call that finds its entries gone fails,
\* and does nothing else.
LEMMA StorageImplementsContract == StorageSpec => BlendSpec
<1>1. StorageInit => BlendInit
  BY DEF StorageInit
<1>2. [StorageNext]_storageVars => [BlendNext]_blendVars
  BY StoredCallIsCall
<1> QED  BY <1>1, <1>2, PTL DEF StorageSpec, BlendSpec
-----------------------------------------------------------------------------
\* No life is longer than the host allows.
LivesAreBounded ==
  /\ instance_live <= LongestLife
  /\ vault_live <= LongestLife
  /\ \A u \in Users : balance_live[u] <= LongestLife

\* A step of BumpingOnWriteSuffices.
WritesAreBumped ==
  /\ vault' # vault => /\ Lasts(vault_live', UserThreshold)
                       /\ Lasts(instance_live', SharedThreshold)
  /\ \A u \in Users :
       /\ shares'[u] # shares[u] => Lasts(balance_live'[u], UserThreshold)
       /\ balance_live'[u] >= balance_live[u]
  /\ instance_live' >= instance_live
  /\ vault_live' >= vault_live

StorageInv ==
  /\ BlendInv
  /\ LifetimesTypeOK
  /\ LivesAreBounded
  /\ AllowanceOutlivesExpiration

\* What extend_ttl does to a life within the host's bound.
LEMMA ExtendingLasts ==
  ASSUME ledger \in Nat, NEW live \in Int, live <= LongestLife,
         NEW threshold \in Nat, NEW bump \in Nat, threshold < bump
  PROVE  LET extended == ExtendTtl(live, threshold, bump)
         IN  /\ extended \in Int /\ extended >= live /\ extended <= LongestLife
             /\ Lasts(extended, threshold)
  BY HostTtlAssumption DEF ExtendTtl, Later, LongestLife, Lasts

\* A persistent entry that is written, new or not, lasts.
LEMMA BumpedLasts ==
  ASSUME ledger \in Nat, NEW live \in Nat \cup {NoEntry}, live <= LongestLife
  PROVE  /\ Bumped(live) \in Nat /\ Bumped(live) >= live /\ Bumped(live) <= LongestLife
         /\ Lasts(Bumped(live), UserThreshold)
<1> DEFINE written == IF live = NoEntry THEN Created(MinPersistentTtl) ELSE live
<1>1. written \in Nat /\ written >= live /\ written <= LongestLife
  BY HostTtlAssumption DEF Created, LongestLife, NoEntry
<1>2. Bumped(live) = ExtendTtl(written, UserThreshold, UserBump)
  BY DEF Bumped
<1> HIDE DEF written
<1>3. UserThreshold \in Nat /\ UserBump \in Nat /\ UserThreshold < UserBump
  BY BumpAssumption
<1> QED  BY <1>1, <1>2, <1>3, ExtendingLasts

\* An instance entry that was just bumped lasts for a while.
LEMMA InstanceLasts ==
  ASSUME StorageInv, extend_instance
  PROVE  /\ instance_live' \in Nat
         /\ instance_live' >= instance_live
         /\ instance_live' <= LongestLife
         /\ Lasts(instance_live', SharedThreshold)
<1>1. /\ ledger \in Nat /\ instance_live \in Nat /\ instance_live <= LongestLife
      /\ SharedThreshold \in Nat /\ SharedBump \in Nat /\ SharedThreshold < SharedBump
      /\ instance_live' = ExtendTtl(instance_live, SharedThreshold, SharedBump)
  BY BumpAssumption
     DEF StorageInv, BlendInv, CoreInv, TypeOK, LifetimesTypeOK, LivesAreBounded,
         extend_instance
<1>2. instance_live \in Int
  BY <1>1
<1> QED  BY <1>1, <1>2, ExtendingLasts

\* So does a bumped vault record,
LEMMA VaultDataLasts ==
  ASSUME StorageInv, set_vault_data
  PROVE  /\ vault_live' \in Nat
         /\ vault_live' >= vault_live
         /\ vault_live' <= LongestLife
         /\ Lasts(vault_live', UserThreshold)
<1>1. /\ ledger \in Nat /\ vault_live \in Nat \cup {NoEntry} /\ vault_live <= LongestLife
      /\ vault_live' = Bumped(vault_live)
  BY DEF StorageInv, BlendInv, CoreInv, TypeOK, LifetimesTypeOK, LivesAreBounded,
         set_vault_data
<1> QED  BY <1>1, BumpedLasts

\* and so do bumped balances.
LEMMA BalancesLast ==
  ASSUME StorageInv, NEW users \in SUBSET Users, set_vault_shares(users)
  PROVE  /\ balance_live' \in [Users -> Nat \cup {NoEntry}]
         /\ \A u \in Users : /\ balance_live'[u] >= balance_live[u]
                             /\ balance_live'[u] <= LongestLife
         /\ \A u \in users : Lasts(balance_live'[u], UserThreshold)
<1>1. /\ ledger \in Nat
      /\ balance_live \in [Users -> Nat \cup {NoEntry}]
      /\ \A u \in Users : balance_live[u] <= LongestLife
      /\ balance_live' = [u \in Users |-> IF u \in users THEN Bumped(balance_live[u])
                                                         ELSE balance_live[u]]
  BY DEF StorageInv, BlendInv, CoreInv, TypeOK, LifetimesTypeOK, LivesAreBounded,
         set_vault_shares
<1>2. ASSUME NEW u \in Users
      PROVE  /\ balance_live'[u] \in Nat \cup {NoEntry}
             /\ balance_live'[u] >= balance_live[u]
             /\ balance_live'[u] <= LongestLife
             /\ u \in users => Lasts(balance_live'[u], UserThreshold)
  <2>1. balance_live[u] \in Nat \cup {NoEntry} /\ balance_live[u] <= LongestLife
    BY <1>1
  <2>2. CASE u \in users
    <3>1. balance_live'[u] = Bumped(balance_live[u])
      BY <1>1, <2>2
    <3> QED  BY <1>1, <2>1, <3>1, BumpedLasts
  <2>3. CASE u \notin users
    <3>1. balance_live'[u] = balance_live[u]
      BY <1>1, <2>3
    <3> QED  BY <2>1, <2>3, <3>1 DEF NoEntry
  <2> QED  BY <2>2, <2>3
<1> QED  BY <1>1, <1>2

\* Writing an allowance makes its entry outlive the expiration written, and
\* disturbs no other entry.
LEMMA SetAllowanceLasts ==
  ASSUME StorageInv, NEW d \in Delegations, NEW expiration_ledger \in Nat,
         set_allowance(d, expiration_ledger)
  PROVE  /\ allowance_live' \in [Delegations -> Nat \cup {NoEntry}]
         /\ allowance_live'[d] >= expiration_ledger
         /\ \A x \in Delegations : x # d => allowance_live'[x] = allowance_live[x]
<1> DEFINE written == IF IsLive(allowance_live[d]) THEN allowance_live[d]
                                                    ELSE Created(MinTemporaryTtl)
<1>1. /\ ledger \in Nat /\ allowance_live \in [Delegations -> Nat \cup {NoEntry}]
      /\ allowance_live' = [allowance_live EXCEPT ![d] = Later(written, expiration_ledger)]
  BY DEF StorageInv, BlendInv, CoreInv, TypeOK, LifetimesTypeOK, set_allowance
<1>2. written \in Nat
  BY <1>1, HostTtlAssumption DEF IsLive, Created, NoEntry
<1> HIDE DEF written
<1>3. Later(written, expiration_ledger) \in Nat
      /\ Later(written, expiration_ledger) >= expiration_ledger
  BY <1>2 DEF Later
<1> QED  BY <1>1, <1>3

\* A spend writes back the expiration it read.
LEMMA RespentAllowanceLasts ==
  ASSUME StorageInv, NEW from, NEW spender, NEW amount \in Int,
         SpendAllowance(from, spender, amount), respend_allowance(<<from, spender>>),
         ledger' = ledger
  PROVE  /\ allowance_live' \in [Delegations -> Nat \cup {NoEntry}]
         /\ AllowanceOutlivesExpiration'
<1> DEFINE p == <<from, spender>>
<1>0. BlendTypeOK
  BY DEF StorageInv, BlendInv
<1>1. /\ p \in Delegations
      /\ \A d \in Delegations :
           /\ allowance'[d].expiration_ledger = allowance[d].expiration_ledger
           /\ d # p => allowance'[d] = allowance[d]
  BY <1>0, SpendingIsExact
<1>2. allowance[p].expiration_ledger \in Nat /\ set_allowance(p, allowance[p].expiration_ledger)
  BY <1>0, <1>1 DEF BlendTypeOK, AllowanceValue, respend_allowance
<1> HIDE DEF p
<1>3. /\ allowance_live' \in [Delegations -> Nat \cup {NoEntry}]
      /\ allowance_live'[p] >= allowance[p].expiration_ledger
      /\ \A x \in Delegations : x # p => allowance_live'[x] = allowance_live[x]
  BY <1>1, <1>2, SetAllowanceLasts
<1>4. ASSUME NEW d \in Delegations, allowance'[d].amount # 0,
             allowance'[d].expiration_ledger >= ledger'
      PROVE  allowance_live'[d] >= allowance'[d].expiration_ledger
  <2>1. CASE d = p
    BY <1>1, <1>3, <2>1
  <2>2. CASE d # p
    BY <1>1, <1>3, <1>4, <2>2 DEF StorageInv, AllowanceOutlivesExpiration
  <2> QED  BY <2>1, <2>2
<1> QED  BY <1>3, <1>4 DEF AllowanceOutlivesExpiration

\* Allowances nobody writes keep outliving their expiration.
LEMMA UnwrittenAllowancesLast ==
  ASSUME StorageInv, allowance' = allowance, allowance_live' = allowance_live,
         ledger' \in Nat, ledger' >= ledger
  PROVE  /\ allowance_live' \in [Delegations -> Nat \cup {NoEntry}]
         /\ AllowanceOutlivesExpiration'
<1>1. /\ ledger \in Nat /\ allowance \in [Delegations -> AllowanceValue]
      /\ allowance_live \in [Delegations -> Nat \cup {NoEntry}]
  BY DEF StorageInv, BlendInv, BlendTypeOK, CoreInv, TypeOK, LifetimesTypeOK
<1>2. ASSUME NEW d \in Delegations, allowance[d].amount # 0,
             allowance[d].expiration_ledger >= ledger'
      PROVE  allowance_live[d] >= allowance[d].expiration_ledger
  <2>1. allowance[d].expiration_ledger \in Nat
    BY <1>1 DEF AllowanceValue
  <2>2. allowance[d].expiration_ledger >= ledger
    BY <1>1, <1>2, <2>1
  <2> QED  BY <1>2, <2>2 DEF StorageInv, AllowanceOutlivesExpiration
<1> QED  BY <1>1, <1>2 DEF AllowanceOutlivesExpiration
-----------------------------------------------------------------------------
\* What each step has to show, beside BlendInv'.
LifetimesStep ==
  LifetimesTypeOK' /\ LivesAreBounded' /\ AllowanceOutlivesExpiration' /\ WritesAreBumped

\* Approvals touch the instance and one allowance.
LEMMA StoredApproveLasts ==
  ASSUME StorageInv, NEW d \in Delegations, NEW amount \in ApproveAmounts,
         NEW expiration_ledger \in Expirations,
         StoredApprove(d[1], d[2], amount, expiration_ledger)
  PROVE  LifetimesStep
<1>0. d = <<d[1], d[2]>> /\ expiration_ledger \in Nat
  BY DelegationPair, ExpirationsAssumption
<1>1. /\ set_allowance(d, expiration_ledger)
      /\ vault_live' = vault_live /\ balance_live' = balance_live
      /\ instance_live' = instance_live
      /\ vault' = vault /\ shares' = shares /\ ledger' = ledger
      /\ allowance' = [allowance EXCEPT ![d] =
                         [amount |-> amount, expiration_ledger |-> expiration_ledger]]
  BY <1>0 DEF StoredApprove, load_instance, Approve, vaultVars
<1>2. /\ allowance_live' \in [Delegations -> Nat \cup {NoEntry}]
      /\ allowance_live'[d] >= expiration_ledger
      /\ \A x \in Delegations : x # d => allowance_live'[x] = allowance_live[x]
  BY <1>0, <1>1, SetAllowanceLasts
<1>3. AllowanceOutlivesExpiration'
  <2>0. allowance \in [Delegations -> AllowanceValue]
    BY DEF StorageInv, BlendInv, BlendTypeOK
  <2>1. allowance'[d].expiration_ledger = expiration_ledger
    BY <1>1, <2>0
  <2>2. \A x \in Delegations : x # d => allowance'[x] = allowance[x]
    BY <1>1, <2>0
  <2> SUFFICES ASSUME NEW x \in Delegations, allowance'[x].amount # 0,
                      allowance'[x].expiration_ledger >= ledger'
               PROVE  allowance_live'[x] >= allowance'[x].expiration_ledger
    BY DEF AllowanceOutlivesExpiration
  <2>3. CASE x = d
    BY <1>2, <2>1, <2>3
  <2>4. CASE x # d
    BY <1>1, <1>2, <2>2, <2>4 DEF StorageInv, AllowanceOutlivesExpiration
  <2> QED  BY <2>3, <2>4
<1>4. LifetimesTypeOK' /\ LivesAreBounded'
  BY <1>1, <1>2 DEF StorageInv, LifetimesTypeOK, LivesAreBounded, LongestLife
<1>5. WritesAreBumped
  <2>1. /\ instance_live \in Nat /\ vault_live \in Nat
        /\ \A u \in Users : balance_live[u] >= balance_live[u]
    BY DEF StorageInv, LifetimesTypeOK, NoEntry
  <2> QED  BY <1>1, <2>1 DEF WritesAreBumped
<1> QED  BY <1>3, <1>4, <1>5 DEF LifetimesStep

\* Transfers touch the instance, two balances and maybe an allowance.
LEMMA StoredMoveLasts ==
  ASSUME StorageInv, NEW from \in Users, NEW to \in Users, NEW amount \in Amounts,
         MoveShares(from, to, amount), set_vault_shares({from, to}),
         load_instance, UNCHANGED vault_live,
         allowance_live' \in [Delegations -> Nat \cup {NoEntry}],
         AllowanceOutlivesExpiration'
  PROVE  LifetimesStep
<1>1. /\ vault_live' = vault_live /\ instance_live' = instance_live
      /\ vault' = vault /\ ledger' = ledger
      /\ shares' = [shares EXCEPT ![from] = shares[from] - amount,
                                  ![to] = shares[to] + amount]
  BY DEF MoveShares, load_instance
<1>2. /\ balance_live' \in [Users -> Nat \cup {NoEntry}]
      /\ \A u \in Users : /\ balance_live'[u] >= balance_live[u]
                          /\ balance_live'[u] <= LongestLife
      /\ \A u \in {from, to} : Lasts(balance_live'[u], UserThreshold)
  <2>1. {from, to} \in SUBSET Users
    OBVIOUS
  <2> QED  BY <2>1, BalancesLast
<1>3. \A u \in Users : shares'[u] # shares[u] => u \in {from, to}
  BY <1>1 DEF StorageInv, BlendInv, CoreInv, TypeOK
<1>4. instance_live \in Nat /\ vault_live \in Nat
  BY DEF StorageInv, LifetimesTypeOK
<1>5. LifetimesTypeOK' /\ LivesAreBounded'
  BY <1>1, <1>2, <1>4 DEF StorageInv, LifetimesTypeOK, LivesAreBounded, LongestLife
<1>6. WritesAreBumped
  <2>1. \A u \in Users : /\ shares'[u] # shares[u] => Lasts(balance_live'[u], UserThreshold)
                        /\ balance_live'[u] >= balance_live[u]
    BY <1>2, <1>3
  <2>2. instance_live' >= instance_live /\ vault_live' >= vault_live
    BY <1>1, <1>4
  <2> QED  BY <1>1, <2>1, <2>2 DEF WritesAreBumped
<1> QED  BY <1>5, <1>6 DEF LifetimesStep

\* The calls that extend the instance and write the vault record and balances.
LEMMA StoredBookingLasts ==
  ASSUME StorageInv, NEW users \in SUBSET Users,
         extend_instance, set_vault_data, set_vault_shares(users),
         ledger' = ledger,
         \A u \in Users : shares'[u] # shares[u] => u \in users,
         allowance_live' \in [Delegations -> Nat \cup {NoEntry}],
         AllowanceOutlivesExpiration'
  PROVE  LifetimesStep
<1>1. /\ instance_live' \in Nat /\ instance_live' >= instance_live
      /\ instance_live' <= LongestLife /\ Lasts(instance_live', SharedThreshold)
  BY InstanceLasts
<1>2. /\ vault_live' \in Nat /\ vault_live' >= vault_live
      /\ vault_live' <= LongestLife /\ Lasts(vault_live', UserThreshold)
  BY VaultDataLasts
<1>3. /\ balance_live' \in [Users -> Nat \cup {NoEntry}]
      /\ \A u \in Users : /\ balance_live'[u] >= balance_live[u]
                          /\ balance_live'[u] <= LongestLife
      /\ \A u \in users : Lasts(balance_live'[u], UserThreshold)
  BY BalancesLast
<1>4. LifetimesTypeOK' /\ LivesAreBounded'
  BY <1>1, <1>2, <1>3 DEF LifetimesTypeOK, LivesAreBounded, LongestLife
<1>5. WritesAreBumped
  BY <1>1, <1>2, <1>3 DEF WritesAreBumped
<1> QED  BY <1>4, <1>5 DEF LifetimesStep

\* Deposits write the record and the receiver's balance.
LEMMA StoredDepositLasts ==
  ASSUME StorageInv, NEW amount \in Amounts, NEW receiver \in Users, NEW from \in Users,
         NEW operator \in Users, StoredDeposit(amount, receiver, from, operator)
  PROVE  LifetimesStep
<1>1. /\ extend_instance /\ set_vault_data /\ set_vault_shares({receiver})
      /\ Deposit(amount, receiver, from) /\ allowance' = allowance
      /\ allowance_live' = allowance_live
  BY DEF StoredDeposit, DepositCall
<1>2. /\ ledger' = ledger /\ ledger \in Nat
      /\ \A u \in Users : shares'[u] # shares[u] => u \in {receiver}
  BY <1>1 DEF Deposit, Credit, StorageInv, BlendInv, CoreInv, TypeOK
<1>3. /\ allowance_live' \in [Delegations -> Nat \cup {NoEntry}]
      /\ AllowanceOutlivesExpiration'
  BY <1>1, <1>2, UnwrittenAllowancesLast
<1>4. {receiver} \in SUBSET Users
  OBVIOUS
<1> QED  BY <1>1, <1>2, <1>3, <1>4, StoredBookingLasts

\* Exits write the record, the owner's balance and maybe an allowance.
LEMMA StoredExitLasts ==
  ASSUME StorageInv, NEW amount \in Amounts, NEW receiver \in Users, NEW owner \in Users,
         NEW operator \in Users, StoredExit(amount, receiver, owner, operator)
  PROVE  LifetimesStep
<1>1. /\ extend_instance /\ set_vault_data /\ set_vault_shares({owner})
      /\ IF owner = operator THEN allowance_live' = allowance_live
                             ELSE respend_allowance(<<owner, operator>>)
  BY DEF StoredExit
<1>2. PICK burnt : Exit(burnt, receiver, owner)
  BY DEF StoredExit, WithdrawCall, Withdraw, RedeemCall, Redeem
<1>3. /\ ledger' = ledger /\ ledger \in Nat /\ shares \in [Users -> Nat]
      /\ \A u \in Users : shares'[u] # shares[u] => u \in {owner}
  BY <1>2 DEF Exit, Debit, StorageInv, BlendInv, CoreInv, TypeOK
<1>4. PICK charged : spend_operator_allowance(owner, operator, charged) /\ charged \in Int
  <2>1. CASE WithdrawCall(amount, receiver, owner, operator)
    <3>1. (shares' \in [Users -> Nat])
      BY <2>1, AmountsAssumption, WithdrawKeepsCoreInv
         DEF WithdrawCall, StorageInv, BlendInv, CoreInv, TypeOK
    <3>2. shares[owner] - shares'[owner] \in Int
      BY <1>3, <3>1
    <3> QED  BY <2>1, <3>2 DEF WithdrawCall
  <2>2. CASE RedeemCall(amount, receiver, owner, operator)
    BY <2>2, AmountsAssumption DEF RedeemCall
  <2> QED  BY <2>1, <2>2 DEF StoredExit
<1>5. /\ allowance_live' \in [Delegations -> Nat \cup {NoEntry}]
      /\ AllowanceOutlivesExpiration'
  <2>1. CASE owner = operator
    BY <1>1, <1>3, <1>4, <2>1, UnwrittenAllowancesLast DEF spend_operator_allowance
  <2>2. CASE owner # operator
    BY <1>1, <1>3, <1>4, <2>2, RespentAllowanceLasts DEF spend_operator_allowance
  <2> QED  BY <2>1, <2>2
<1>6. {owner} \in SUBSET Users
  OBVIOUS
<1> QED  BY <1>1, <1>3, <1>5, <1>6, StoredBookingLasts

\* Steps that write nothing, extend some lives and let the ledger move on.
LEMMA IdleStepLasts ==
  ASSUME StorageInv, ledger' \in Nat, ledger' >= ledger,
         vault' = vault, shares' = shares, allowance' = allowance,
         allowance_live' = allowance_live,
         instance_live' \in Nat, instance_live' >= instance_live,
         instance_live' <= LongestLife',
         vault_live' \in Nat, vault_live' >= vault_live, vault_live' <= LongestLife',
         balance_live' \in [Users -> Nat \cup {NoEntry}],
         \A u \in Users : /\ balance_live'[u] >= balance_live[u]
                          /\ balance_live'[u] <= LongestLife'
  PROVE  LifetimesStep
<1>1. /\ allowance_live' \in [Delegations -> Nat \cup {NoEntry}]
      /\ AllowanceOutlivesExpiration'
  BY UnwrittenAllowancesLast
<1>2. LifetimesTypeOK' /\ LivesAreBounded'
  BY <1>1 DEF LifetimesTypeOK, LivesAreBounded
<1>3. WritesAreBumped
  BY DEF WritesAreBumped
<1> QED  BY <1>1, <1>2, <1>3 DEF LifetimesStep

\* What the invariant says of the lives, and how long the longest one is.
LEMMA LivesOfState ==
  ASSUME StorageInv
  PROVE  /\ ledger \in Nat /\ LongestLife = ledger + MaxEntryTtl - 1
         /\ instance_live \in Nat /\ instance_live <= LongestLife
         /\ vault_live \in Nat /\ vault_live <= LongestLife
         /\ balance_live \in [Users -> Nat \cup {NoEntry}]
         /\ \A u \in Users : /\ balance_live[u] <= LongestLife
                             /\ balance_live[u] >= balance_live[u]
  BY DEF StorageInv, BlendInv, CoreInv, TypeOK, LifetimesTypeOK, LivesAreBounded,
         LongestLife, NoEntry

\* A claim writes the record and extends the instance.
LEMMA StoredClaimLasts ==
  ASSUME StorageInv, NEW received, StoredClaim(received)
  PROVE  LifetimesStep
<1>1. /\ extend_instance /\ set_vault_data
      /\ ledger' = ledger /\ shares' = shares /\ allowance' = allowance
      /\ balance_live' = balance_live /\ allowance_live' = allowance_live
  BY DEF StoredClaim, ClaimEmissions, HarvestEmissions
<1>2. /\ instance_live' \in Nat /\ instance_live' >= instance_live
      /\ instance_live' <= LongestLife /\ Lasts(instance_live', SharedThreshold)
  BY <1>1, InstanceLasts
<1>3. /\ vault_live' \in Nat /\ vault_live' >= vault_live
      /\ vault_live' <= LongestLife /\ Lasts(vault_live', UserThreshold)
  BY <1>1, VaultDataLasts
<1>4. /\ allowance_live' \in [Delegations -> Nat \cup {NoEntry}]
      /\ AllowanceOutlivesExpiration'
  BY <1>1, LivesOfState, UnwrittenAllowancesLast
<1>5. LifetimesTypeOK' /\ LivesAreBounded'
  BY <1>1, <1>2, <1>3, <1>4, LivesOfState
     DEF LifetimesTypeOK, LivesAreBounded, LongestLife
<1>6. WritesAreBumped
  BY <1>1, <1>2, <1>3, LivesOfState DEF WritesAreBumped
<1> QED  BY <1>4, <1>5, <1>6 DEF LifetimesStep

\* The administrative calls, and a claim of nothing, extend the instance alone.
LEMMA ExtendingCallLasts ==
  ASSUME StorageInv, extend_instance, ledger' = ledger,
         vault' = vault, shares' = shares, allowance' = allowance,
         UNCHANGED <<vault_live, balance_live, allowance_live>>
  PROVE  LifetimesStep
<1>1. /\ instance_live' \in Nat /\ instance_live' >= instance_live
      /\ instance_live' <= LongestLife
  BY InstanceLasts
<1>2. LongestLife' = LongestLife
  BY DEF LongestLife
<1>3. ledger \in Nat /\ ledger' >= ledger
  BY LivesOfState
<1>4. vault_live \in Nat /\ vault_live' >= vault_live /\ vault_live' <= LongestLife
  BY LivesOfState
<1> QED  BY <1>1, <1>2, <1>3, <1>4, LivesOfState, IdleStepLasts

\* An archived entry is shorter lived than the one restored.
LEMMA RestoringLasts ==
  ASSUME ledger \in Nat, NEW live \in Nat \cup {NoEntry}, IsArchived(live)
  PROVE  /\ Created(MinPersistentTtl) \in Nat
         /\ Created(MinPersistentTtl) >= live
         /\ Created(MinPersistentTtl) <= LongestLife
  BY HostTtlAssumption DEF IsArchived, Created, LongestLife, NoEntry

\* Restoring an archived footprint keeps the lifetimes in order.
LEMMA RestoreLasts == ASSUME StorageInv, RestoreFootprint PROVE LifetimesStep
<1>1. /\ vault' = vault /\ shares' = shares /\ allowance' = allowance
      /\ ledger' = ledger /\ allowance_live' = allowance_live
      /\ LongestLife' = LongestLife
  BY DEF RestoreFootprint, blendVars, LongestLife
<1>2. /\ instance_live' \in Nat /\ instance_live' >= instance_live
      /\ instance_live' <= LongestLife
  <2>1. CASE instance_live' = instance_live
    BY <2>1, LivesOfState
  <2>2. CASE instance_live' # instance_live
    <3>1. IsArchived(instance_live) /\ instance_live' = Created(MinPersistentTtl)
      BY <2>2, Zenon DEF RestoreFootprint
    <3> QED  BY <3>1, LivesOfState, RestoringLasts
  <2> QED  BY <2>1, <2>2
<1>3. vault_live' \in Nat /\ vault_live' >= vault_live /\ vault_live' <= LongestLife
  <2>1. CASE vault_live' = vault_live
    BY <2>1, LivesOfState
  <2>2. CASE vault_live' # vault_live
    <3>1. IsArchived(vault_live) /\ vault_live' = Created(MinPersistentTtl)
      BY <2>2, Zenon DEF RestoreFootprint
    <3> QED  BY <3>1, LivesOfState, RestoringLasts
  <2> QED  BY <2>1, <2>2
<1>4. /\ balance_live' \in [Users -> Nat \cup {NoEntry}]
      /\ \A u \in Users : /\ balance_live'[u] >= balance_live[u]
                          /\ balance_live'[u] <= LongestLife
  <2>1. CASE balance_live' = balance_live
    BY <2>1, LivesOfState
  <2>2. CASE balance_live' # balance_live
    <3>1. PICK u \in Users :
            /\ IsArchived(balance_live[u])
            /\ balance_live' = [balance_live EXCEPT ![u] = Created(MinPersistentTtl)]
      BY <2>2 DEF RestoreFootprint
    <3>2. /\ Created(MinPersistentTtl) \in Nat
          /\ Created(MinPersistentTtl) >= balance_live[u]
          /\ Created(MinPersistentTtl) <= LongestLife
      BY <3>1, LivesOfState, RestoringLasts
    <3> QED  BY <3>1, <3>2, LivesOfState
  <2> QED  BY <2>1, <2>2
<1> QED  BY <1>1, <1>2, <1>3, <1>4, LivesOfState, IdleStepLasts

\* Time only raises the host's bound.
LEMMA TickLasts ==
  ASSUME StorageInv, Tick, UNCHANGED lifetimes
  PROVE  LifetimesStep
<1>1. /\ ledger' = ledger + 1 /\ vault' = vault /\ shares' = shares
      /\ allowance' = allowance
      /\ instance_live' = instance_live /\ vault_live' = vault_live
      /\ balance_live' = balance_live /\ allowance_live' = allowance_live
  BY DEF Tick, CloseLedger, lifetimes
<1>2. LongestLife' = LongestLife + 1 /\ LongestLife \in Int
  BY <1>1, LivesOfState, HostTtlAssumption DEF LongestLife
<1>3. \A u \in Users : balance_live[u] \in Int
  BY LivesOfState DEF NoEntry
<1>4. \A u \in Users : balance_live'[u] <= LongestLife'
  BY <1>1, <1>2, <1>3, LivesOfState
<1> QED  BY <1>1, <1>2, <1>4, LivesOfState, IdleStepLasts
-----------------------------------------------------------------------------
\* Every step, call by call.
LEMMA NextLasts == ASSUME StorageInv, StorageNext PROVE LifetimesStep
<1>1. CASE StoredTokenCall
  <2>1. ASSUME NEW d \in Delegations, NEW amount \in ApproveAmounts,
               NEW expiration_ledger \in Expirations,
               StoredApprove(d[1], d[2], amount, expiration_ledger)
        PROVE  LifetimesStep
    BY <2>1, StoredApproveLasts
  <2>2. ASSUME NEW from \in Users, NEW to \in Users, NEW amount \in Amounts,
               StoredTransfer(from, to, amount)
        PROVE  LifetimesStep
    <3>1. /\ load_instance /\ MoveShares(from, to, amount) /\ set_vault_shares({from, to})
          /\ allowance' = allowance /\ UNCHANGED vault_live
          /\ allowance_live' = allowance_live
      BY <2>2 DEF StoredTransfer, Transfer
    <3>2. ledger' = ledger /\ ledger \in Nat
      BY <3>1, LivesOfState DEF MoveShares
    <3>3. /\ allowance_live' \in [Delegations -> Nat \cup {NoEntry}]
          /\ AllowanceOutlivesExpiration'
      BY <3>1, <3>2, UnwrittenAllowancesLast
    <3> QED  BY <3>1, <3>3, StoredMoveLasts
  <2>3. ASSUME NEW spender \in Users, NEW from \in Users, NEW to \in Users,
               NEW amount \in Amounts, StoredTransferFrom(spender, from, to, amount)
        PROVE  LifetimesStep
    <3>1. /\ load_instance /\ MoveShares(from, to, amount) /\ set_vault_shares({from, to})
          /\ SpendAllowance(from, spender, amount) /\ UNCHANGED vault_live
          /\ respend_allowance(<<from, spender>>)
      BY <2>3 DEF StoredTransferFrom, TransferFrom
    <3>2. ledger' = ledger /\ amount \in Int
      BY <3>1, AmountsAssumption DEF MoveShares
    <3>3. /\ allowance_live' \in [Delegations -> Nat \cup {NoEntry}]
          /\ AllowanceOutlivesExpiration'
      BY <3>1, <3>2, RespentAllowanceLasts
    <3> QED  BY <3>1, <3>3, StoredMoveLasts
  <2> QED  BY <1>1, <2>1, <2>2, <2>3 DEF StoredTokenCall
<1>2. CASE StoredPoolCall
  <2>1. CASE ClaimNothing
    <3>1. /\ extend_instance /\ ledger' = ledger /\ vault' = vault
          /\ shares' = shares /\ allowance' = allowance
      BY <2>1 DEF ClaimNothing, blendVars
    <3> QED  BY <2>1, <3>1, ExtendingCallLasts DEF ClaimNothing
  <2> QED
    BY <1>2, <2>1, StoredDepositLasts, StoredExitLasts, StoredClaimLasts
       DEF StoredPoolCall
<1>3. CASE StoredAdminCall
  <2>1. /\ extend_instance /\ ledger' = ledger /\ vault' = vault
        /\ shares' = shares /\ allowance' = allowance
        /\ UNCHANGED <<vault_live, balance_live, allowance_live>>
    BY <1>3 DEF StoredAdminCall, AdminCall, SetAdmin, SetSigner, SetRouter, vaultVars
  <2> QED  BY <2>1, ExtendingCallLasts
<1>4. CASE RestoreFootprint
  BY <1>4, RestoreLasts
<1>5. CASE Tick /\ UNCHANGED lifetimes
  BY <1>5, TickLasts
<1> QED  BY <1>1, <1>2, <1>3, <1>4, <1>5 DEF StorageNext

\* Every step keeps StorageInv.
LEMMA NextKeepsStorageInv ==
  ASSUME StorageInv, [StorageNext]_storageVars
  PROVE  StorageInv' /\ [WritesAreBumped]_storageVars
<1>1. BlendInv'
  BY StoredCallIsCall, NextKeepsBlendInv DEF StorageInv
<1>2. CASE StorageNext
  BY <1>1, <1>2, NextLasts DEF LifetimesStep, StorageInv
<1>3. CASE UNCHANGED storageVars
  <2>1. LifetimesTypeOK' /\ LivesAreBounded' /\ AllowanceOutlivesExpiration'
    BY <1>3 DEF storageVars, blendVars, lifetimes, StorageInv, LifetimesTypeOK,
                LivesAreBounded, LongestLife, AllowanceOutlivesExpiration
  <2> QED  BY <1>1, <1>3, <2>1 DEF StorageInv
<1> QED  BY <1>2, <1>3

\* The constructor leaves every entry alive.
LEMMA InitEstablishesStorageInv == ASSUME StorageInit PROVE StorageInv
<1>1. BlendInv
  BY InitEstablishesBlendInv DEF StorageInit
<1>2. ledger \in Nat /\ ledger = 0
  BY DEF StorageInit, BlendInit, VaultInit
<1>3. NoEntry <= LongestLife /\ NoEntry \in Nat \cup {NoEntry}
  BY <1>2, HostTtlAssumption DEF NoEntry, LongestLife
<1>4. Bumped(NoEntry) \in Nat /\ Bumped(NoEntry) <= LongestLife
  BY <1>2, <1>3, BumpedLasts
<1>5. Created(MinPersistentTtl) \in Nat /\ Created(MinPersistentTtl) <= LongestLife
  BY <1>2, HostTtlAssumption DEF Created, LongestLife
<1>6. LifetimesTypeOK /\ LivesAreBounded
  BY <1>3, <1>4, <1>5 DEF StorageInit, LifetimesTypeOK, LivesAreBounded
<1>7. AllowanceOutlivesExpiration
  BY DEF StorageInit, BlendInit, AllowanceOutlivesExpiration
<1> QED  BY <1>1, <1>6, <1>7 DEF StorageInv

\* StorageInv is inductive.
THEOREM StorageInvariant == StorageSpec => []StorageInv
<1>1. StorageInit => StorageInv
  BY InitEstablishesStorageInv
<1>2. StorageInv /\ [StorageNext]_storageVars => StorageInv'
  BY NextKeepsStorageInv
<1> QED  BY <1>1, <1>2, PTL DEF StorageSpec

\* Entries and their lifetimes keep their types.
THEOREM StorageKeepsItsTypes == StorageSpec => []StorageTypeOK
<1>1. StorageInv => StorageTypeOK
  BY DEF StorageInv, BlendInv, StorageTypeOK
<1> QED  BY <1>1, StorageInvariant, PTL

\* The ledger never deletes an allowance the holder approved before it expires
\* (storage.rs:216-237).
THEOREM AllowancesOutliveTheirExpiration == StorageSpec => []AllowanceOutlivesExpiration
<1>1. StorageInv => AllowanceOutlivesExpiration
  BY DEF StorageInv
<1> QED  BY <1>1, StorageInvariant, PTL

\* Every booking leaves the entries it needed with more than their threshold
\* to live, whatever thresholds, bumps and host lifetimes are (storage.rs:151-183).
THEOREM BumpingSuffices == StorageSpec => BumpingOnWriteSuffices
<1>1. StorageInv /\ [StorageNext]_storageVars => [WritesAreBumped]_storageVars
  BY NextKeepsStorageInv
<1> QED
  BY <1>1, StorageInvariant, PTL DEF StorageSpec, BumpingOnWriteSuffices, WritesAreBumped
=============================================================================
