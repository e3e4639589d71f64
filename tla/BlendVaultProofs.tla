-------------------------- MODULE BlendVaultProofs --------------------------
(***************************************************************************)
(* The entry points only ever do what the accounting core allows, so what  *)
(* is proved of the core holds whoever calls, and with any keys.           *)
(***************************************************************************)
EXTENDS BlendVault, VaultProofs

\* Each entry point takes a step of the accounting core, or leaves it alone.
LEMMA EntryPointIsVaultStep == [BlendNext]_blendVars => [VaultNext]_vaultVars
<1>1. TokenCall => [VaultNext]_vaultVars
  BY DEF TokenCall, Approve, Transfer, TransferFrom, VaultNext
<1>2. PoolCall => VaultNext
  BY DEF PoolCall, DepositCall, WithdrawCall, RedeemCall, ClaimEmissions, VaultNext, UsePool
<1>3. AdminCall => UNCHANGED vaultVars
  BY DEF AdminCall, SetAdmin, SetSigner, SetRouter
<1>4. Tick => VaultNext
  BY DEF Tick, VaultNext, UsePool
<1>5. UNCHANGED blendVars => UNCHANGED vaultVars
  BY DEF blendVars, vaultVars
<1> QED  BY <1>1, <1>2, <1>3, <1>4, <1>5 DEF BlendNext

\* The contract implements the accounting core: authorizations, allowances and
\* keys only restrict which of its steps are taken.
LEMMA EntryPointsImplementVault == BlendSpec => VaultSpec
<1>1. BlendInit => VaultInit
  BY DEF BlendInit
<1>2. [BlendNext]_blendVars => [VaultNext]_vaultVars
  BY EntryPointIsVaultStep
<1> QED  BY <1>1, <1>2, PTL DEF BlendSpec, VaultSpec

-----------------------------------------------------------------------------
\* A delegation is a pair of users.
LEMMA DelegationPair ==
  ASSUME NEW d \in Delegations
  PROVE  d = <<d[1], d[2]>> /\ d[1] \in Users /\ d[2] \in Users
  BY DelegationsAssumption

\* Spending takes exactly the amount off one delegation.
LEMMA SpendingIsExact ==
  ASSUME BlendTypeOK, NEW from, NEW spender, NEW amount \in Int,
         SpendAllowance(from, spender, amount)
  PROVE  /\ <<from, spender>> \in Delegations
         /\ get_allowance(from, spender) >= amount
         /\ allowance' \in [Delegations -> AllowanceValue]
         /\ allowance'[<<from, spender>>].amount = allowance[<<from, spender>>].amount - amount
         /\ \A d \in Delegations :
              /\ allowance'[d].expiration_ledger = allowance[d].expiration_ledger
              /\ d # <<from, spender>> => allowance'[d] = allowance[d]
<1> DEFINE p == <<from, spender>>
<1>1. p \in Delegations /\ allowance \in [Delegations -> AllowanceValue]
  BY DEF SpendAllowance, BlendTypeOK
<1> DEFINE charged == [allowance[p] EXCEPT !.amount = allowance[p].amount - amount]
<1>2. allowance' = [allowance EXCEPT ![p] = charged]
  BY DEF SpendAllowance
<1>3. /\ allowance[p] \in AllowanceValue
      /\ allowance'[p] = charged
  BY <1>1, <1>2
<1>4. /\ allowance'[p] \in AllowanceValue
      /\ allowance'[p].amount = allowance[p].amount - amount
      /\ allowance'[p].expiration_ledger = allowance[p].expiration_ledger
  BY <1>3 DEF AllowanceValue
<1>5. \A d \in Delegations : d # p => allowance'[d] = allowance[d]
  BY <1>1, <1>2
<1>6. allowance' \in [Delegations -> AllowanceValue]
  BY <1>1, <1>2, <1>4
<1> QED  BY <1>1, <1>4, <1>5, <1>6 DEF SpendAllowance

\* An exit takes shares from the owner alone and underlying from nobody.
LEMMA ExitTakesFromOwner ==
  ASSUME CoreInv, NEW receiver \in Users, NEW owner \in Users, NEW burnt,
         IsProRataExit(get_vault_updated, shares[owner], burnt),
         Exit(burnt, receiver, owner)
  PROVE  /\ burnt.shares \in 1..shares[owner]
         /\ shares' = [shares EXCEPT ![owner] = @ - burnt.shares]
         /\ vault'.total_shares <= vault.total_shares
         /\ \A u \in Users : wallet'[u] >= wallet[u]
         /\ ledger' = ledger
<1>1. /\ burnt.shares \in 1..shares[owner]
      /\ shares' = [shares EXCEPT ![owner] = @ - burnt.shares]
      /\ ledger' = ledger
  BY DEF IsProRataExit, Exit, Debit
<1>2. CoreInv' /\ Ideal!Retire(owner)
  BY ExitKeepsCoreInv
<1>3. vault'.total_shares <= vault.total_shares
  <2>1. /\ vault.total_shares - vault'.total_shares \in 1..shares[owner]
        /\ vault.total_shares \in Nat /\ vault'.total_shares \in Nat
    BY <1>2, VaultDataFields DEF Ideal!Retire, CoreInv, TypeOK
  <2> QED  BY <2>1
<1>4. PoolPays(burnt.underlying) \in Nat
  <2>1. pool.position * pool.b_rate \in Nat /\ burnt.underlying \in Nat
    BY UpdatedVault DEF CoreInv, IsProRataExit
  <2>2. FloorDiv(pool.position * pool.b_rate, Scalar) \in Nat
    BY <2>1, ScalarAssumption, DivSign DEF Positive
  <2> QED  BY <2>1, <2>2 DEF PoolPays
<1>5. \A u \in Users : wallet'[u] >= wallet[u]
  BY <1>4 DEF CoreInv, TypeOK, Exit, Credit
<1> QED  BY <1>1, <1>3, <1>5

\* A deposit takes from the depositor alone, and shares from nobody.
LEMMA DepositTakesFromPayer ==
  ASSUME CoreInv, NEW amount \in Int, NEW receiver \in Users, NEW from \in Users,
         Deposit(amount, receiver, from)
  PROVE  /\ \A u \in Users : shares'[u] >= shares[u]
         /\ \A u \in Users : u # from => wallet'[u] = wallet[u]
         /\ ledger' = ledger
<1>1. CoreInv' /\ Ideal!Issue(receiver)
  BY DepositKeepsCoreInv
<1>2. \A u \in Users : shares'[u] >= shares[u]
  BY <1>1 DEF Ideal!Issue, CoreInv, TypeOK, VaultData
<1>3. \A u \in Users : u # from => wallet'[u] = wallet[u]
  BY DEF Deposit, Debit, CoreInv, TypeOK
<1> QED  BY <1>2, <1>3 DEF Deposit
-----------------------------------------------------------------------------
\* What the properties of BlendVault say of one step, and the types it keeps.
DebitsAreAsked ==
  \A u \in Users :
    LET taken == shares[u] - shares'[u]
    IN  /\ wallet'[u] < wallet[u] => u \in auths'
        /\ taken > 0 =>
             \/ u \in auths'
             \/ \E spender \in auths' :
                  /\ <<u, spender>> \in Delegations
                  /\ get_allowance(u, spender) >= taken
                  /\ allowance'[<<u, spender>>].amount
                       = allowance[<<u, spender>>].amount - taken

HolderDelegates ==
  \A d \in Delegations :
    \/ d[1] \in auths'
    \/ /\ get_allowance(d[1], d[2])' > 0
          => get_allowance(d[1], d[2])' <= get_allowance(d[1], d[2])
       /\ allowance'[d].expiration_ledger = allowance[d].expiration_ledger

KeysConsent ==
  /\ vault'.total_shares > vault.total_shares /\ signer # NoSigner => signer \in auths'
  /\ keys' # keys => admin \in auths'
  /\ admin' # admin => admin' \in auths'
  /\ signer' \notin {signer, NoSigner} => signer' \in auths'

EntriesTypeOK ==
  /\ allowance \in [Delegations -> AllowanceValue]
  /\ admin \in Admins
  /\ signer \in Signers \cup {NoSigner}
  /\ router_set \in BOOLEAN
  /\ auths \subseteq Users \cup Admins \cup Signers

SoundStep == EntriesTypeOK' /\ DebitsAreAsked /\ HolderDelegates /\ KeysConsent

BlendInv == CoreInv /\ BlendTypeOK

\* While the clock stands still, allowances that are not touched read the same.
LEMMA UntouchedAllowances ==
  ASSUME BlendTypeOK, UNCHANGED allowance, UNCHANGED ledger
  PROVE  HolderDelegates /\ allowance' \in [Delegations -> AllowanceValue]
<1>1. allowance' = allowance /\ ledger' = ledger
  OBVIOUS
<1>2. ASSUME NEW d \in Delegations
      PROVE  get_allowance(d[1], d[2])' <= get_allowance(d[1], d[2])
  <2>1. allowance[<<d[1], d[2]>>] \in AllowanceValue
    BY DelegationPair DEF BlendTypeOK
  <2> QED  BY <1>1, <2>1 DEF get_allowance, AllowanceValue
<1> QED  BY <1>1, <1>2 DEF HolderDelegates, BlendTypeOK

\* Spending a positive amount only lowers what can still be taken.
LEMMA SpendingOnlyLowers ==
  ASSUME BlendTypeOK, NEW from, NEW spender, NEW amount \in Nat,
         SpendAllowance(from, spender, amount), UNCHANGED ledger
  PROVE  HolderDelegates
<1> SUFFICES ASSUME NEW d \in Delegations
             PROVE  /\ get_allowance(d[1], d[2])' <= get_allowance(d[1], d[2])
                    /\ allowance'[d].expiration_ledger = allowance[d].expiration_ledger
  BY DEF HolderDelegates
<1>0. /\ allowance' \in [Delegations -> AllowanceValue]
      /\ allowance'[<<from, spender>>].amount = allowance[<<from, spender>>].amount - amount
      /\ \A x \in Delegations :
           /\ allowance'[x].expiration_ledger = allowance[x].expiration_ledger
           /\ x # <<from, spender>> => allowance'[x] = allowance[x]
  BY SpendingIsExact
<1>1. /\ d = <<d[1], d[2]>> /\ ledger' = ledger
      /\ allowance[d] \in AllowanceValue /\ allowance'[d] \in AllowanceValue
      /\ allowance'[d].expiration_ledger = allowance[d].expiration_ledger
  BY <1>0, DelegationPair DEF BlendTypeOK
<1>2. allowance'[d].amount <= allowance[d].amount
  <2>0. allowance[d].amount \in Int
    BY <1>1 DEF AllowanceValue
  <2>1. CASE d = <<from, spender>>
    <3>1. allowance'[d].amount = allowance[d].amount - amount
      BY <1>0, <2>1
    <3> QED  BY <2>0, <3>1
  <2>2. CASE d # <<from, spender>>
    <3>1. allowance'[d] = allowance[d]
      BY <1>0, <2>2
    <3> QED  BY <2>0, <3>1
  <2> QED  BY <2>1, <2>2
<1>3. /\ get_allowance(d[1], d[2]) =
           IF allowance[d].expiration_ledger >= ledger THEN allowance[d].amount ELSE 0
      /\ get_allowance(d[1], d[2])' =
           IF allowance'[d].expiration_ledger >= ledger' THEN allowance'[d].amount ELSE 0
  BY <1>1 DEF get_allowance
<1> QED  BY <1>1, <1>2, <1>3 DEF AllowanceValue
-----------------------------------------------------------------------------
\* approve: only the holder's own delegation changes.
LEMMA ApproveIsSound ==
  ASSUME BlendInv, NEW d \in Delegations, NEW amount \in ApproveAmounts,
         NEW expiration_ledger \in Expirations,
         Approve(d[1], d[2], amount, expiration_ledger)
  PROVE  SoundStep
<1>1. /\ d = <<d[1], d[2]>> /\ d[1] \in Users
      /\ [amount |-> amount, expiration_ledger |-> expiration_ledger] \in AllowanceValue
  BY DelegationPair, ApproveAmountsAssumption, ExpirationsAssumption DEF AllowanceValue
<1>2. /\ shares' = shares /\ wallet' = wallet /\ vault' = vault /\ ledger' = ledger
      /\ keys' = keys /\ admin' = admin /\ signer' = signer /\ router_set' = router_set
      /\ auths' = {d[1]}
      /\ allowance' = [allowance EXCEPT ![d] =
                         [amount |-> amount, expiration_ledger |-> expiration_ledger]]
  BY <1>1 DEF Approve, vaultVars, keys
<1>3. EntriesTypeOK'
  BY <1>1, <1>2 DEF EntriesTypeOK, BlendInv, BlendTypeOK
<1>4. DebitsAreAsked /\ KeysConsent
  BY <1>2, VaultDataFields DEF DebitsAreAsked, KeysConsent, BlendInv, CoreInv, TypeOK
<1>5. HolderDelegates
  <2> SUFFICES ASSUME NEW x \in Delegations, x[1] \notin auths'
               PROVE  /\ get_allowance(x[1], x[2])' <= get_allowance(x[1], x[2])
                      /\ allowance'[x].expiration_ledger = allowance[x].expiration_ledger
    BY DEF HolderDelegates
  <2>1. x # d /\ x = <<x[1], x[2]>> /\ allowance[x] \in AllowanceValue
    BY <1>2, DelegationPair DEF BlendInv, BlendTypeOK
  <2>2. allowance'[x] = allowance[x]
    BY <1>2, <2>1 DEF BlendInv, BlendTypeOK
  <2> QED  BY <1>2, <2>1, <2>2 DEF get_allowance, AllowanceValue
<1> QED  BY <1>3, <1>4, <1>5 DEF SoundStep

\* A transfer takes shares from `from` alone.
LEMMA MoveTakesFromSender ==
  ASSUME CoreInv, NEW amount \in Int, NEW from \in Users, NEW to \in Users,
         MoveShares(from, to, amount)
  PROVE  /\ amount \in Nat
         /\ \A u \in Users : u # from => shares'[u] >= shares[u]
         /\ shares[from] - shares'[from] > 0 => shares[from] - shares'[from] = amount
         /\ UNCHANGED <<vault, wallet, ledger>>
  BY DEF CoreInv, TypeOK, MoveShares

\* transfer.
LEMMA TransferIsSound ==
  ASSUME BlendInv, NEW amount \in Amounts, NEW from \in Users, NEW to \in Users,
         Transfer(from, to, amount)
  PROVE  SoundStep
<1>1. /\ MoveShares(from, to, amount) /\ amount \in Int
      /\ allowance' = allowance /\ auths' = {from}
      /\ keys' = keys /\ admin' = admin /\ signer' = signer /\ router_set' = router_set
  BY AmountsAssumption DEF Transfer, keys
<1>2. /\ \A u \in Users : u # from => shares'[u] >= shares[u]
      /\ vault' = vault /\ wallet' = wallet /\ ledger' = ledger
  BY <1>1, MoveTakesFromSender DEF BlendInv
<1>3. \A u \in Users : shares[u] \in Nat /\ shares'[u] \in Nat /\ wallet[u] \in Nat
  BY <1>1, MoveKeepsCoreInv DEF BlendInv, CoreInv, TypeOK
<1>4. DebitsAreAsked /\ KeysConsent
  BY <1>1, <1>2, <1>3, VaultDataFields
     DEF DebitsAreAsked, KeysConsent, BlendInv, CoreInv, TypeOK
<1>5. HolderDelegates /\ EntriesTypeOK'
  BY <1>1, <1>2, UntouchedAllowances DEF BlendInv, BlendTypeOK, EntriesTypeOK
<1> QED  BY <1>4, <1>5 DEF SoundStep

\* transfer_from.
LEMMA TransferFromIsSound ==
  ASSUME BlendInv, NEW amount \in Amounts, NEW spender \in Users, NEW from \in Users,
         NEW to \in Users, TransferFrom(spender, from, to, amount)
  PROVE  SoundStep
<1>1. /\ SpendAllowance(from, spender, amount)
      /\ MoveShares(from, to, amount) /\ amount \in Int /\ auths' = {spender}
      /\ keys' = keys /\ admin' = admin /\ signer' = signer /\ router_set' = router_set
  BY AmountsAssumption DEF TransferFrom, keys
<1>2. /\ \A u \in Users : u # from => shares'[u] >= shares[u]
      /\ shares[from] - shares'[from] > 0 => shares[from] - shares'[from] = amount
      /\ vault' = vault /\ wallet' = wallet /\ ledger' = ledger /\ amount \in Nat
  BY <1>1, MoveTakesFromSender DEF BlendInv
<1>3. \A u \in Users : shares[u] \in Nat /\ shares'[u] \in Nat /\ wallet[u] \in Nat
  BY <1>1, MoveKeepsCoreInv DEF BlendInv, CoreInv, TypeOK
<1>4. /\ <<from, spender>> \in Delegations
      /\ get_allowance(from, spender) >= amount
      /\ allowance' \in [Delegations -> AllowanceValue]
      /\ allowance'[<<from, spender>>].amount = allowance[<<from, spender>>].amount - amount
  BY <1>1, SpendingIsExact DEF BlendInv
<1>5. DebitsAreAsked
  <2> SUFFICES ASSUME NEW u \in Users, shares[u] - shares'[u] > 0
               PROVE  \E x \in auths' :
                        /\ <<u, x>> \in Delegations
                        /\ get_allowance(u, x) >= shares[u] - shares'[u]
                        /\ allowance'[<<u, x>>].amount
                             = allowance[<<u, x>>].amount - (shares[u] - shares'[u])
    BY <1>2, <1>3 DEF DebitsAreAsked
  <2>1. u = from /\ shares[u] - shares'[u] = amount
    BY <1>2, <1>3
  <2> QED  BY <1>1, <1>4, <2>1
<1>6. KeysConsent
  BY <1>1, <1>2, VaultDataFields DEF KeysConsent, BlendInv, CoreInv, TypeOK
<1>7. HolderDelegates /\ EntriesTypeOK'
  BY <1>1, <1>2, <1>4, SpendingOnlyLowers DEF BlendInv, BlendTypeOK, EntriesTypeOK
<1> QED  BY <1>5, <1>6, <1>7 DEF SoundStep

\* deposit.
LEMMA DepositIsSound ==
  ASSUME BlendInv, NEW amount \in Amounts, NEW receiver \in Users, NEW from \in Users,
         NEW operator \in Users, DepositCall(amount, receiver, from, operator)
  PROVE  SoundStep
<1>1. /\ Deposit(amount, receiver, from) /\ amount \in Int /\ allowance' = allowance
      /\ auths' = {operator, from} \cup ({signer} \ {NoSigner})
      /\ keys' = keys /\ admin' = admin /\ signer' = signer /\ router_set' = router_set
  BY AmountsAssumption DEF DepositCall, keys
<1>2. /\ \A u \in Users : shares'[u] >= shares[u]
      /\ \A u \in Users : u # from => wallet'[u] = wallet[u]
      /\ ledger' = ledger
  BY <1>1, DepositTakesFromPayer DEF BlendInv
<1>3. \A u \in Users : shares[u] \in Nat /\ shares'[u] \in Nat /\ wallet[u] \in Nat
  BY <1>1, DepositKeepsCoreInv DEF BlendInv, CoreInv, TypeOK
<1>4. DebitsAreAsked
  <2>1. \A u \in Users : wallet'[u] < wallet[u] => u \in auths'
    BY <1>1, <1>2, <1>3
  <2>2. \A u \in Users : ~(shares[u] - shares'[u] > 0)
    BY <1>2, <1>3
  <2> QED  BY <2>1, <2>2 DEF DebitsAreAsked
<1>5. KeysConsent
  BY <1>1 DEF KeysConsent
<1>6. HolderDelegates /\ EntriesTypeOK'
  BY <1>1, <1>2, UntouchedAllowances DEF BlendInv, BlendTypeOK, EntriesTypeOK
<1> QED  BY <1>4, <1>5, <1>6 DEF SoundStep

\* withdraw and redeem, both charged the shares burnt.
LEMMA ExitIsSound ==
  ASSUME BlendInv, NEW receiver \in Users, NEW owner \in Users, NEW operator \in Users,
         NEW burnt, IsProRataExit(get_vault_updated, shares[owner], burnt),
         Exit(burnt, receiver, owner),
         spend_operator_allowance(owner, operator, burnt.shares),
         auths' = {operator}, UNCHANGED keys
  PROVE  SoundStep
<1>1. /\ burnt.shares \in 1..shares[owner]
      /\ shares' = [shares EXCEPT ![owner] = @ - burnt.shares]
      /\ vault'.total_shares <= vault.total_shares
      /\ \A u \in Users : wallet'[u] >= wallet[u]
      /\ ledger' = ledger
  BY ExitTakesFromOwner DEF BlendInv
<1>2. \A u \in Users : /\ shares[u] \in Nat /\ wallet[u] \in Nat /\ wallet'[u] \in Nat
                       /\ u # owner => shares'[u] = shares[u]
  BY <1>1, ExitKeepsCoreInv DEF BlendInv, CoreInv, TypeOK
<1>3. burnt.shares \in Nat /\ shares[owner] - shares'[owner] = burnt.shares
  BY <1>1, <1>2 DEF BlendInv, CoreInv, TypeOK
<1>4. keys' = keys /\ admin' = admin /\ signer' = signer /\ router_set' = router_set
  BY DEF keys
<1>5. KeysConsent
  <2>1. vault.total_shares \in Nat /\ vault'.total_shares \in Nat
    BY ExitKeepsCoreInv, VaultDataFields DEF BlendInv, CoreInv, TypeOK
  <2> QED  BY <1>1, <1>4, <2>1 DEF KeysConsent
<1>6. CASE owner = operator
  <2>1. allowance' = allowance
    BY <1>6 DEF spend_operator_allowance
  <2>2. HolderDelegates /\ EntriesTypeOK'
    BY <1>1, <1>4, <2>1, UntouchedAllowances DEF BlendInv, BlendTypeOK, EntriesTypeOK
  <2>3. DebitsAreAsked
    <3>1. \A u \in Users : ~(wallet'[u] < wallet[u])
      BY <1>1, <1>2
    <3>2. \A u \in Users : u # owner => ~(shares[u] - shares'[u] > 0)
      BY <1>2
    <3> QED  BY <1>6, <3>1, <3>2 DEF DebitsAreAsked
  <2> QED  BY <1>5, <2>2, <2>3 DEF SoundStep
<1>7. CASE owner # operator
  <2>1. SpendAllowance(owner, operator, burnt.shares)
    BY <1>7 DEF spend_operator_allowance
  <2>2. /\ <<owner, operator>> \in Delegations
        /\ get_allowance(owner, operator) >= burnt.shares
        /\ allowance' \in [Delegations -> AllowanceValue]
        /\ allowance'[<<owner, operator>>].amount
             = allowance[<<owner, operator>>].amount - burnt.shares
    BY <1>3, <2>1, SpendingIsExact DEF BlendInv
  <2>3. HolderDelegates
    BY <1>1, <1>3, <2>1, SpendingOnlyLowers DEF BlendInv
  <2>4. EntriesTypeOK'
    BY <1>4, <2>2 DEF BlendInv, BlendTypeOK, EntriesTypeOK
  <2>5. DebitsAreAsked
    <3>1. \A u \in Users : ~(wallet'[u] < wallet[u])
      BY <1>1, <1>2
    <3>2. \A u \in Users : u # owner => ~(shares[u] - shares'[u] > 0)
      BY <1>2
    <3> QED  BY <1>3, <2>2, <3>1, <3>2 DEF DebitsAreAsked
  <2> QED  BY <1>5, <2>3, <2>4, <2>5 DEF SoundStep
<1> QED  BY <1>6, <1>7

\* A withdrawal is an exit that charges what it really burns.
LEMMA WithdrawIsSound ==
  ASSUME BlendInv, NEW amount \in Amounts, NEW receiver \in Users, NEW owner \in Users,
         NEW operator \in Users, WithdrawCall(amount, receiver, owner, operator)
  PROVE  SoundStep
<1> DEFINE burnt == withdraw(get_vault_updated, shares[owner], amount)
<1>1. /\ amount \in Positive /\ burnt.accepted /\ Exit(burnt, receiver, owner)
      /\ auths' = {operator} /\ UNCHANGED keys
      /\ spend_operator_allowance(owner, operator, shares[owner] - shares'[owner])
  BY AmountsAssumption DEF WithdrawCall, Withdraw, Exit, Positive
<1>2. /\ shares[owner] \in Nat /\ get_vault_updated \in VaultData
      /\ shares \in [Users -> Nat]
  BY UpdatedVault DEF BlendInv, CoreInv, TypeOK
<1>3. IsProRataExit(get_vault_updated, shares[owner], burnt)
  BY <1>1, <1>2, WithdrawIsProRata
<1> HIDE DEF burnt
<1>4. shares[owner] - shares'[owner] = burnt.shares
  BY <1>1, <1>2, <1>3, ExitTakesFromOwner DEF BlendInv
<1> QED  BY <1>1, <1>3, <1>4, ExitIsSound

\* So is a redemption, which charges what was asked.
LEMMA RedeemIsSound ==
  ASSUME BlendInv, NEW amount \in Amounts, NEW receiver \in Users, NEW owner \in Users,
         NEW operator \in Users, RedeemCall(amount, receiver, owner, operator)
  PROVE  SoundStep
<1> DEFINE burnt == redeem(get_vault_updated, shares[owner], amount)
<1>1. /\ amount \in Positive /\ burnt.accepted /\ Exit(burnt, receiver, owner)
      /\ auths' = {operator} /\ UNCHANGED keys
      /\ spend_operator_allowance(owner, operator, burnt.shares)
  BY AmountsAssumption DEF RedeemCall, Redeem, Exit, Positive, redeem
<1>2. shares[owner] \in Nat /\ get_vault_updated \in VaultData
  BY UpdatedVault DEF BlendInv, CoreInv, TypeOK
<1>3. IsProRataExit(get_vault_updated, shares[owner], burnt)
  BY <1>1, <1>2, RedeemIsProRata
<1> HIDE DEF burnt
<1> QED  BY <1>1, <1>3, ExitIsSound

\* claim_emissions mints nothing and takes from nobody.
LEMMA ClaimIsSound ==
  ASSUME BlendInv, NEW received \in SwapOuts, ClaimEmissions(received)
  PROVE  SoundStep
<1>1. /\ HarvestEmissions(received)
      /\ shares' = shares /\ wallet' = wallet /\ ledger' = ledger /\ allowance' = allowance
      /\ keys' = keys /\ admin' = admin /\ signer' = signer /\ router_set' = router_set
      /\ auths' = {}
  BY DEF ClaimEmissions, HarvestEmissions, keys
<1>2. vault'.total_shares = vault.total_shares /\ vault.total_shares \in Nat
  BY <1>1, HarvestKeepsCoreInv, VaultDataFields
     DEF BlendInv, CoreInv, TypeOK, Ideal!Endow
<1>3. DebitsAreAsked /\ KeysConsent
  BY <1>1, <1>2 DEF DebitsAreAsked, KeysConsent, BlendInv, CoreInv, TypeOK
<1>4. HolderDelegates /\ EntriesTypeOK'
  BY <1>1, UntouchedAllowances DEF BlendInv, BlendTypeOK, EntriesTypeOK
<1> QED  BY <1>3, <1>4 DEF SoundStep

\* set_admin, set_signer and set_router ask who they must.
LEMMA AdminCallIsSound ==
  ASSUME BlendInv, AdminCall
  PROVE  SoundStep
<1>1. /\ shares' = shares /\ wallet' = wallet /\ vault' = vault /\ ledger' = ledger
      /\ allowance' = allowance
  BY DEF AdminCall, SetAdmin, SetSigner, SetRouter, vaultVars
<1>2. /\ admin' \in Admins /\ signer' \in Signers \cup {NoSigner} /\ router_set' \in BOOLEAN
      /\ auths' \subseteq Users \cup Admins \cup Signers
      /\ admin \in auths'
      /\ admin' # admin => admin' \in auths'
      /\ signer' \notin {signer, NoSigner} => signer' \in auths'
  <2>1. CASE \E new \in Admins : SetAdmin(new)
    BY <2>1 DEF SetAdmin, BlendInv, BlendTypeOK
  <2>2. CASE \E new \in Signers \cup {NoSigner} : SetSigner(new)
    <3>1. PICK new \in Signers \cup {NoSigner} : SetSigner(new)
      BY <2>2
    <3>2. /\ new # admin /\ signer' = new /\ auths' = {admin, new} \ {NoSigner}
          /\ admin' = admin /\ router_set' = router_set
      BY <3>1 DEF SetSigner
    <3>3. admin \in Admins /\ router_set \in BOOLEAN
      BY DEF BlendInv, BlendTypeOK
    <3>4. auths' \subseteq Users \cup Admins \cup Signers
      BY <3>2, <3>3
    <3>5. admin \in auths'
      BY <3>2, <3>3, NoSignerAssumption
    <3> QED  BY <3>2, <3>3, <3>4, <3>5
  <2>3. CASE SetRouter
    BY <2>3 DEF SetRouter, BlendInv, BlendTypeOK
  <2> QED  BY <2>1, <2>2, <2>3 DEF AdminCall
<1>3. DebitsAreAsked /\ KeysConsent
  BY <1>1, <1>2, VaultDataFields
     DEF DebitsAreAsked, KeysConsent, BlendInv, CoreInv, TypeOK
<1>4. HolderDelegates /\ EntriesTypeOK'
  BY <1>1, <1>2, UntouchedAllowances DEF BlendInv, BlendTypeOK, EntriesTypeOK
<1> QED  BY <1>3, <1>4 DEF SoundStep

\* The closing of a ledger may end delegations, and starts none.
LEMMA TickIsSound ==
  ASSUME BlendInv, Tick
  PROVE  SoundStep
<1>1. /\ shares' = shares /\ wallet' = wallet /\ vault' = vault
      /\ allowance' = allowance /\ ledger' = ledger + 1 /\ ledger \in Nat
      /\ keys' = keys /\ admin' = admin /\ signer' = signer /\ router_set' = router_set
      /\ auths' = {}
  BY DEF Tick, CloseLedger, keys, BlendInv, CoreInv, TypeOK
<1>2. DebitsAreAsked /\ KeysConsent
  BY <1>1, VaultDataFields DEF DebitsAreAsked, KeysConsent, BlendInv, CoreInv, TypeOK
<1>3. HolderDelegates
  <2> SUFFICES ASSUME NEW d \in Delegations, get_allowance(d[1], d[2])' > 0
               PROVE  get_allowance(d[1], d[2])' <= get_allowance(d[1], d[2])
    BY <1>1 DEF HolderDelegates
  <2>1. allowance[<<d[1], d[2]>>] \in AllowanceValue
    BY DelegationPair DEF BlendInv, BlendTypeOK
  <2> QED  BY <1>1, <2>1 DEF get_allowance, AllowanceValue
<1>4. EntriesTypeOK'
  BY <1>1 DEF BlendInv, BlendTypeOK, EntriesTypeOK
<1> QED  BY <1>2, <1>3, <1>4 DEF SoundStep
-----------------------------------------------------------------------------
\* Every step of the contract is sound.
LEMMA NextIsSound ==
  ASSUME BlendInv, BlendNext
  PROVE  SoundStep
<1>1. CASE TokenCall
  <2>1. ASSUME NEW d \in Delegations, NEW amount \in ApproveAmounts,
               NEW expiration_ledger \in Expirations,
               Approve(d[1], d[2], amount, expiration_ledger)
        PROVE  SoundStep
    BY <2>1, ApproveIsSound
  <2>2. ASSUME NEW from \in Users, NEW to \in Users, NEW amount \in Amounts,
               Transfer(from, to, amount)
        PROVE  SoundStep
    BY <2>2, TransferIsSound
  <2>3. ASSUME NEW spender \in Users, NEW from \in Users, NEW to \in Users,
               NEW amount \in Amounts, TransferFrom(spender, from, to, amount)
        PROVE  SoundStep
    BY <2>3, TransferFromIsSound
  <2> QED  BY <1>1, <2>1, <2>2, <2>3 DEF TokenCall
<1>2. CASE PoolCall
  <2>1. ASSUME NEW amount \in Amounts, NEW receiver \in Users, NEW from \in Users,
               NEW operator \in Users, DepositCall(amount, receiver, from, operator)
        PROVE  SoundStep
    BY <2>1, DepositIsSound
  <2>2. ASSUME NEW amount \in Amounts, NEW receiver \in Users, NEW owner \in Users,
               NEW operator \in Users, WithdrawCall(amount, receiver, owner, operator)
        PROVE  SoundStep
    BY <2>2, WithdrawIsSound
  <2>3. ASSUME NEW amount \in Amounts, NEW receiver \in Users, NEW owner \in Users,
               NEW operator \in Users, RedeemCall(amount, receiver, owner, operator)
        PROVE  SoundStep
    BY <2>3, RedeemIsSound
  <2>4. ASSUME NEW received \in SwapOuts, ClaimEmissions(received)
        PROVE  SoundStep
    BY <2>4, ClaimIsSound
  <2> QED  BY <1>2, <2>1, <2>2, <2>3, <2>4 DEF PoolCall
<1>3. CASE AdminCall
  BY <1>3, AdminCallIsSound
<1>4. CASE Tick
  BY <1>4, TickIsSound
<1> QED  BY <1>1, <1>2, <1>3, <1>4 DEF BlendNext

\* Every step of the contract keeps BlendInv.
LEMMA NextKeepsBlendInv ==
  ASSUME BlendInv, [BlendNext]_blendVars
  PROVE  BlendInv'
<1>1. CoreInv'
  BY EntryPointIsVaultStep, NextKeepsCoreInv DEF BlendInv
<1>2. EntriesTypeOK'
  <2>1. CASE BlendNext
    BY <2>1, NextIsSound DEF SoundStep
  <2>2. CASE UNCHANGED blendVars
    BY <2>2 DEF blendVars, BlendInv, BlendTypeOK, EntriesTypeOK
  <2> QED  BY <2>1, <2>2
<1>3. BlendTypeOK'
  BY <1>1, <1>2 DEF BlendTypeOK, EntriesTypeOK, CoreInv
<1> QED  BY <1>1, <1>3 DEF BlendInv

\* A contract just constructed has no delegations and asked its admin.
LEMMA InitEstablishesBlendInv == ASSUME BlendInit PROVE BlendInv
<1>1. CoreInv
  BY InitEstablishesCoreInv DEF BlendInit
<1>2. BlendTypeOK
  <2>1. allowance \in [Delegations -> AllowanceValue]
    BY DEF BlendInit, AllowanceValue
  <2> QED  BY <1>1, <2>1 DEF BlendInit, BlendTypeOK, CoreInv
<1> QED  BY <1>1, <1>2 DEF BlendInv

\* BlendInv holds in every reachable state of the contract.
THEOREM BlendInvariant == BlendSpec => []BlendInv
<1>1. BlendInit => BlendInv
  BY InitEstablishesBlendInv
<1>2. BlendInv /\ [BlendNext]_blendVars => BlendInv'
  BY NextKeepsBlendInv
<1> QED  BY <1>1, <1>2, PTL DEF BlendSpec

\* The entries of the contract's storage keep their types, and only known
\* addresses are ever asked to authorize.
THEOREM EntriesKeepTheirTypes == BlendSpec => []BlendTypeOK
<1>1. BlendInv => BlendTypeOK
  BY DEF BlendInv
<1> QED  BY <1>1, BlendInvariant, PTL

\* Nobody's shares or tokens are taken without their authorization, except
\* shares taken under an unexpired allowance that is charged as much
\* (contract.rs:30-39, 217-261, 367-467).
THEOREM NobodyIsEverDebitedUnasked == BlendSpec => NobodyIsDebitedUnasked
<1>1. BlendInv /\ [BlendNext]_blendVars => [DebitsAreAsked]_blendVars
  BY NextIsSound DEF SoundStep
<1> QED
  BY <1>1, BlendInvariant, PTL DEF BlendSpec, NobodyIsDebitedUnasked, DebitsAreAsked

\* Only the holder revives, raises or prolongs a delegation (storage.rs:196-237).
THEOREM OnlyTheHolderEverDelegates == BlendSpec => OnlyTheHolderDelegates
<1>1. BlendInv /\ [BlendNext]_blendVars => [HolderDelegates]_blendVars
  BY NextIsSound DEF SoundStep
<1> QED
  BY <1>1, BlendInvariant, PTL DEF BlendSpec, OnlyTheHolderDelegates, HolderDelegates

\* No shares are minted without the signer that is set, and no key changes
\* hands without the consent of both sides (contract.rs:265-299, 367-391).
THEOREM KeysAlwaysNeedConsent == BlendSpec => KeysNeedConsent
<1>1. BlendInv /\ [BlendNext]_blendVars => [KeysConsent]_blendVars
  BY NextIsSound DEF SoundStep
<1> QED
  BY <1>1, BlendInvariant, PTL DEF BlendSpec, KeysNeedConsent, KeysConsent

\* Whoever calls what with which authorization, the vault's books are those of
\* the pool, each share is backed by a bToken, and no share loses backing.
THEOREM ContractKeepsItsBooks ==
  BlendSpec => []PositionMatchesPool /\ []SharesAreBacked /\ SharePriceNeverFalls
  BY EntryPointsImplementVault, PositionAlwaysMatchesPool, SharesStayBacked, SharePriceHolds, PTL

\* Nor does any entry point price an exit above its quote or a deposit below it,
\* strand more than dust, or let a depositor gain by redeeming at once.
THEOREM ContractPricesFairly ==
  BlendSpec => QuotesAreFair /\ OnlyDustIsStranded /\ [][DepositGainsNothing]_vaultVars
  BY EntryPointsImplementVault, QuotesStayFair, DrainsLeaveDust, DepositorsNeverProfit, PTL
-----------------------------------------------------------------------------
(***************************************************************************)
(* What the delegates of a holder may take together, and in the long run.  *)
(***************************************************************************)

\* What each delegation still allows of the shares of u.
Grants(u) ==
  [d \in Delegations |->
     IF d[1] = u /\ get_allowance(d[1], d[2]) > 0 THEN get_allowance(d[1], d[2]) ELSE 0]

\* What DelegatesKeepToTheirBudget says of one holder and one step.
WithinBudget(u) ==
  u \notin auths' => shares'[u] - Granted(u)' >= shares[u] - Granted(u)

\* There are finitely many delegations, each an integer or nothing.
LEMMA GrantsAreNatural ==
  ASSUME BlendTypeOK, NEW u \in Users
  PROVE  /\ IsFiniteSet(Delegations)
         /\ Grants(u) \in [Delegations -> Nat]
         /\ Granted(u) = SumFunction(Grants(u))
         /\ Granted(u) \in Nat
<1>1. IsFiniteSet(Delegations)
  BY UsersAssumption, DelegationsAssumption, FS_Product, FS_Subset
<1>2. \A d \in Delegations : get_allowance(d[1], d[2]) \in Int
  BY DelegationPair DEF BlendTypeOK, AllowanceValue, get_allowance
<1>3. Grants(u) \in [Delegations -> Nat] /\ Granted(u) = SumFunction(Grants(u))
  BY <1>2 DEF Grants, Granted
<1>4. SumFunction(Grants(u)) \in Nat
  <2>1. PICK f \in [Delegations -> Nat] : f = Grants(u)
    BY <1>3
  <2>2. SumFunctionOnSet(f, Delegations) \in Nat
    BY <1>1, SumOfNaturals
  <2> QED  BY <2>1, <2>2, DOMAIN f = Delegations DEF SumFunction
<1> QED  BY <1>1, <1>3, <1>4

\* The delegation that is charged gives up what is taken, and no other grows:
\* that is what NobodyIsDebitedUnasked and OnlyTheHolderDelegates say together.
LEMMA SoundStepIsWithinBudget ==
  ASSUME BlendInv, BlendInv', DebitsAreAsked, HolderDelegates, NEW u \in Users
  PROVE  WithinBudget(u)
<1> SUFFICES ASSUME u \notin auths'
             PROVE  shares'[u] - Granted(u)' >= shares[u] - Granted(u)
  BY DEF WithinBudget
<1> DEFINE f == Grants(u)
           g == Grants(u)'
           taken == shares[u] - shares'[u]
<1>1. /\ IsFiniteSet(Delegations) /\ f \in [Delegations -> Nat]
      /\ Granted(u) = SumFunction(f)
  BY GrantsAreNatural DEF BlendInv
<1>2. g \in [Delegations -> Nat] /\ Granted(u)' = SumFunction(g)
  <2>1. (/\ Grants(u) \in [Delegations -> Nat]
         /\ Granted(u) = SumFunction(Grants(u)))'
    BY GrantsAreNatural, PTL DEF BlendInv
  <2> QED  BY <2>1
<1>3. shares[u] \in Nat /\ shares'[u] \in Nat
  BY DEF BlendInv, CoreInv, TypeOK
<1>4. \A d \in Delegations :
        /\ allowance[d] \in AllowanceValue /\ allowance'[d] \in AllowanceValue
        /\ d = <<d[1], d[2]>>
        /\ get_allowance(d[1], d[2]) =
             IF allowance[d].expiration_ledger >= ledger THEN allowance[d].amount ELSE 0
        /\ get_allowance(d[1], d[2])' =
             IF allowance'[d].expiration_ledger >= ledger' THEN allowance'[d].amount ELSE 0
  BY DelegationPair DEF BlendInv, BlendTypeOK, get_allowance
<1>5. \A d \in Delegations :
        /\ f[d] = IF d[1] = u /\ get_allowance(d[1], d[2]) > 0
                  THEN get_allowance(d[1], d[2]) ELSE 0
        /\ g[d] = IF d[1] = u /\ get_allowance(d[1], d[2])' > 0
                  THEN get_allowance(d[1], d[2])' ELSE 0
  BY DEF Grants
<1> HIDE DEF f, g
<1>6. \A d \in Delegations : g[d] <= f[d]
  <2> SUFFICES ASSUME NEW d \in Delegations PROVE g[d] <= f[d]
    OBVIOUS
  <2>1. CASE d[1] # u
    BY <1>5, <2>1
  <2>2. CASE d[1] = u
    <3>1. get_allowance(d[1], d[2])' > 0
            => get_allowance(d[1], d[2])' <= get_allowance(d[1], d[2])
      BY <2>2 DEF HolderDelegates
    <3>2. get_allowance(d[1], d[2])' \in Int /\ get_allowance(d[1], d[2]) \in Int
      BY <1>4 DEF AllowanceValue
    <3> QED  BY <1>5, <3>1, <3>2
  <2> QED  BY <2>1, <2>2
<1>7. f \in [Delegations -> Int] /\ g \in [Delegations -> Int]
  BY <1>1, <1>2
<1>8. CASE taken > 0
  <2>1. PICK spender \in auths' :
          /\ <<u, spender>> \in Delegations
          /\ get_allowance(u, spender) >= taken
          /\ allowance'[<<u, spender>>].amount = allowance[<<u, spender>>].amount - taken
    BY <1>8 DEF DebitsAreAsked
  <2> DEFINE p == <<u, spender>>
  <2>2. p \in Delegations /\ p[1] = u /\ p[2] = spender
    BY <2>1
  <2> HIDE DEF p
  <2>3. /\ allowance[p].amount \in Int /\ allowance'[p].amount \in Int
        /\ get_allowance(p[1], p[2]) >= taken
        /\ allowance'[p].amount = allowance[p].amount - taken
    BY <1>4, <2>1, <2>2 DEF p, AllowanceValue
  <2> HIDE DEF taken
  <2>4. taken \in Int
    BY <1>3 DEF taken
  <2>5. g[p] <= f[p] - taken
    BY <1>4, <1>5, <1>8, <2>2, <2>3, <2>4
  <2>6. SumFunction(g) <= SumFunction(f) - taken
        /\ SumFunction(f) \in Int /\ SumFunction(g) \in Int
    BY <1>1, <1>6, <1>7, <2>2, <2>4, <2>5, SumFallsBy
  <2> QED  BY <1>1, <1>2, <1>3, <2>6 DEF taken
<1>9. CASE taken <= 0
  <2>1. SumFunction(g) <= SumFunction(f)
        /\ SumFunction(f) \in Int /\ SumFunction(g) \in Int
    <3>1. /\ SumFunctionOnSet(f, Delegations) \in Int
          /\ SumFunctionOnSet(g, Delegations) \in Int
          /\ SumFunctionOnSet(g, Delegations) <= SumFunctionOnSet(f, Delegations)
      <4>1. \A d \in Delegations : f[d] \in Int /\ g[d] \in Int /\ g[d] <= f[d]
        BY <1>6, <1>7
      <4> QED  BY <1>1, <4>1, SumIsMonotone
    <3> QED  BY <1>7, <3>1, DOMAIN f = Delegations, DOMAIN g = Delegations DEF SumFunction
  <2> QED  BY <1>1, <1>2, <1>3, <1>9, <2>1
<1> QED  BY <1>3, <1>8, <1>9

\* So is every step of the contract, taken or not.
LEMMA StepIsWithinBudget ==
  ASSUME BlendInv, [BlendNext]_blendVars, NEW u \in Users
  PROVE  [WithinBudget(u)]_blendVars
<1>1. BlendInv'
  BY NextKeepsBlendInv
<1>2. CASE BlendNext
  BY <1>1, <1>2, NextIsSound, SoundStepIsWithinBudget DEF SoundStep
<1>3. CASE UNCHANGED blendVars
  BY <1>3
<1> QED  BY <1>2, <1>3

\* Delegates never take more shares than they were granted, all of them together
\* (contract.rs:30-39, 240-261, storage.rs:196-237).
THEOREM DelegatesStayWithinBudget == BlendSpec => DelegatesKeepToTheirBudget
<1> DEFINE Within == \A u \in Users : WithinBudget(u)
<1>1. BlendInv /\ [BlendNext]_blendVars => [Within]_blendVars
  BY StepIsWithinBudget
<1> QED
  BY <1>1, BlendInvariant, PTL DEF BlendSpec, DelegatesKeepToTheirBudget, WithinBudget

\* In the long run: a holder who authorizes nothing from some moment on keeps at
\* least the shares held then less all that was granted then, whatever any number
\* of delegates, depositors, keys and ledgers do afterwards.
THEOREM GrantsCapLosses ==
  ASSUME NEW u \in Users, NEW k \in Int
  PROVE  BlendSpec
           => [](shares[u] - Granted(u) >= k /\ [][u \notin auths']_blendVars
                   => [](shares[u] >= k))
<1> DEFINE Safe == BlendInv /\ shares[u] - Granted(u) >= k
<1>1. Safe /\ [BlendNext]_blendVars /\ [u \notin auths']_blendVars => Safe'
  <2> SUFFICES ASSUME Safe, [BlendNext]_blendVars, [u \notin auths']_blendVars
               PROVE  Safe'
    OBVIOUS
  <2>1. BlendInv'
    BY NextKeepsBlendInv
  <2>2. CASE UNCHANGED blendVars
    BY <2>1, <2>2 DEF blendVars, Granted, get_allowance
  <2>3. CASE ~(UNCHANGED blendVars)
    <3>1. shares'[u] - Granted(u)' >= shares[u] - Granted(u)
      BY <2>3, StepIsWithinBudget DEF WithinBudget
    <3>2. Granted(u) \in Int /\ shares[u] \in Int
      BY GrantsAreNatural DEF BlendInv, CoreInv, TypeOK
    <3>3. Granted(u)' \in Int /\ shares'[u] \in Int
      <4>1. (Granted(u) \in Nat)'
        BY <2>1, GrantsAreNatural, PTL DEF BlendInv
      <4> QED  BY <2>1, <4>1 DEF BlendInv, CoreInv, TypeOK
    <3> QED  BY <2>1, <3>1, <3>2, <3>3
  <2> QED  BY <2>2, <2>3
<1>2. Safe => shares[u] >= k
  BY GrantsAreNatural DEF BlendInv, CoreInv, TypeOK
<1>3. BlendInv /\ shares[u] - Granted(u) >= k => Safe
  OBVIOUS
<1> HIDE DEF Safe
<1> QED  BY <1>1, <1>2, <1>3, BlendInvariant, PTL DEF BlendSpec
-----------------------------------------------------------------------------
(***************************************************************************)
(* What a redemption of a whole position asks.  The provers know nothing   *)
(* of ENABLED, which NoKeyBlocksExit is stated with; what makes it true is *)
(* that no conjunct of the call is left but those that set a variable.     *)
(***************************************************************************)

\* The condition of NoKeyBlocksExit: a position that is worth something.
IsWorthRedeeming(u) ==
  /\ get_vault_updated.b_rate > 0
  /\ Quote(shares[u]) > 0
  /\ shares[u] <= vault.total_shares
  /\ quote_returns(get_vault_updated, shares[u])

\* Every variable of the contract, once u has redeemed all shares.
WholePositionRedeemed(u) ==
  LET v == get_vault_updated
      exit == redeem(v, shares[u], shares[u])
  IN  /\ vault' = [v EXCEPT !.total_shares = @ - exit.shares,
                            !.total_b_tokens = @ - exit.b_tokens]
      /\ shares' = Debit(shares, u, exit.shares)
      /\ pool' = PoolWithdraw(exit.underlying)
      /\ wallet' = Credit(wallet, u, Quote(shares[u]))
      /\ auths' = {u}
      /\ UNCHANGED <<ledger, allowance, admin, signer, router_set>>

\* Whatever the keys are set to, a holder whose position is worth something
\* redeems all of it alone, for its quote: neither admin, signer, router nor an
\* allowance has a say in the call (contract.rs:446-467, vault.rs:199-235).
THEOREM RedeemingAsksNoKey ==
  ASSUME BlendInv, NEW u \in Users, IsWorthRedeeming(u)
  PROVE  RedeemCall(shares[u], u, u, u) <=> WholePositionRedeemed(u)
<1> DEFINE exit == redeem(get_vault_updated, shares[u], shares[u])
<1>1. CoreInv /\ shares[u] \in Nat /\ shares[u] > 0
  BY DEF BlendInv, CoreInv, TypeOK, IsWorthRedeeming, Quote
<1>2. /\ exit.accepted /\ PoolPays(exit.underlying) = Quote(shares[u])
      /\ PoolBurn(exit.underlying) \in Positive
  BY <1>1, WholePositionIsPayable DEF IsWorthRedeeming
<1>3. PoolBurn(exit.underlying) >= MinBTokens
  BY <1>2, MinBTokensAssumption DEF Positive
<1> HIDE DEF exit
<1>4. Redeem(shares[u], u, u) <=> Exit(exit, u, u)
  BY <1>1 DEF Redeem, exit
<1>5. Exit(exit, u, u) <=>
        /\ vault' = [get_vault_updated EXCEPT !.total_shares = @ - exit.shares,
                                              !.total_b_tokens = @ - exit.b_tokens]
        /\ shares' = Debit(shares, u, exit.shares)
        /\ pool' = PoolWithdraw(exit.underlying)
        /\ wallet' = Credit(wallet, u, Quote(shares[u]))
        /\ UNCHANGED ledger
  BY <1>2, <1>3 DEF Exit
<1> QED
  BY <1>4, <1>5
     DEF RedeemCall, spend_operator_allowance, WholePositionRedeemed, exit, keys
-----------------------------------------------------------------------------
(***************************************************************************)
(* The contract while nobody transfers shares to themselves, the one way   *)
(* in which balances stop adding up to total_shares.                       *)
(***************************************************************************)
NobodyPaysThemselves == ~\E u \in Users, amount \in Amounts : MoveShares(u, u, amount)

\* Then each entry point is a step of the two-party vault.
LEMMA EntryPointIsTwoPartyStep ==
  [BlendNext]_blendVars /\ [NobodyPaysThemselves]_blendVars => [TwoPartyNext]_vaultVars
<1> SUFFICES ASSUME [BlendNext]_blendVars, [NobodyPaysThemselves]_blendVars
             PROVE  [TwoPartyNext]_vaultVars
  OBVIOUS
<1>1. CASE UNCHANGED blendVars
  BY <1>1 DEF blendVars, vaultVars
<1>2. CASE NobodyPaysThemselves
  <2>1. [VaultNext]_vaultVars
    BY EntryPointIsVaultStep
  <2>2. ASSUME NEW amount \in Amounts, NEW from \in Users, NEW to \in Users,
               MoveShares(from, to, amount)
        PROVE  TwoPartyNext
    <3>1. from # to
      BY <1>2, <2>2 DEF NobodyPaysThemselves
    <3> QED  BY <2>2, <3>1 DEF TwoPartyNext
  <2> QED  BY <2>1, <2>2 DEF VaultNext, TwoPartyNext
<1> QED  BY <1>1, <1>2

\* Whoever calls what, as long as no transfer is to oneself (contract.rs:217-261):
\* the contract is a pro-rata vault, its balances add up, its holders are not
\* diluted, and each of them can leave with the quote.
THEOREM ContractIsAnIdealVault ==
  BlendSpec /\ [][NobodyPaysThemselves]_blendVars
    => /\ ImplementsIdealVault
       /\ []SharesConserved
       /\ []ExitIsOpen
       /\ []OverlargeWithdrawTakesAll
       /\ HoldersStayWhole
<1>1. BlendSpec /\ [][NobodyPaysThemselves]_blendVars => TwoPartySpec
  <2>1. BlendInit => VaultInit
    BY DEF BlendInit
  <2> QED  BY <2>1, EntryPointIsTwoPartyStep, PTL DEF BlendSpec, TwoPartySpec
<1> QED
  BY <1>1, VaultImplementsIdealVault, SharesAddUp, ExitStaysOpen, OverlargeWithdrawalsTakeAll,
     HoldersAreNotDiluted, PTL
=============================================================================
