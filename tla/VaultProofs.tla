---------------------------- MODULE VaultProofs ----------------------------
(***************************************************************************)
(* The accounting core, for any users, rates, amounts and fixed-point      *)
(* base: its safety, that it implements the ideal vault, and what each     *)
(* holder of shares can rely on.                                           *)
(***************************************************************************)
EXTENDS Vault, VaultMathProofs
-----------------------------------------------------------------------------
(***************************************************************************)
(* The books, self-transfers included.                                     *)
(***************************************************************************)

\* The inductive invariant: the types, the pool's books and the backing of the
\* shares depend on each other.  A burn is priced with total_b_tokens, so it
\* fits the pool's position only because the two agree; they agree only
\* because the vault burns what the pool burns.
CoreInv == TypeOK /\ PositionMatchesPool /\ SharesAreBacked

\* What SharePriceNeverFalls says of one step.
PriceHolds ==
  vault.total_shares > 0
    => vault'.total_b_tokens * vault.total_shares
         >= vault.total_b_tokens * vault'.total_shares

\* Accruing only refreshes the bRate and the timestamp of the record.
LEMMA UpdatedVault ==
  ASSUME TypeOK
  PROVE  /\ get_vault_updated \in VaultData
         /\ get_vault_updated.total_shares = vault.total_shares
         /\ get_vault_updated.total_b_tokens = vault.total_b_tokens
         /\ get_vault_updated.b_rate = pool.b_rate
         /\ pool.b_rate \in Nat /\ pool.position \in Nat /\ pool.blnd \in BOOLEAN
  BY DEF TypeOK, get_vault_updated, VaultData, Pool

\* The vault record after a call: the updated one with new totals.
LEMMA NewTotals ==
  ASSUME TypeOK, NEW s, NEW b,
         vault' = [get_vault_updated EXCEPT !.total_shares = s, !.total_b_tokens = b]
  PROVE  /\ vault'.total_shares = s
         /\ vault'.total_b_tokens = b
         /\ s \in Nat /\ b \in Nat => vault' \in VaultData
  BY DEF TypeOK, get_vault_updated, VaultData, Pool

\* __constructor leaves empty books that agree with the pool's.
LEMMA InitEstablishesCoreInv == ASSUME VaultInit PROVE CoreInv
<1>1. pool \in Pool /\ pool.b_rate \in Nat /\ pool.position = 0
  <2>1. pool \in [b_rate : Rates, position : {0}, blnd : {FALSE}]
    BY DEF VaultInit
  <2>2. PICK rate \in Rates : pool = [b_rate |-> rate, position |-> 0, blnd |-> FALSE]
    BY <2>1
  <2>3. rate \in Nat /\ 0 \in Nat /\ FALSE \in BOOLEAN
    BY RatesAssumption
  <2> QED  BY <2>2, <2>3 DEF Pool
<1> QED
  BY <1>1, InitialWalletAssumption
     DEF VaultInit, CoreInv, TypeOK, VaultData, PositionMatchesPool, SharesAreBacked

\* A deposit mints no more than the pro rata part, booked as the pool books it.
LEMMA DepositKeepsCoreInv ==
  ASSUME CoreInv, NEW amount \in Int, NEW receiver \in Users, NEW from \in Users,
         Deposit(amount, receiver, from)
  PROVE  CoreInv' /\ PriceHolds /\ Ideal!Issue(receiver)
<1> DEFINE v == get_vault_updated
           minted == deposit(v, shares[receiver], amount)
           S == vault.total_shares
           B == vault.total_b_tokens
<1>0. /\ TypeOK /\ S \in Nat /\ B \in Nat /\ B = pool.position /\ S <= B
      /\ v \in VaultData /\ amount \in Positive /\ shares[receiver] \in Nat
  BY UpdatedVault, VaultDataFields
     DEF CoreInv, TypeOK, PositionMatchesPool, SharesAreBacked, Deposit, Positive
<1>1. /\ minted.b_tokens \in Positive
      /\ minted.shares \in Positive
      /\ minted.b_tokens = PoolMint(amount)
      /\ minted.shares * B <= minted.b_tokens * S \/ S = 0
      /\ minted.shares <= minted.b_tokens
  <2>1. minted.accepted
    BY DEF Deposit
  <2> QED  BY <1>0, <2>1, UpdatedVault, DepositMintsProRata DEF PoolMint
<1>2. /\ vault'.total_shares = S + minted.shares
      /\ vault'.total_b_tokens = B + minted.b_tokens
      /\ vault' \in VaultData
  <2>1. vault' = [v EXCEPT !.total_shares = S + minted.shares,
                           !.total_b_tokens = B + minted.b_tokens]
    BY <1>0, UpdatedVault DEF Deposit, VaultData
  <2>2. S + minted.shares \in Nat /\ B + minted.b_tokens \in Nat
    BY <1>0, <1>1 DEF Positive
  <2> HIDE DEF S, B, minted
  <2> QED  BY <1>0, <2>1, <2>2, NewTotals
<1>3. pool' \in Pool /\ pool'.position = pool.position + minted.b_tokens
  BY <1>0, <1>1, UpdatedVault DEF Deposit, PoolSupply, Pool, TypeOK, Positive
<1>4. TypeOK'
  <2>1. shares' \in [Users -> Nat]
    BY <1>0, <1>1 DEF Deposit, Credit, TypeOK, Positive
  <2>2. wallet' \in [Users -> Nat]
    BY <1>0 DEF Deposit, Debit, TypeOK, Positive
  <2>3. ledger' \in Nat
    BY <1>0 DEF TypeOK, Deposit
  <2> QED  BY <1>2, <1>3, <2>1, <2>2, <2>3 DEF TypeOK
<1>5. PositionMatchesPool' /\ SharesAreBacked'
  BY <1>0, <1>1, <1>2, <1>3 DEF PositionMatchesPool, SharesAreBacked, Positive
<1>6. PriceHolds
  <2> HIDE DEF S, B, minted
  <2>1. S > 0 => (B + minted.b_tokens) * S >= B * (S + minted.shares)
    BY <1>0, <1>1 DEF Positive
  <2> QED  BY <1>2, <2>1 DEF PriceHolds, S, B
<1>7. Ideal!Issue(receiver)
  <2>1. shares' = [shares EXCEPT ![receiver] = @ + minted.shares]
    BY DEF Deposit, Credit
  <2> HIDE DEF S, B, minted
  <2>2. /\ vault'.total_shares - vault.total_shares = minted.shares
        /\ pool'.position - pool.position = minted.b_tokens
    BY <1>0, <1>1, <1>2, <1>3 DEF S, B, Positive
  <2>3. /\ minted.shares > 0
        /\ minted.shares <= minted.b_tokens
        /\ \/ minted.shares * pool.position <= minted.b_tokens * vault.total_shares
           \/ vault.total_shares = 0
    BY <1>0, <1>1 DEF S, B, Positive
  <2> QED  BY <2>1, <2>2, <2>3 DEF Ideal!Issue
<1> QED  BY <1>4, <1>5, <1>6, <1>7 DEF CoreInv

\* An exit that is pro rata burns what the pool burns, and no more than its part.
LEMMA ExitKeepsCoreInv ==
  ASSUME CoreInv, NEW receiver \in Users, NEW owner \in Users, NEW burnt,
         IsProRataExit(get_vault_updated, shares[owner], burnt),
         Exit(burnt, receiver, owner)
  PROVE  CoreInv' /\ PriceHolds /\ Ideal!Retire(owner)
<1> DEFINE S == vault.total_shares
           B == vault.total_b_tokens
           s == burnt.shares
           b == burnt.b_tokens
<1>0. /\ TypeOK /\ S \in Nat /\ B \in Nat /\ B = pool.position /\ S <= B
      /\ shares[owner] \in Nat
  BY VaultDataFields DEF CoreInv, TypeOK, PositionMatchesPool, SharesAreBacked
<1>1. /\ s \in 1..shares[owner] /\ s <= S
      /\ b \in 0..B
      /\ b * S <= s * B
      /\ burnt.underlying \in Nat
      /\ b = PoolBurn(burnt.underlying)
  BY <1>0, UpdatedVault DEF IsProRataExit, PoolBurn, underlying_to_b_tokens_up
<1>2. /\ vault'.total_shares = S - s
      /\ vault'.total_b_tokens = B - b
      /\ vault' \in VaultData
  <2>1. vault' = [get_vault_updated EXCEPT !.total_shares = S - s, !.total_b_tokens = B - b]
    BY <1>0, UpdatedVault DEF Exit, VaultData
  <2>2. S - s \in Nat /\ B - b \in Nat
    BY <1>0, <1>1
  <2> HIDE DEF S, B, s, b
  <2> QED  BY <1>0, <2>1, <2>2, NewTotals
<1>3. pool' \in Pool /\ pool'.position = pool.position - b
  BY <1>0, <1>1, UpdatedVault DEF Exit, PoolWithdraw, Pool, TypeOK
<1>4. TypeOK'
  <2>1. shares' \in [Users -> Nat]
    BY <1>0, <1>1 DEF Exit, Debit, TypeOK
  <2>2. PoolPays(burnt.underlying) \in Nat
    BY <1>0, <1>1 DEF PoolPays
  <2>3. wallet' \in [Users -> Nat]
    BY <1>0, <2>2 DEF Exit, Credit, TypeOK
  <2> QED  BY <1>0, <1>2, <1>3, <2>1, <2>3 DEF TypeOK, Exit
<1>5. S - s <= B - b /\ (B - b) * S >= B * (S - s)
  <2> HIDE DEF S, B, s, b
  <2>1. S \in Positive /\ s \in Nat /\ b \in Nat
    BY <1>0, <1>1 DEF Positive
  <2>2. (B - b) * S >= B * (S - s)
    BY <1>0, <1>1, <2>1
  <2>3. B * (S - s) >= S * (S - s)
    BY <1>0, <1>1, <2>1
  <2>4. S * (S - s) <= S * (B - b)
    BY <1>0, <2>1, <2>2, <2>3
  <2>5. S - s \in Int /\ B - b \in Int
    BY <1>0, <2>1
  <2>6. S - s <= B - b
    BY <2>1, <2>4, <2>5, Cancel
  <2> QED  BY <2>2, <2>6
<1>6. PositionMatchesPool' /\ SharesAreBacked' /\ PriceHolds
  BY <1>0, <1>2, <1>3, <1>5 DEF PositionMatchesPool, SharesAreBacked, PriceHolds
<1>7. Ideal!Retire(owner)
  <2>1. shares' = [shares EXCEPT ![owner] = @ - s]
    BY DEF Exit, Debit
  <2> HIDE DEF S, B, s, b
  <2>2. /\ vault.total_shares - vault'.total_shares = s
        /\ pool.position - pool'.position = b
    BY <1>0, <1>1, <1>2, <1>3 DEF S, B
  <2> QED  BY <1>0, <1>1, <2>1, <2>2 DEF Ideal!Retire, S, B
<1> QED  BY <1>4, <1>6, <1>7 DEF CoreInv

\* A withdrawal, clamped or not, is a pro rata exit.
LEMMA WithdrawKeepsCoreInv ==
  ASSUME CoreInv, NEW amount \in Int, NEW receiver \in Users, NEW owner \in Users,
         Withdraw(amount, receiver, owner)
  PROVE  CoreInv' /\ PriceHolds /\ Ideal!Retire(owner)
<1> DEFINE burnt == withdraw(get_vault_updated, shares[owner], amount)
<1>1. amount \in Positive /\ burnt.accepted /\ Exit(burnt, receiver, owner)
  BY DEF Withdraw, Exit, Positive
<1>2. shares[owner] \in Nat /\ get_vault_updated \in VaultData
  BY UpdatedVault DEF CoreInv, TypeOK
<1> QED  BY <1>1, <1>2, WithdrawIsProRata, ExitKeepsCoreInv

\* A redemption is a pro rata exit.
LEMMA RedeemKeepsCoreInv ==
  ASSUME CoreInv, NEW amount \in Int, NEW receiver \in Users, NEW owner \in Users,
         Redeem(amount, receiver, owner)
  PROVE  CoreInv' /\ PriceHolds /\ Ideal!Retire(owner)
<1> DEFINE burnt == redeem(get_vault_updated, shares[owner], amount)
<1>1. amount \in Positive /\ burnt.accepted /\ Exit(burnt, receiver, owner)
  BY DEF Redeem, Exit, Positive
<1>2. shares[owner] \in Nat /\ get_vault_updated \in VaultData
  BY UpdatedVault DEF CoreInv, TypeOK
<1> QED  BY <1>1, <1>2, RedeemIsProRata, ExitKeepsCoreInv

\* A harvest adds bTokens and reads their number back from the pool.
LEMMA HarvestKeepsCoreInv ==
  ASSUME CoreInv, NEW received \in SwapOuts, HarvestEmissions(received)
  PROVE  CoreInv' /\ PriceHolds /\ Ideal!Endow
<1> DEFINE S == vault.total_shares
           B == vault.total_b_tokens
           m == PoolMint(received)
<1>0. /\ TypeOK /\ S \in Nat /\ B \in Nat /\ B = pool.position /\ S <= B
  BY VaultDataFields DEF CoreInv, TypeOK, PositionMatchesPool, SharesAreBacked
<1>1. m \in Nat
  <2>1. received * Scalar \in Nat /\ pool.b_rate \in Positive
    BY <1>0, UpdatedVault, SwapOutsAssumption, ScalarAssumption
       DEF HarvestEmissions, Positive
  <2> QED  BY <2>1, DivSign DEF PoolMint
<1>2. pool' \in Pool /\ pool'.position = B + m
  <2>1. pool' = [[pool EXCEPT !.position = B + m] EXCEPT !.blnd = FALSE]
    BY <1>0 DEF HarvestEmissions, PoolSupply, TypeOK, Pool
  <2>2. B + m \in Nat
    BY <1>0, <1>1
  <2> HIDE DEF B, m
  <2> QED  BY <1>0, <2>1, <2>2 DEF Pool, TypeOK
<1>3. /\ vault'.total_shares = S
      /\ vault'.total_b_tokens = B + m
      /\ vault' \in VaultData
  <2>1. vault' = [get_vault_updated EXCEPT !.total_shares = S, !.total_b_tokens = B + m]
    BY <1>0, <1>2, UpdatedVault DEF HarvestEmissions, VaultData
  <2>2. B + m \in Nat
    BY <1>0, <1>1
  <2> HIDE DEF S, B, m
  <2> QED  BY <1>0, <2>1, <2>2, NewTotals
<1>4. TypeOK'
  BY <1>0, <1>2, <1>3 DEF TypeOK, HarvestEmissions
<1>5. PositionMatchesPool' /\ SharesAreBacked'
  BY <1>0, <1>1, <1>2, <1>3 DEF PositionMatchesPool, SharesAreBacked
<1>6. PriceHolds
  <2> HIDE DEF S, B, m
  <2>1. (B + m) * S >= B * S
    BY <1>0, <1>1
  <2> QED  BY <1>3, <2>1 DEF PriceHolds, S, B
<1>7. Ideal!Endow
  <2>1. UNCHANGED shares
    BY DEF HarvestEmissions
  <2> HIDE DEF S, B, m
  <2> QED  BY <1>0, <1>1, <1>2, <1>3, <2>1 DEF Ideal!Endow, S
<1> QED  BY <1>4, <1>5, <1>6, <1>7 DEF CoreInv

\* A transfer, to oneself or not, leaves the totals alone.
LEMMA MoveKeepsCoreInv ==
  ASSUME CoreInv, NEW amount \in Int, NEW from \in Users, NEW to \in Users,
         MoveShares(from, to, amount)
  PROVE  CoreInv' /\ PriceHolds
<1>1. shares' \in [Users -> Nat]
  BY DEF CoreInv, TypeOK, MoveShares
<1> QED
  BY <1>1, VaultDataFields
     DEF CoreInv, TypeOK, PositionMatchesPool, SharesAreBacked, PriceHolds, MoveShares

\* A new bRate or new emissions leave the books alone.
LEMMA CloseLedgerKeepsCoreInv ==
  ASSUME CoreInv, CloseLedger
  PROVE  CoreInv' /\ PriceHolds
<1>1. pool' \in Pool /\ pool'.position = pool.position
  BY UpdatedVault, RatesAssumption DEF CoreInv, TypeOK, CloseLedger, Pool
<1> QED
  BY <1>1, VaultDataFields
     DEF CoreInv, TypeOK, PositionMatchesPool, SharesAreBacked, PriceHolds, CloseLedger

\* Every step keeps the invariant and the share price.
LEMMA NextKeepsCoreInv ==
  ASSUME CoreInv, [VaultNext]_vaultVars
  PROVE  CoreInv' /\ PriceHolds
<1>1. ASSUME NEW amount \in Amounts, NEW receiver \in Users, NEW from \in Users,
             Deposit(amount, receiver, from)
      PROVE  CoreInv' /\ PriceHolds
  BY <1>1, AmountsAssumption, DepositKeepsCoreInv
<1>2. ASSUME NEW amount \in Amounts, NEW receiver \in Users, NEW owner \in Users,
             Withdraw(amount, receiver, owner)
      PROVE  CoreInv' /\ PriceHolds
  BY <1>2, AmountsAssumption, WithdrawKeepsCoreInv
<1>3. ASSUME NEW amount \in Amounts, NEW receiver \in Users, NEW owner \in Users,
             Redeem(amount, receiver, owner)
      PROVE  CoreInv' /\ PriceHolds
  BY <1>3, AmountsAssumption, RedeemKeepsCoreInv
<1>4. ASSUME NEW received \in SwapOuts, HarvestEmissions(received)
      PROVE  CoreInv' /\ PriceHolds
  BY <1>4, HarvestKeepsCoreInv
<1>5. CASE CloseLedger
  BY <1>5, CloseLedgerKeepsCoreInv
<1>6. ASSUME NEW amount \in Amounts, NEW from \in Users, NEW to \in Users,
             MoveShares(from, to, amount)
      PROVE  CoreInv' /\ PriceHolds
  BY <1>6, AmountsAssumption, MoveKeepsCoreInv
<1>7. CASE UNCHANGED vaultVars
  BY <1>7, VaultDataFields
     DEF vaultVars, CoreInv, TypeOK, PositionMatchesPool, SharesAreBacked, PriceHolds
<1> QED
  BY <1>1, <1>2, <1>3, <1>4, <1>5, <1>6, <1>7 DEF VaultNext, UsePool

\* CoreInv holds in every reachable state of the vault (vault.rs, contract.rs).
THEOREM CoreInvariant == VaultSpec => []CoreInv
<1>1. VaultInit => CoreInv
  BY InitEstablishesCoreInv
<1>2. CoreInv /\ [VaultNext]_vaultVars => CoreInv'
  BY NextKeepsCoreInv
<1> QED  BY <1>1, <1>2, PTL DEF VaultSpec

\* Every reachable state is well typed: no balance, wallet or total of the
\* contract is ever driven below zero.
THEOREM TypeCorrect == VaultSpec => []TypeOK
<1>1. CoreInv => TypeOK
  BY DEF CoreInv
<1> QED  BY <1>1, CoreInvariant, PTL

\* total_b_tokens is always exactly the position the pool holds for the vault,
\* whatever was deposited, withdrawn, redeemed, harvested or revalued before.
THEOREM PositionAlwaysMatchesPool == VaultSpec => []PositionMatchesPool
<1>1. CoreInv => PositionMatchesPool
  BY DEF CoreInv
<1> QED  BY <1>1, CoreInvariant, PTL

\* Shares never outnumber the bTokens behind them.
THEOREM SharesStayBacked == VaultSpec => []SharesAreBacked
<1>1. CoreInv => SharesAreBacked
  BY DEF CoreInv
<1> QED  BY <1>1, CoreInvariant, PTL

\* No call of the contract lowers the bTokens behind one share.
THEOREM SharePriceHolds == VaultSpec => SharePriceNeverFalls
<1>1. CoreInv /\ [VaultNext]_vaultVars => [PriceHolds]_vaultVars
  BY NextKeepsCoreInv
<1> QED
  BY <1>1, CoreInvariant, PTL DEF VaultSpec, SharePriceNeverFalls, PriceHolds
-----------------------------------------------------------------------------
(***************************************************************************)
(* Among users who never transfer shares to themselves, the vault          *)
(* implements the ideal one, and its share balances add up.                *)
(***************************************************************************)

\* Leaving out self-transfers only takes steps away.
LEMMA TwoPartyStepsAreVaultSteps ==
  [TwoPartyNext]_vaultVars => [VaultNext]_vaultVars
  BY DEF TwoPartyNext, VaultNext

\* So the core invariant holds without them too.
LEMMA TwoPartyCoreInvariant == TwoPartySpec => []CoreInv
<1>1. VaultInit => CoreInv
  BY InitEstablishesCoreInv
<1>2. CoreInv /\ [TwoPartyNext]_vaultVars => CoreInv'
  BY NextKeepsCoreInv, TwoPartyStepsAreVaultSteps
<1> QED  BY <1>1, <1>2, PTL DEF TwoPartySpec

\* A transfer between two users is a move of the ideal vault.
LEMMA MoveIsIdeal ==
  ASSUME CoreInv, NEW amount \in Int, NEW from \in Users, NEW to \in Users, from # to,
         MoveShares(from, to, amount)
  PROVE  Ideal!Move(from, to)
<1>1. /\ shares \in [Users -> Nat] /\ amount \in 1..shares[from]
      /\ shares' = [shares EXCEPT ![from] = shares[from] - amount,
                                  ![to] = shares[to] + amount]
      /\ UNCHANGED <<vault, pool>>
  BY DEF CoreInv, TypeOK, MoveShares
<1>2. shares'[from] = shares[from] - amount
  BY <1>1
<1>3. shares[from] - shares'[from] = amount
  BY <1>1, <1>2
<1> QED  BY <1>1, <1>3 DEF Ideal!Move

\* Every step maps to a step of the ideal vault, or to none.
LEMMA StepIsIdeal ==
  ASSUME CoreInv, CoreInv', [TwoPartyNext]_vaultVars
  PROVE  [Ideal!IdealNext]_(Ideal!idealVars)
<1>0. vault'.total_shares \in Nat /\ pool'.position \in Nat
  BY DEF CoreInv, TypeOK, VaultData, Pool
<1>1. ASSUME NEW amount \in Amounts, NEW receiver \in Users, NEW from \in Users,
             Deposit(amount, receiver, from)
      PROVE  Ideal!IdealNext
  BY <1>0, <1>1, AmountsAssumption, DepositKeepsCoreInv DEF Ideal!IdealNext
<1>2. ASSUME NEW amount \in Amounts, NEW receiver \in Users, NEW owner \in Users,
             Withdraw(amount, receiver, owner)
      PROVE  Ideal!IdealNext
  BY <1>0, <1>2, AmountsAssumption, WithdrawKeepsCoreInv DEF Ideal!IdealNext
<1>3. ASSUME NEW amount \in Amounts, NEW receiver \in Users, NEW owner \in Users,
             Redeem(amount, receiver, owner)
      PROVE  Ideal!IdealNext
  BY <1>0, <1>3, AmountsAssumption, RedeemKeepsCoreInv DEF Ideal!IdealNext
<1>4. ASSUME NEW received \in SwapOuts, HarvestEmissions(received)
      PROVE  Ideal!IdealNext
  BY <1>0, <1>4, HarvestKeepsCoreInv DEF Ideal!IdealNext
<1>5. ASSUME CloseLedger
      PROVE  UNCHANGED Ideal!idealVars
  BY <1>5, UpdatedVault DEF CloseLedger, Ideal!idealVars, CoreInv, TypeOK, Pool
<1>6. ASSUME NEW amount \in Amounts, NEW from \in Users, NEW to \in Users, from # to,
             MoveShares(from, to, amount)
      PROVE  Ideal!IdealNext
  BY <1>0, <1>6, AmountsAssumption, MoveIsIdeal DEF Ideal!IdealNext
<1>7. ASSUME UNCHANGED vaultVars
      PROVE  UNCHANGED Ideal!idealVars
  BY <1>7 DEF vaultVars, Ideal!idealVars
<1> QED
  BY <1>1, <1>2, <1>3, <1>4, <1>5, <1>6, <1>7 DEF TwoPartyNext, UsePool

\* Every behaviour of the vault without self-transfers is one of the ideal
\* vault: its calls issue and retire shares pro rata or at the caller's loss,
\* against the bTokens the pool really holds.
THEOREM VaultImplementsIdealVault == TwoPartySpec => ImplementsIdealVault
<1>1. VaultInit => Ideal!IdealInit
  BY DEF VaultInit, Ideal!IdealInit
<1>2. CoreInv /\ CoreInv' /\ [TwoPartyNext]_vaultVars => [Ideal!IdealNext]_(Ideal!idealVars)
  BY StepIsIdeal
<1> QED
  BY <1>1, <1>2, TwoPartyCoreInvariant, PTL
     DEF TwoPartySpec, ImplementsIdealVault, Ideal!IdealSpec

-----------------------------------------------------------------------------
(***************************************************************************)
(* How the balances stay in step with total_shares: only a transfer to     *)
(* oneself puts them out of step, and only upwards.                        *)
(***************************************************************************)

\* Shares in the balances that total_shares does not count.
Uncounted == SumFunction(shares) - vault.total_shares

\* Both terms are integers.
LEMMA SharesAreCountable ==
  ASSUME TypeOK
  PROVE  shares \in [Users -> Int] /\ SumFunction(shares) \in Int /\ vault.total_shares \in Int
<1>1. shares \in [Users -> Int]
  BY DEF TypeOK
<1>2. \A u \in Users : shares[u] \in Int
  BY <1>1
<1>3. SumFunctionOnSet(shares, Users) \in Int
  BY <1>2, UsersAssumption, SumTakesOff
<1>4. SumFunction(shares) = SumFunctionOnSet(shares, Users)
  BY <1>1, DOMAIN shares = Users DEF SumFunction
<1> QED  BY <1>1, <1>3, <1>4, VaultDataFields DEF TypeOK

\* What one account is credited, all the accounts together hold more.
LEMMA CreditRaisesTotal ==
  ASSUME NEW accounts \in [Users -> Int], NEW u \in Users, NEW n \in Int
  PROVE  SumFunction([accounts EXCEPT ![u] = accounts[u] + n]) = SumFunction(accounts) + n
BY ONLY UsersAssumption, SumAfterChange

\* A call of the ideal vault changes one balance and the supply alike.
LEMMA OneHolderChanges ==
  ASSUME TypeOK, NEW u \in Users, NEW n \in Int,
         shares' = [shares EXCEPT ![u] = shares[u] + n],
         vault'.total_shares = vault.total_shares + n
  PROVE  Uncounted' = Uncounted
<1>1. shares \in [Users -> Int] /\ SumFunction(shares) \in Int /\ vault.total_shares \in Int
  BY SharesAreCountable
<1>2. SumFunction(shares') = SumFunction(shares) + n
  BY <1>1, CreditRaisesTotal
<1>3. SumFunction(shares') - vault'.total_shares = SumFunction(shares) - vault.total_shares
  BY <1>1, <1>2
<1> QED  BY <1>3 DEF Uncounted

\* Issued shares go to one balance and to total_shares alike.
LEMMA IssueIsCounted ==
  ASSUME CoreInv, CoreInv', NEW u \in Users, Ideal!Issue(u)
  PROVE  Uncounted' = Uncounted
<1> DEFINE s0 == vault.total_shares
           s1 == vault'.total_shares
           n == s1 - s0
<1>1. s0 \in Nat /\ s1 \in Nat
  BY DEF CoreInv, TypeOK, VaultData
<1>2. shares' = [shares EXCEPT ![u] = shares[u] + n]
  BY DEF Ideal!Issue
<1> HIDE DEF s0, s1
<1>3. n \in Int /\ s1 = s0 + n
  BY <1>1
<1> HIDE DEF n
<1> QED  BY <1>2, <1>3, OneHolderChanges DEF s0, s1, CoreInv

\* Retired shares leave one balance and total_shares alike.
LEMMA RetireIsCounted ==
  ASSUME CoreInv, CoreInv', NEW u \in Users, Ideal!Retire(u)
  PROVE  Uncounted' = Uncounted
<1> DEFINE s0 == vault.total_shares
           s1 == vault'.total_shares
           r == s0 - s1
           n == s1 - s0
<1>1. s0 \in Nat /\ s1 \in Nat /\ shares[u] \in Nat
  BY DEF CoreInv, TypeOK, VaultData
<1>2. shares' = [shares EXCEPT ![u] = shares[u] - r]
  BY DEF Ideal!Retire
<1> HIDE DEF s0, s1
<1>3. n \in Int /\ s1 = s0 + n /\ shares[u] - r = shares[u] + n
  BY <1>1
<1>4. shares' = [shares EXCEPT ![u] = shares[u] + n]
  BY Zenon, <1>2, <1>3
<1> HIDE DEF n
<1> QED  BY <1>3, <1>4, OneHolderChanges DEF s0, s1, CoreInv

\* Shares moved between two holders stay in the sum.
LEMMA MoveIsCounted ==
  ASSUME CoreInv, NEW from \in Users, NEW to \in Users, Ideal!Move(from, to)
  PROVE  Uncounted' = Uncounted
<1> DEFINE m == shares[from] - shares'[from]
<1>1. /\ shares \in [Users -> Nat] /\ m \in 1..shares[from] /\ from # to
      /\ vault'.total_shares = vault.total_shares
      /\ shares' = [shares EXCEPT ![from] = shares[from] - m, ![to] = shares[to] + m]
  BY DEF CoreInv, TypeOK, Ideal!Move
<1> HIDE DEF m
<1>2. /\ shares \in [Users -> Int] /\ shares' \in [Users -> Int] /\ from # to
      /\ shares'[from] + shares'[to] = shares[from] + shares[to]
      /\ \A u \in Users : u # from /\ u # to => shares'[u] = shares[u]
  BY <1>1
<1>3. SumFunction(shares') = SumFunction(shares)
  BY <1>2, UsersAssumption, SumAfterMove
<1> QED  BY Zenon, <1>1, <1>3 DEF Uncounted

\* So do all calls but one: every step counts what it moves.
LEMMA TwoPartyStepIsCounted ==
  ASSUME CoreInv, CoreInv', [TwoPartyNext]_vaultVars
  PROVE  Uncounted' = Uncounted
<1>1. [Ideal!IdealNext]_(Ideal!idealVars)
  BY StepIsIdeal
<1>2. CASE UNCHANGED Ideal!idealVars \/ Ideal!Endow
  BY Zenon, <1>2 DEF Uncounted, Ideal!idealVars, Ideal!Endow
<1>3. CASE \E u \in Users : Ideal!Issue(u) \/ Ideal!Retire(u)
  BY <1>3, IssueIsCounted, RetireIsCounted
<1>4. CASE \E from, to \in Users : Ideal!Move(from, to)
  BY <1>4, MoveIsCounted
<1> QED  BY <1>1, <1>2, <1>3, <1>4 DEF Ideal!IdealNext

\* A transfer to oneself adds its amount to the balance, and to nothing else.
LEMMA SelfTransferIsNotCounted ==
  ASSUME CoreInv, NEW u \in Users, NEW amount \in Int, MoveShares(u, u, amount)
  PROVE  Uncounted' = Uncounted + amount /\ amount > 0
<1>1. shares \in [Users -> Int] /\ SumFunction(shares) \in Int /\ vault.total_shares \in Int
  BY SharesAreCountable DEF CoreInv
<1>2. /\ shares' = [shares EXCEPT ![u] = shares[u] + amount]
      /\ vault'.total_shares = vault.total_shares /\ amount > 0
  BY <1>1 DEF MoveShares
<1>3. SumFunction(shares') = SumFunction(shares) + amount
  BY <1>1, <1>2, CreditRaisesTotal
<1>4. SumFunction(shares') - vault'.total_shares
        = SumFunction(shares) - vault.total_shares + amount
  BY <1>1, <1>2, <1>3
<1> QED  BY <1>2, <1>4 DEF Uncounted

\* What a step may do to the shares that are not counted: only a transfer to
\* oneself makes more of them, and nothing makes them fewer.
CountedStep ==
  \/ Uncounted' = Uncounted
  \/ \E u \in Users, amount \in Amounts :
       MoveShares(u, u, amount) /\ Uncounted' = Uncounted + amount /\ amount > 0

\* Every step of the vault is one of these.
LEMMA StepIsCounted ==
  ASSUME CoreInv, [VaultNext]_vaultVars
  PROVE  CountedStep
<1>1. CoreInv'
  BY NextKeepsCoreInv
<1>2. ASSUME NEW amount \in Amounts, NEW u \in Users, MoveShares(u, u, amount)
      PROVE  CountedStep
  BY <1>2, AmountsAssumption, SelfTransferIsNotCounted DEF CountedStep
<1>3. ASSUME ~ \E amount \in Amounts, u \in Users : MoveShares(u, u, amount)
      PROVE  CountedStep
  <2>1. [TwoPartyNext]_vaultVars
    BY <1>3 DEF VaultNext, TwoPartyNext
  <2> QED  BY <1>1, <2>1, TwoPartyStepIsCounted DEF CountedStep
<1> QED  BY <1>2, <1>3

\* No shares, no balances.
LEMMA NothingIsUncounted == ASSUME VaultInit PROVE Uncounted = 0
<1>1. SumFunction(shares) = 0 /\ vault.total_shares = 0
  BY UsersAssumption, SumOfZeros DEF VaultInit
<1> QED  BY <1>1 DEF Uncounted

\* In any history total_shares and the balances part only by transfers to
\* oneself, each by exactly its amount (contract.rs:225-228, 253-258).
THEOREM OnlySelfTransfersDrift == VaultSpec => [][CountedStep]_vaultVars
<1>1. CoreInv /\ [VaultNext]_vaultVars => [CountedStep]_vaultVars
  BY StepIsCounted
<1> QED  BY <1>1, CoreInvariant, PTL DEF VaultSpec

\* No history loses shares: the balances never fall short of total_shares.
THEOREM NoShareIsEverLost == VaultSpec => []NoShareIsLost
<1> DEFINE Inv == CoreInv /\ Uncounted >= 0
<1>1. VaultInit => Inv
  BY InitEstablishesCoreInv, NothingIsUncounted
<1>2. Inv /\ [VaultNext]_vaultVars => Inv'
  <2> SUFFICES ASSUME Inv, [VaultNext]_vaultVars PROVE Inv'
    OBVIOUS
  <2>1. CoreInv' /\ CountedStep
    BY NextKeepsCoreInv, StepIsCounted
  <2>2. Uncounted \in Int
    BY SharesAreCountable DEF CoreInv, Uncounted
  <2>3. Uncounted' >= 0
    BY <2>1, <2>2, AmountsAssumption DEF CountedStep
  <2> QED  BY <2>1, <2>3
<1>3. Inv => NoShareIsLost
  BY SharesAreCountable DEF CoreInv, Uncounted, NoShareIsLost
<1> QED  BY <1>1, <1>2, <1>3, PTL DEF VaultSpec

\* Without self-transfers nothing drifts.
FairInv == CoreInv /\ SharesConserved

\* Every step keeps balances and total_shares in step.
LEMMA TwoPartyStepConserves ==
  ASSUME FairInv, [TwoPartyNext]_vaultVars
  PROVE  FairInv'
<1>1. CoreInv'
  BY NextKeepsCoreInv, TwoPartyStepsAreVaultSteps DEF FairInv
<1>2. Uncounted' = Uncounted
  BY <1>1, TwoPartyStepIsCounted DEF FairInv
<1>3. SumFunction(shares) = vault.total_shares /\ vault.total_shares \in Int
  BY SharesAreCountable DEF FairInv, CoreInv, SharesConserved
<1>4. SumFunction(shares') \in Int /\ vault'.total_shares \in Int
  <2>1. (SumFunction(shares) \in Int /\ vault.total_shares \in Int)'
    BY <1>1, SharesAreCountable, PTL DEF CoreInv
  <2> QED  BY <2>1
<1>5. SumFunction(shares') = vault'.total_shares
  BY <1>2, <1>3, <1>4 DEF Uncounted
<1> QED  BY <1>1, <1>5 DEF FairInv, SharesConserved

\* No shares, no balances.
LEMMA InitEstablishesFairInv == ASSUME VaultInit PROVE FairInv
<1>1. SharesConserved
  BY UsersAssumption, SumOfZeros DEF VaultInit, SharesConserved
<1> QED  BY <1>1, InitEstablishesCoreInv DEF FairInv

\* FairInv holds in every reachable state without self-transfers.
LEMMA FairInvariant == TwoPartySpec => []FairInv
<1>1. VaultInit => FairInv
  BY InitEstablishesFairInv
<1>2. FairInv /\ [TwoPartyNext]_vaultVars => FairInv'
  BY TwoPartyStepConserves
<1> QED  BY <1>1, <1>2, PTL DEF TwoPartySpec

\* total_shares is always the sum of the individual balances, as long as
\* nobody transfers shares to themselves.
THEOREM SharesAddUp == TwoPartySpec => []SharesConserved
<1>1. FairInv => SharesConserved
  BY DEF FairInv
<1> QED  BY <1>1, FairInvariant, PTL
-----------------------------------------------------------------------------
(***************************************************************************)
(* What each holder can rely on: prices are fair and drains leave dust in  *)
(* any history; and when nobody transfers to themselves the way out stays  *)
(* open, by redemption and by an overlarge withdrawal, and the others'     *)
(* calls never cost a holder anything.                                     *)
(***************************************************************************)

\* Nobody holds more shares than there are.
LEMMA HoldingIsBounded ==
  ASSUME FairInv, NEW u \in Users
  PROVE  shares[u] \in 0..vault.total_shares
<1>1. /\ shares \in [Users -> Nat] /\ SumFunction(shares) = vault.total_shares
      /\ SumFunction(shares) = SumFunctionOnSet(shares, Users)
  BY DEF FairInv, CoreInv, TypeOK, SharesConserved, SumFunction
<1>2. \A x \in Users : shares[x] \in Nat
  BY <1>1
<1>3. shares[u] <= SumFunctionOnSet(shares, Users)
  BY <1>2, UsersAssumption, SumOfNaturals
<1> QED  BY <1>1, <1>2, <1>3

\* Redeeming n shares, all that their owner holds and no more than there are, is
\* accepted, burns bTokens in the pool and is paid the quote.
LEMMA WholePositionIsPayable ==
  ASSUME CoreInv, NEW n \in Nat, n <= vault.total_shares, get_vault_updated.b_rate > 0,
         Quote(n) > 0, quote_returns(get_vault_updated, n)
  PROVE  LET exit == redeem(get_vault_updated, n, n)
         IN  /\ exit.accepted
             /\ PoolPays(exit.underlying) = Quote(n)
             /\ PoolBurn(exit.underlying) \in Positive
<1> DEFINE v == get_vault_updated
           paid == shares_to_underlying_down(v, n)
           quoted == shares_to_b_tokens_down(v, n)
           burnt == underlying_to_b_tokens_up(v, paid)
<1>1. /\ v \in VaultData /\ v.total_shares = vault.total_shares
      /\ v.total_b_tokens = pool.position /\ v.b_rate = pool.b_rate
  BY UpdatedVault DEF CoreInv, PositionMatchesPool
<1>2. n \in 1..v.total_shares /\ v.total_shares \in Nat /\ v.total_b_tokens \in Nat
  BY <1>1, VaultDataFields DEF Quote
<1>3. paid > 0 /\ Quote(n) = paid
  BY <1>2 DEF Quote
<1>4. /\ burnt \in Nat /\ burnt * v.total_shares <= n * v.total_b_tokens
  BY <1>1, <1>2, QuoteIsCovered
<1>5. burnt <= v.total_b_tokens
  <2> HIDE DEF v, burnt
  <2>1. n * v.total_b_tokens <= v.total_shares * v.total_b_tokens
    BY <1>2
  <2>2. v.total_shares * burnt <= v.total_shares * v.total_b_tokens
    BY <1>2, <1>4, <2>1
  <2> QED  BY <1>2, <1>4, <2>2
<1>6. PoolBurn(paid) = burnt /\ PoolPays(paid) = paid
  BY <1>1, <1>2, <1>4, <1>5 DEF PoolPays, PoolBurn, underlying_to_b_tokens_up
<1>7. burnt \in Positive
  <2>1. paid \in Nat /\ v.b_rate \in Positive
    BY <1>1, <1>2, <1>3, QuoteIsCovered, VaultDataFields DEF Positive
  <2> HIDE DEF paid, v
  <2>2. paid * Scalar \in Nat /\ paid * Scalar > 0
    BY <1>3, <2>1, ScalarAssumption
  <2>3. burnt > 0
    BY <2>1, <2>2, DivSign DEF underlying_to_b_tokens_up
  <2> QED  BY <1>4, <2>3 DEF Positive
<1> QED
  BY <1>2, <1>3, <1>5, <1>6, <1>7 DEF redeem

\* Redeeming all shares of a position worth something is accepted and paid.
LEMMA WholePositionIsRedeemable == ASSUME FairInv PROVE ExitIsOpen
<1> SUFFICES ASSUME NEW u \in Users, get_vault_updated.b_rate > 0, Quote(shares[u]) > 0,
                    quote_returns(get_vault_updated, shares[u])
             PROVE  LET exit == redeem(get_vault_updated, shares[u], shares[u])
                    IN  exit.accepted /\ PoolPays(exit.underlying) = Quote(shares[u])
  BY DEF ExitIsOpen
<1>1. CoreInv /\ shares[u] \in Nat /\ shares[u] <= vault.total_shares
  BY HoldingIsBounded DEF FairInv, CoreInv, TypeOK
<1> QED  BY <1>1, WholePositionIsPayable

\* A request above the quote of n shares is priced at more than n shares: the
\* ceilings never close the gap that the floors of the quote left open.
LEMMA MoreThanTheQuoteCostsMore ==
  ASSUME NEW v \in VaultData, v.total_shares > 0, v.b_rate > 0,
         NEW n \in Positive, NEW amount \in Int,
         shares_to_underlying_down(v, n) \in 1..(amount - 1)
  PROVE  LET asked == underlying_to_b_tokens_up(v, amount)
         IN  /\ asked > 0
             /\ b_tokens_to_shares_up(v, asked) \in Int
             /\ b_tokens_to_shares_up(v, asked) > n
<1> DEFINE S == v.total_shares
           B == v.total_b_tokens
           r == v.b_rate
           q == shares_to_b_tokens_down(v, n)
           paid == shares_to_underlying_down(v, n)
           asked == underlying_to_b_tokens_up(v, amount)
           cost == b_tokens_to_shares_up(v, asked)
<1>1. /\ S \in Positive /\ B \in Nat /\ r \in Positive /\ n \in Positive
      /\ Scalar \in Positive /\ amount \in Int
  BY VaultDataFields, ScalarAssumption DEF Positive
<1>2. /\ q = FloorDiv(n * B, S) /\ paid = FloorDiv(q * r, Scalar)
      /\ asked = CeilDiv(amount * Scalar, r)
      /\ paid \in 1..(amount - 1)
  BY <1>1 DEF Positive, shares_to_b_tokens_down, shares_to_underlying_down,
              b_tokens_to_underlying_down, underlying_to_b_tokens_up
<1>3. cost = IF B = 0 THEN asked ELSE CeilDiv(asked * S, B)
  BY <1>1 DEF Positive, b_tokens_to_shares_up, IsUnpriced
<1> HIDE DEF S, B, r, q, paid, asked, cost
<1>4. n * B \in Nat
  BY <1>1 DEF Positive
<1>5. q \in Nat /\ n * B < S * q + S
  BY <1>1, <1>2, <1>4, FloorDivBounds, DivSign
<1>6. q * r \in Nat
  BY <1>1, <1>5 DEF Positive
<1>7. paid \in Int /\ q * r < Scalar * paid + Scalar
  BY <1>1, <1>2, <1>6, FloorDivBounds
\* The pool is asked for more bTokens than the shares stand for.
<1>8. asked \in Int /\ asked >= q + 1
  <2>1. amount * Scalar \in Int
    BY <1>1 DEF Positive
  <2>2. asked \in Int /\ r * asked >= amount * Scalar
    BY <1>1, <1>2, <2>1, CeilDivBounds
  <2>3. Scalar * (paid + 1) <= Scalar * amount
    BY <1>1, <1>2, <1>7 DEF Positive
  <2>4. r * q < r * asked
    BY <1>1, <1>5, <1>7, <2>2, <2>3 DEF Positive
  <2>5. ~(asked <= q)
    <3>1. asked <= q => r * asked <= r * q
      BY <1>1, <1>5, <2>2 DEF Positive
    <3>2. r * asked \in Int /\ r * q \in Int
      BY <1>1, <1>5, <2>2 DEF Positive
    <3> QED  BY <2>4, <3>1, <3>2
  <2> QED  BY <1>5, <2>2, <2>5
<1>9. B > 0
  <2>1. ASSUME B = 0 PROVE FALSE
    <3>1. q = 0
      BY <1>1, <1>2, <2>1 DEF FloorDiv, Positive
    <3>2. paid = 0
      BY <1>1, <1>2, <3>1 DEF FloorDiv, Positive
    <3> QED  BY <1>2, <3>2
  <2> QED  BY <1>1, <2>1
<1>10. cost \in Int /\ cost > n
  <2>1. B \in Positive /\ asked * S \in Int /\ cost = CeilDiv(asked * S, B)
    BY <1>1, <1>3, <1>8, <1>9 DEF Positive
  <2>2. cost \in Int /\ B * cost >= asked * S
    BY <2>1, CeilDivBounds
  <2>3. S * (q + 1) <= S * asked
    BY <1>1, <1>5, <1>8 DEF Positive
  <2>4. B * n < B * cost
    BY <1>1, <1>5, <1>8, <2>2, <2>3 DEF Positive
  <2>5. cost <= n => B * cost <= B * n
    BY <1>1, <2>2 DEF Positive
  <2>6. B * cost \in Int /\ B * n \in Int
    BY <1>1, <2>2 DEF Positive
  <2> QED  BY <1>1, <2>2, <2>4, <2>5, <2>6 DEF Positive
<1> QED  BY <1>5, <1>8, <1>10 DEF asked, cost

\* A request above the quote of a whole position takes exactly that position.
LEMMA OverlargeRequestIsClamped == ASSUME FairInv PROVE OverlargeWithdrawTakesAll
<1> DEFINE v == get_vault_updated
<1> SUFFICES ASSUME NEW u \in Users, NEW amount \in Amounts, v.b_rate > 0,
                    Quote(shares[u]) \in 1..(amount - 1),
                    quote_returns(v, shares[u]),
                    underlying_to_b_tokens_returns(v, amount),
                    b_tokens_to_shares_returns(v, underlying_to_b_tokens_up(v, amount))
             PROVE  LET exit == withdraw(v, shares[u], amount)
                    IN  /\ exit.accepted
                        /\ exit.shares = shares[u]
                        /\ exit.underlying = Quote(shares[u])
  BY DEF OverlargeWithdrawTakesAll
<1> DEFINE n == shares[u]
           paid == shares_to_underlying_down(v, n)
           asked == underlying_to_b_tokens_up(v, amount)
           cost == b_tokens_to_shares_up(v, asked)
<1>1. v \in VaultData /\ v.total_shares = vault.total_shares
  BY UpdatedVault DEF FairInv, CoreInv
<1>2. n \in 0..v.total_shares /\ v.total_shares \in Nat
  BY <1>1, HoldingIsBounded, VaultDataFields
<1>3. n > 0 /\ Quote(n) = paid /\ amount \in Int
  BY <1>2, AmountsAssumption DEF Quote
<1>4. asked > 0 /\ cost \in Int /\ cost > n
  BY <1>1, <1>2, <1>3, MoreThanTheQuoteCostsMore DEF Positive
<1>5. redeem(v, n, n).accepted
  BY <1>2, <1>3, WholePositionIsRedeemable DEF ExitIsOpen
<1>6. underlying_to_b_tokens_up(v, paid) <= v.total_b_tokens
  BY <1>5 DEF redeem
<1>7. cost > 0
  BY <1>2, <1>3, <1>4
<1> QED
  BY <1>2, <1>3, <1>4, <1>6, <1>7 DEF withdraw

\* A larger holding of a vault with more bTokens per share stands for more of them.
LEMMA ClaimGrows ==
  ASSUME NEW v \in VaultData, NEW w \in VaultData,
         v.total_shares > 0, w.total_shares > 0,
         w.total_b_tokens * v.total_shares >= v.total_b_tokens * w.total_shares,
         NEW n \in Nat, NEW m \in Nat, n <= m
  PROVE  /\ shares_to_b_tokens_down(v, n) \in Nat
         /\ shares_to_b_tokens_down(w, m) \in Nat
         /\ shares_to_b_tokens_down(v, n) <= shares_to_b_tokens_down(w, m)
<1> DEFINE Sv == v.total_shares
           Sw == w.total_shares
           Bv == v.total_b_tokens
           Bw == w.total_b_tokens
           q == shares_to_b_tokens_down(v, n)
           p == shares_to_b_tokens_down(w, m)
<1>1. /\ Sv \in Positive /\ Sw \in Positive /\ Bv \in Nat /\ Bw \in Nat
      /\ Bw * Sv >= Bv * Sw
  BY VaultDataFields DEF Positive
<1>2. q = FloorDiv(n * Bv, Sv) /\ p = FloorDiv(m * Bw, Sw)
  BY DEF shares_to_b_tokens_down
<1> HIDE DEF Sv, Sw, Bv, Bw, q, p
<1>3. n * Bv \in Nat /\ m * Bw \in Nat
  BY <1>1
<1>4. /\ q \in Nat /\ p \in Nat
      /\ Sv * q <= n * Bv /\ m * Bw < Sw * p + Sw
  BY <1>1, <1>2, <1>3, FloorDivBounds, DivSign
<1>5. q <= p
  <2>1. (Sv * q) * Sw <= (n * Bv) * Sw
    BY <1>1, <1>3, <1>4 DEF Positive
  <2>2. n * (Bv * Sw) <= n * (Bw * Sv)
    BY <1>1 DEF Positive
  <2>3. Sv * (Sw * q) <= Sv * (n * Bw)
    BY <1>1, <1>4, <2>1, <2>2 DEF Positive
  <2>4. Sw * q <= n * Bw
    <3> DEFINE x == Sw * q
               y == n * Bw
    <3>1. x \in Int /\ y \in Int /\ Sv * x <= Sv * y
      BY <1>1, <1>4, <2>3 DEF Positive
    <3> HIDE DEF x, y
    <3>2. x <= y
      BY <1>1, <3>1, Cancel
    <3> QED  BY <3>2 DEF x, y
  <2>5. n * Bw <= m * Bw
    BY <1>1
  <2>6. Sw * q < Sw * p + Sw
    BY <1>1, <1>4, <2>4, <2>5 DEF Positive
  <2> QED  BY <1>1, <1>4, <2>6, Cancel
<1> QED  BY <1>4, <1>5 DEF q, p

\* So it is quoted more while the bRate stands still.
LEMMA QuoteGrows ==
  ASSUME NEW v \in VaultData, NEW w \in VaultData, v.b_rate = w.b_rate,
         v.total_shares > 0, w.total_shares > 0,
         w.total_b_tokens * v.total_shares >= v.total_b_tokens * w.total_shares,
         NEW n \in Nat, NEW m \in Nat, n <= m
  PROVE  shares_to_underlying_down(v, n) <= shares_to_underlying_down(w, m)
<1> DEFINE q == shares_to_b_tokens_down(v, n)
           p == shares_to_b_tokens_down(w, m)
<1>1. q \in Nat /\ p \in Nat /\ q <= p /\ v.b_rate \in Nat
  BY ClaimGrows, VaultDataFields
<1> HIDE DEF q, p
<1>2. q * v.b_rate <= p * v.b_rate /\ q * v.b_rate \in Int /\ p * v.b_rate \in Int
  BY <1>1
<1>3. FloorDiv(q * v.b_rate, Scalar) <= FloorDiv(p * w.b_rate, Scalar)
  BY <1>2, ScalarAssumption, DivMonotonic DEF Positive
<1> QED
  BY <1>3 DEF shares_to_underlying_down, b_tokens_to_underlying_down, q, p

\* A quote is never negative.
LEMMA QuoteIsNatural ==
  ASSUME NEW v \in VaultData, v.total_shares > 0, NEW n \in Nat
  PROVE  shares_to_underlying_down(v, n) \in Nat
<1> DEFINE q == shares_to_b_tokens_down(v, n)
<1>1. v.total_shares \in Positive /\ v.total_b_tokens \in Nat /\ v.b_rate \in Nat
  BY VaultDataFields DEF Positive
<1>2. n * v.total_b_tokens \in Nat
  BY <1>1
<1>3. q \in Nat
  BY <1>1, <1>2, DivSign DEF shares_to_b_tokens_down, Positive
<1> HIDE DEF q
<1>4. q * v.b_rate \in Nat
  BY <1>1, <1>3
<1>5. FloorDiv(q * v.b_rate, Scalar) \in Nat
  BY <1>4, ScalarAssumption, DivSign DEF Positive
<1> QED  BY <1>5 DEF shares_to_underlying_down, b_tokens_to_underlying_down, q

\* What HoldersStayWhole says of one step.
WholeStep ==
  pool'.b_rate = pool.b_rate
    => \A u \in Users : shares'[u] >= shares[u] => Quote(shares[u])' >= Quote(shares[u])

\* A step that keeps the share price lowers nobody's quote at the same bRate.
LEMMA StepLeavesHoldersWhole ==
  ASSUME FairInv, FairInv', PriceHolds
  PROVE  WholeStep
<1> SUFFICES ASSUME pool'.b_rate = pool.b_rate, NEW u \in Users, shares'[u] >= shares[u]
             PROVE  Quote(shares[u])' >= Quote(shares[u])
  BY DEF WholeStep
<1> DEFINE v == get_vault_updated
           w == get_vault_updated'
           n == shares[u]
           m == shares'[u]
<1>1. /\ v \in VaultData /\ v.b_rate = pool.b_rate
      /\ v.total_shares = vault.total_shares /\ v.total_b_tokens = vault.total_b_tokens
  BY UpdatedVault DEF FairInv, CoreInv
<1>2. /\ w \in VaultData /\ w.b_rate = pool'.b_rate
      /\ w.total_shares = vault'.total_shares /\ w.total_b_tokens = vault'.total_b_tokens
  BY DEF FairInv, CoreInv, TypeOK, get_vault_updated, VaultData, Pool
<1>3. n \in 0..v.total_shares /\ v.total_shares \in Nat
  BY <1>1, HoldingIsBounded, VaultDataFields
<1>4. m \in 0..w.total_shares /\ w.total_shares \in Nat
  <2>1. (shares[u] \in 0..vault.total_shares)'
    BY HoldingIsBounded, PTL
  <2> QED  BY <1>2, <2>1, VaultDataFields
<1>5. /\ Quote(n) = IF n > 0 THEN shares_to_underlying_down(v, n) ELSE 0
      /\ Quote(shares[u])' = IF m > 0 THEN shares_to_underlying_down(w, m) ELSE 0
  BY DEF Quote
<1>6. v.total_shares > 0 => w.total_b_tokens * v.total_shares >= v.total_b_tokens * w.total_shares
  BY <1>1, <1>2 DEF PriceHolds
<1>7. v.b_rate = w.b_rate /\ n <= m
  BY <1>1, <1>2
<1> HIDE DEF v, w, n, m
<1>8. CASE n > 0
  BY <1>1, <1>2, <1>3, <1>4, <1>5, <1>6, <1>7, <1>8, QuoteGrows DEF n
<1>9. CASE n = 0
  BY <1>2, <1>3, <1>4, <1>5, <1>9, QuoteIsNatural DEF n
<1> QED  BY <1>3, <1>8, <1>9
\* What the price of an exit never does: pay more than the quote of the shares
\* it burns, or leave more than dust when it burns all shares there are.
IsFairExit(v, burnt) ==
  LET kept == v.total_b_tokens - burnt.b_tokens
  IN  /\ burnt.underlying <= shares_to_underlying_down(v, burnt.shares)
      /\ burnt.shares = v.total_shares
           => kept * v.total_shares < v.total_b_tokens \/ kept * v.b_rate < Scalar

\* Burning n shares for their quote is fair: the dust is what the last floor,
\* of the underlying, cut off.
LEMMA QuotedExitIsFair ==
  ASSUME NEW v \in VaultData, v.total_shares > 0, v.b_rate > 0,
         NEW burnt, burnt.shares \in Nat,
         burnt.underlying = shares_to_underlying_down(v, burnt.shares),
         burnt.b_tokens = underlying_to_b_tokens_up(v, burnt.underlying)
  PROVE  IsFairExit(v, burnt)
<1> DEFINE S == v.total_shares
           B == v.total_b_tokens
           r == v.b_rate
           n == burnt.shares
           q == shares_to_b_tokens_down(v, n)
           paid == shares_to_underlying_down(v, n)
           b == underlying_to_b_tokens_up(v, paid)
<1>1. S \in Positive /\ B \in Nat /\ r \in Positive /\ Scalar \in Positive /\ n \in Nat
  BY VaultDataFields, ScalarAssumption DEF Positive
<1>2. /\ q = FloorDiv(n * B, S) /\ paid = FloorDiv(q * r, Scalar)
      /\ b = CeilDiv(paid * Scalar, r)
  BY <1>1 DEF Positive, shares_to_b_tokens_down, shares_to_underlying_down,
              b_tokens_to_underlying_down, underlying_to_b_tokens_up
<1>3. burnt.b_tokens = b /\ burnt.underlying = paid
  OBVIOUS
<1>4. q \in Nat /\ paid \in Nat
  BY <1>1, QuoteIsCovered DEF Positive
<1> HIDE DEF S, B, r, n, q, paid, b
<1>5. ASSUME n = S PROVE (B - b) * r < Scalar
  <2>1. q = B
    <3>1. q \in Int /\ S * q <= S * B /\ S * B < S * q + S
      <4>1. n * B \in Int /\ n * B = S * B
        BY <1>1, <1>5
      <4> QED  BY <1>1, <1>2, <4>1, FloorDivBounds
    <3>2. q <= B /\ B <= q
      BY <1>1, <3>1, Cancel
    <3> QED  BY <1>1, <3>1, <3>2
  <2>2. B * r \in Int /\ B * r < Scalar * paid + Scalar
    BY <1>1, <1>2, <2>1, FloorDivBounds DEF Positive
  <2>3. paid * Scalar \in Int
    BY <1>1, <1>4 DEF Positive
  <2>4. b \in Int /\ r * b >= paid * Scalar
    BY <1>1, <1>2, <2>3, CeilDivBounds
  <2> QED  BY <1>1, <1>4, <2>2, <2>3, <2>4 DEF Positive
<1>6. paid \in Int
  BY <1>4
<1> QED  BY <1>3, <1>5, <1>6 DEF IsFairExit, S, B, r, n, paid

\* So is a withdrawal that is not clamped: its ceilings charge at least the
\* shares whose quote it pays, and less than one share's backing too much.
LEMMA RequestedExitIsFair ==
  ASSUME NEW v \in VaultData, v.total_shares > 0, v.total_b_tokens > 0, v.b_rate > 0,
         NEW burnt, burnt.underlying \in Nat,
         burnt.b_tokens = underlying_to_b_tokens_up(v, burnt.underlying),
         burnt.shares = b_tokens_to_shares_up(v, burnt.b_tokens)
  PROVE  IsFairExit(v, burnt)
<1> DEFINE S == v.total_shares
           B == v.total_b_tokens
           r == v.b_rate
           amount == burnt.underlying
           b == burnt.b_tokens
           n == burnt.shares
           q == shares_to_b_tokens_down(v, n)
           quote == shares_to_underlying_down(v, n)
<1>1. /\ S \in Positive /\ B \in Positive /\ r \in Positive /\ Scalar \in Positive
      /\ amount \in Nat
  BY VaultDataFields, ScalarAssumption DEF Positive
<1>2. /\ b = CeilDiv(amount * Scalar, r) /\ n = CeilDiv(b * S, B)
      /\ q = FloorDiv(n * B, S) /\ quote = FloorDiv(q * r, Scalar)
  BY <1>1 DEF Positive, IsUnpriced, shares_to_b_tokens_down, shares_to_underlying_down,
              b_tokens_to_underlying_down, underlying_to_b_tokens_up, b_tokens_to_shares_up
<1> HIDE DEF S, B, r, amount, b, n, q, quote
<1>3. b \in Int /\ r * b >= amount * Scalar
  <2>1. amount * Scalar \in Int
    BY <1>1 DEF Positive
  <2> QED  BY <1>1, <1>2, <2>1, CeilDivBounds
<1>4. n \in Int /\ B * n >= b * S /\ b * S > B * n - B
  <2>1. b * S \in Int
    BY <1>1, <1>3 DEF Positive
  <2> QED  BY <1>1, <1>2, <2>1, CeilDivBounds
<1>5. q \in Int /\ b <= q
  <2>1. n * B \in Int
    BY <1>1, <1>4 DEF Positive
  <2>2. q \in Int /\ n * B < S * q + S
    BY <1>1, <1>2, <2>1, FloorDivBounds
  <2>3. S * b < S * q + S
    BY <1>1, <1>3, <1>4, <2>2 DEF Positive
  <2> QED  BY <1>1, <1>3, <2>2, <2>3, Cancel
<1>6. quote \in Int /\ amount <= quote
  <2>1. q * r \in Int /\ r * b <= q * r
    BY <1>1, <1>3, <1>5 DEF Positive
  <2>2. quote \in Int /\ q * r < Scalar * quote + Scalar
    BY <1>1, <1>2, <2>1, FloorDivBounds
  <2>3. Scalar * amount < Scalar * quote + Scalar
    BY <1>1, <1>3, <2>1, <2>2 DEF Positive
  <2> QED  BY <1>1, <2>2, <2>3, Cancel
<1>7. ASSUME n = S PROVE (B - b) * S < B
  BY <1>1, <1>3, <1>4, <1>7 DEF Positive
<1> QED  BY <1>6, <1>7 DEF IsFairExit, S, B, r, amount, b, n, quote

\* Both handlers price their exits fairly.
LEMMA WithdrawIsFair ==
  ASSUME NEW v \in VaultData, NEW user_shares \in Nat, NEW amount \in Positive,
         withdraw(v, user_shares, amount).accepted
  PROVE  IsFairExit(v, withdraw(v, user_shares, amount))
<1> DEFINE asked == underlying_to_b_tokens_up(v, amount)
           cost == b_tokens_to_shares_up(v, asked)
           burnt == withdraw(v, user_shares, amount)
<1>1. IsProRataExit(v, user_shares, burnt)
  BY WithdrawIsProRata
<1>2. /\ v.total_shares > 0 /\ v.b_rate > 0
      /\ burnt.shares \in Nat /\ burnt.underlying \in Nat
      /\ burnt.b_tokens = underlying_to_b_tokens_up(v, burnt.underlying)
  BY <1>1, VaultDataFields DEF IsProRataExit, withdraw, underlying_to_b_tokens_returns
<1>3. CASE cost > user_shares
  <2>1. /\ burnt.shares = user_shares
        /\ burnt.underlying = shares_to_underlying_down(v, user_shares)
    BY <1>3 DEF withdraw
  <2> HIDE DEF burnt
  <2> QED  BY <1>2, <2>1, QuotedExitIsFair DEF burnt
<1>4. CASE ~(cost > user_shares)
  <2>1. burnt.shares = cost /\ burnt.underlying = amount /\ burnt.b_tokens = asked
    BY <1>4 DEF withdraw
  <2>2. v.total_b_tokens > 0
    <3>1. asked > 0 /\ asked <= v.total_b_tokens
      BY <1>4 DEF withdraw
    <3>2. burnt.b_tokens \in Int /\ v.total_b_tokens \in Nat
      BY <1>1, VaultDataFields DEF IsProRataExit
    <3> HIDE DEF burnt, asked
    <3> QED  BY <2>1, <3>1, <3>2
  <2>3. burnt.shares = b_tokens_to_shares_up(v, burnt.b_tokens)
    BY <2>1
  <2> HIDE DEF burnt, asked, cost
  <2> QED  BY <1>2, <2>2, <2>3, RequestedExitIsFair DEF burnt
<1> QED  BY <1>3, <1>4

\* A redemption pays the quote of the shares it burns.
LEMMA RedeemIsFair ==
  ASSUME NEW v \in VaultData, NEW user_shares \in Nat, NEW amount \in Positive,
         redeem(v, user_shares, amount).accepted
  PROVE  IsFairExit(v, redeem(v, user_shares, amount))
<1> DEFINE burnt == redeem(v, user_shares, amount)
<1>1. IsProRataExit(v, user_shares, burnt)
  BY RedeemIsProRata
<1>2. /\ v.total_shares > 0 /\ v.b_rate > 0 /\ burnt.shares \in Nat
      /\ burnt.b_tokens = underlying_to_b_tokens_up(v, burnt.underlying)
  BY <1>1, VaultDataFields
     DEF IsProRataExit, redeem, quote_returns, underlying_to_b_tokens_returns
<1>3. burnt.underlying = shares_to_underlying_down(v, burnt.shares)
  BY DEF redeem
<1> HIDE DEF burnt
<1> QED  BY <1>2, <1>3, QuotedExitIsFair DEF burnt
\* What OnlyDustIsStranded and QuotesAreFair say of one step.
DustStep ==
  vault.total_shares > 0 /\ vault'.total_shares = 0
    => \/ vault'.total_b_tokens * vault.total_shares < vault.total_b_tokens
       \/ vault'.total_b_tokens * pool.b_rate < Scalar

FairStep ==
  LET minted == vault'.total_shares - vault.total_shares
      paid == SumFunction(wallet) - SumFunction(wallet')
  IN  /\ minted < 0 => -paid <= Quote(-minted)
      /\ minted > 0 /\ vault.total_shares > 0 => paid >= Quote(minted)

\* A call that keeps total_shares is neither an entry nor an exit.
LEMMA NothingMinted ==
  ASSUME CoreInv, vault'.total_shares = vault.total_shares
  PROVE  DustStep /\ FairStep
<1>1. vault.total_shares \in Nat
  BY VaultDataFields DEF CoreInv, TypeOK
<1> QED  BY <1>1 DEF DustStep, FairStep

\* An exit at a fair price is fair: the pool pays what was priced.
LEMMA ExitIsFair ==
  ASSUME CoreInv, NEW receiver \in Users, NEW owner \in Users, NEW burnt,
         IsProRataExit(get_vault_updated, shares[owner], burnt),
         IsFairExit(get_vault_updated, burnt),
         Exit(burnt, receiver, owner)
  PROVE  DustStep /\ FairStep
<1> DEFINE v == get_vault_updated
           S == vault.total_shares
           B == vault.total_b_tokens
           n == burnt.shares
           b == burnt.b_tokens
           out == burnt.underlying
<1>1. /\ v \in VaultData /\ v.total_shares = S /\ v.total_b_tokens = B
      /\ v.b_rate = pool.b_rate /\ B = pool.position
      /\ S \in Nat /\ B \in Nat /\ shares[owner] \in Nat /\ pool.b_rate \in Nat
      /\ wallet \in [Users -> Int]
  BY UpdatedVault, VaultDataFields DEF CoreInv, TypeOK, PositionMatchesPool, Pool
<1>2. /\ n \in 1..shares[owner] /\ n <= S /\ b \in 0..B /\ out \in Nat
      /\ b = PoolBurn(out)
  BY <1>1 DEF IsProRataExit, PoolBurn, underlying_to_b_tokens_up
<1>3. /\ out <= shares_to_underlying_down(v, n)
      /\ n = S => (B - b) * S < B \/ (B - b) * pool.b_rate < Scalar
  BY <1>1 DEF IsFairExit
<1>4. PoolPays(out) = out
  BY <1>1, <1>2 DEF PoolPays
<1>5. vault'.total_shares = S - n /\ vault'.total_b_tokens = B - b
  BY <1>1 DEF Exit, VaultData, CoreInv, TypeOK, get_vault_updated
<1>6. SumFunction(wallet') = SumFunction(wallet) + out
  <2>1. wallet' = [wallet EXCEPT ![receiver] = wallet[receiver] + out]
    BY <1>4 DEF Exit, Credit
  <2>2. wallet \in [Users -> Int] /\ out \in Int
    BY <1>1, <1>2
  <2> HIDE DEF out
  <2> QED  BY <2>1, <2>2, UsersAssumption, SumAfterChange
<1>7. SumFunction(wallet) \in Int
  BY <1>1, UsersAssumption, SumAfterUpdate
<1>8. Quote(n) = shares_to_underlying_down(v, n)
  BY <1>1, <1>2 DEF Quote
<1> HIDE DEF v, S, B, n, b, out
<1>9. DustStep
  <2>1. vault'.total_shares = 0 => n = S
    BY <1>1, <1>2, <1>5
  <2> QED  BY <1>3, <1>5, <2>1, Zenon DEF DustStep, S, B
<1>10. FairStep
  <2>1. vault'.total_shares - vault.total_shares = -n /\ -(-n) = n /\ n > 0
    BY <1>1, <1>2, <1>5 DEF S
  <2>2. -(SumFunction(wallet) - SumFunction(wallet')) = out
    BY <1>2, <1>6, <1>7
  <2> QED  BY <1>2, <1>3, <1>8, <2>1, <2>2 DEF FairStep
<1> QED  BY <1>9, <1>10

\* Newly minted shares are quoted at most what was paid for them.
LEMMA DepositIsFair ==
  ASSUME CoreInv, NEW amount \in Int, NEW receiver \in Users, NEW from \in Users,
         Deposit(amount, receiver, from)
  PROVE  DustStep /\ FairStep
<1> DEFINE v == get_vault_updated
           S == vault.total_shares
           B == vault.total_b_tokens
           r == pool.b_rate
           minted == deposit(v, shares[receiver], amount)
           n == minted.shares
           b == minted.b_tokens
           q == shares_to_b_tokens_down(v, n)
           quote == shares_to_underlying_down(v, n)
<1>1. /\ v \in VaultData /\ v.total_shares = S /\ v.total_b_tokens = B /\ v.b_rate = r
      /\ S \in Nat /\ B \in Nat /\ S <= B /\ r \in Nat /\ shares[receiver] \in Nat
      /\ wallet \in [Users -> Int] /\ amount \in Positive /\ Scalar \in Positive
  BY UpdatedVault, VaultDataFields, ScalarAssumption
     DEF CoreInv, TypeOK, SharesAreBacked, Pool, Deposit, Positive
<1>2. minted.accepted
  BY DEF Deposit
<1>3. /\ b \in Positive /\ b = FloorDiv(amount * Scalar, r) /\ n \in Positive
      /\ n * B <= b * S \/ S = 0
  BY <1>1, <1>2, DepositMintsProRata
<1>4. r \in Positive
  BY <1>1, <1>2 DEF deposit, underlying_to_b_tokens_returns, Positive
<1>5. vault'.total_shares = S + n
  BY <1>1 DEF Deposit, VaultData, CoreInv, TypeOK, get_vault_updated
<1>7. SumFunction(wallet) \in Int
  BY <1>1, UsersAssumption, SumAfterUpdate
<1>6. SumFunction(wallet') = SumFunction(wallet) - amount
  <2>1. wallet[from] \in Int /\ -amount \in Int /\ wallet[from] - amount = wallet[from] + (-amount)
    BY <1>1 DEF Positive
  <2>2. wallet' = [wallet EXCEPT ![from] = wallet[from] + (-amount)]
    BY <2>1 DEF Deposit, Debit
  <2>3. SumFunction(wallet') = SumFunction(wallet) + (-amount)
    BY <1>1, <2>1, <2>2, UsersAssumption, SumAfterChange
  <2> QED  BY <1>7, <2>1, <2>3
<1>8. Quote(n) = quote
  BY <1>3 DEF Quote, Positive
<1>9. ASSUME S > 0 PROVE quote <= amount
  <2>1. /\ q = FloorDiv(n * B, S) /\ quote = FloorDiv(q * r, Scalar)
    BY <1>1, <1>9 DEF shares_to_b_tokens_down, shares_to_underlying_down,
                      b_tokens_to_underlying_down
  <2> HIDE DEF v, S, B, r, minted, n, b, q, quote
  <2>2. S \in Positive /\ n * B \in Int /\ n * B <= b * S
    BY <1>1, <1>3, <1>9 DEF Positive
  <2>3. q \in Int /\ S * q <= n * B
    BY <2>1, <2>2, FloorDivBounds
  <2>4. q <= b
    <3>1. S * q <= S * b
      BY <1>3, <2>2, <2>3 DEF Positive
    <3> QED  BY <1>3, <2>2, <2>3, <3>1, Cancel DEF Positive
  <2>5. amount * Scalar \in Int /\ r * b <= amount * Scalar
    <3>1. amount * Scalar \in Int
      BY <1>1 DEF Positive
    <3> QED  BY <1>3, <1>4, <3>1, FloorDivBounds
  <2>6. q * r \in Int /\ q * r <= r * b
    BY <1>3, <1>4, <2>3, <2>4 DEF Positive
  <2>7. quote \in Int /\ Scalar * quote <= q * r
    BY <1>1, <2>1, <2>6, FloorDivBounds
  <2>8. Scalar * quote <= Scalar * amount
    BY <1>1, <1>3, <1>4, <2>5, <2>6, <2>7 DEF Positive
  <2> QED  BY <1>1, <2>7, <2>8, Cancel DEF Positive
<1> HIDE DEF v, S, B, r, minted, n, b, q, quote
<1>10. vault'.total_shares - vault.total_shares = n /\ n > 0 /\ n \in Int
  BY <1>1, <1>3, <1>5 DEF S, Positive
<1>11. SumFunction(wallet) - SumFunction(wallet') = amount
  BY <1>1, <1>6, <1>7 DEF Positive
<1>12. vault'.total_shares # 0
  BY <1>1, <1>3, <1>5 DEF Positive
<1> QED  BY <1>1, <1>8, <1>9, <1>10, <1>11, <1>12 DEF DustStep, FairStep, S, Positive

\* Every step of the vault is fair and strands only dust.
LEMMA StepIsFair ==
  ASSUME CoreInv, [VaultNext]_vaultVars
  PROVE  DustStep /\ FairStep
<1>1. ASSUME NEW amount \in Amounts, NEW receiver \in Users, NEW from \in Users,
             Deposit(amount, receiver, from)
      PROVE  DustStep /\ FairStep
  BY <1>1, AmountsAssumption, DepositIsFair
<1>2. ASSUME NEW amount \in Amounts, NEW receiver \in Users, NEW owner \in Users,
             Withdraw(amount, receiver, owner)
      PROVE  DustStep /\ FairStep
  <2> DEFINE burnt == withdraw(get_vault_updated, shares[owner], amount)
  <2>1. amount \in Positive /\ burnt.accepted /\ Exit(burnt, receiver, owner)
    BY <1>2, AmountsAssumption DEF Withdraw, Exit, Positive
  <2>2. shares[owner] \in Nat /\ get_vault_updated \in VaultData
    BY UpdatedVault DEF CoreInv, TypeOK
  <2> QED  BY <2>1, <2>2, WithdrawIsProRata, WithdrawIsFair, ExitIsFair
<1>3. ASSUME NEW amount \in Amounts, NEW receiver \in Users, NEW owner \in Users,
             Redeem(amount, receiver, owner)
      PROVE  DustStep /\ FairStep
  <2> DEFINE burnt == redeem(get_vault_updated, shares[owner], amount)
  <2>1. amount \in Positive /\ burnt.accepted /\ Exit(burnt, receiver, owner)
    BY <1>3, AmountsAssumption DEF Redeem, Exit, Positive
  <2>2. shares[owner] \in Nat /\ get_vault_updated \in VaultData
    BY UpdatedVault DEF CoreInv, TypeOK
  <2> QED  BY <2>1, <2>2, RedeemIsProRata, RedeemIsFair, ExitIsFair
<1>4. ASSUME NEW received \in SwapOuts, HarvestEmissions(received)
      PROVE  DustStep /\ FairStep
  <2>1. vault'.total_shares = vault.total_shares
    BY <1>4 DEF HarvestEmissions, get_vault_updated, CoreInv, TypeOK, VaultData
  <2> QED  BY <2>1, NothingMinted
<1>5. ASSUME UNCHANGED vault
      PROVE  DustStep /\ FairStep
  BY <1>5, NothingMinted
<1> QED
  BY <1>1, <1>2, <1>3, <1>4, <1>5
     DEF VaultNext, UsePool, CloseLedger, MoveShares, vaultVars
-----------------------------------------------------------------------------
\* Whatever was done before, every holder whose position is worth something
\* can redeem all of it and is paid exactly its quote.
THEOREM ExitStaysOpen == TwoPartySpec => []ExitIsOpen
  BY FairInvariant, WholePositionIsRedeemable, PTL

\* Whatever was done before, a withdrawal of more than a position's quote burns
\* the whole position and pays its quote, if its products fit an i128.
THEOREM OverlargeWithdrawalsTakeAll == TwoPartySpec => []OverlargeWithdrawTakesAll
  BY FairInvariant, OverlargeRequestIsClamped, PTL

\* While the bRate stands still no call makes a holder's position worth less,
\* unless it takes shares from that holder.
THEOREM HoldersAreNotDiluted == TwoPartySpec => HoldersStayWhole
<1>1. FairInv /\ FairInv' /\ [TwoPartyNext]_vaultVars => [WholeStep]_vaultVars
  <2>1. ASSUME FairInv, FairInv', [TwoPartyNext]_vaultVars
        PROVE  [WholeStep]_vaultVars
    BY <2>1, NextKeepsCoreInv, TwoPartyStepsAreVaultSteps, StepLeavesHoldersWhole DEF FairInv
  <2> QED  BY <2>1
<1> QED  BY <1>1, FairInvariant, PTL DEF TwoPartySpec, HoldersStayWhole, WholeStep

\* A quote is at most the shares' exact part of the position, at any bRate.
LEMMA QuoteIsWithinPart ==
  ASSUME NEW v \in VaultData, v.total_shares > 0, NEW n \in Nat
  PROVE  /\ shares_to_underlying_down(v, n) \in Nat
         /\ shares_to_underlying_down(v, n) * (Scalar * v.total_shares)
              <= n * (v.total_b_tokens * v.b_rate)
<1> DEFINE S == v.total_shares
           B == v.total_b_tokens
           r == v.b_rate
           q == shares_to_b_tokens_down(v, n)
           paid == shares_to_underlying_down(v, n)
<1>1. S \in Positive /\ B \in Nat /\ r \in Nat /\ Scalar \in Positive
  BY VaultDataFields, ScalarAssumption DEF Positive
<1>2. q = FloorDiv(n * B, S) /\ paid = FloorDiv(q * r, Scalar)
  BY DEF shares_to_b_tokens_down, shares_to_underlying_down, b_tokens_to_underlying_down
<1>3. paid \in Nat
  BY QuoteIsNatural
<1> HIDE DEF S, B, r, q, paid
<1>4. q \in Nat /\ S * q <= n * B
  BY <1>1, <1>2, n * B \in Nat, FloorDivBounds, DivSign
<1>5. Scalar * paid <= q * r
  BY <1>1, <1>2, <1>4, q * r \in Nat, FloorDivBounds
<1>6. (Scalar * paid) * S <= (q * r) * S
  BY <1>1, <1>3, <1>4, <1>5 DEF Positive
<1>7. (S * q) * r <= (n * B) * r
  BY <1>1, <1>4 DEF Positive
<1>8. paid * (Scalar * S) <= n * (B * r)
  BY <1>1, <1>3, <1>4, <1>6, <1>7 DEF Positive
<1> QED  BY <1>3, <1>8 DEF S, B, r, paid

\* What all holders are quoted adds up to no more than the position is worth.
LEMMA QuotesFitThePosition == ASSUME FairInv PROVE QuotesAreCovered
<1> DEFINE v == get_vault_updated
           S == v.total_shares
           B == v.total_b_tokens
           r == v.b_rate
           quotes == [u \in Users |-> Quote(shares[u])]
           total == SumFunctionOnSet(quotes, Users)
           value == FloorDiv(B * r, Scalar)
<1>1. /\ v \in VaultData /\ S \in Nat /\ B \in Nat /\ r \in Nat /\ Scalar \in Positive
      /\ S = vault.total_shares /\ pool.position = B
  BY UpdatedVault, VaultDataFields, ScalarAssumption
     DEF FairInv, CoreInv, PositionMatchesPool, Positive
<1>2. /\ \A u \in Users : shares[u] \in 0..S
      /\ SumFunctionOnSet(shares, Users) = S
  <2>1. shares \in [Users -> Nat] /\ SumFunction(shares) = vault.total_shares
    BY DEF FairInv, CoreInv, TypeOK, SharesConserved
  <2>2. SumFunction(shares) = SumFunctionOnSet(shares, Users)
    BY <2>1, DOMAIN shares = Users DEF SumFunction
  <2> QED  BY <1>1, <2>1, <2>2, HoldingIsBounded
<1>3. QuotesAreCovered <=> total <= value
  BY <1>1, DOMAIN quotes = Users
     DEF QuotesAreCovered, SumFunction, b_tokens_to_underlying_down
<1>4. ASSUME NEW u \in Users
      PROVE  /\ quotes[u] \in Int
             /\ S = 0 => quotes[u] = 0
             /\ quotes[u] * (Scalar * S) <= shares[u] * (B * r)
  <2>1. quotes[u] = IF shares[u] > 0 THEN shares_to_underlying_down(v, shares[u]) ELSE 0
    BY DEF Quote
  <2> HIDE DEF quotes, v
  <2>2. CASE shares[u] = 0
    <3>1. quotes[u] = 0
      BY <2>1, <2>2
    <3> QED  BY <1>1, <2>2, <3>1 DEF Positive
  <2>3. CASE shares[u] > 0
    <3>1. shares[u] \in Nat /\ S > 0
      BY <1>1, <1>2, <2>3
    <3>2. quotes[u] = shares_to_underlying_down(v, shares[u])
      BY <2>1, <2>3
    <3> QED  BY <1>1, <3>1, <3>2, QuoteIsWithinPart
  <2> QED  BY <1>2, <2>2, <2>3
<1> HIDE DEF v, S, B, r, quotes, total
<1>5. B * r \in Nat /\ Scalar * S \in Int /\ B * r \in Int
  BY <1>1 DEF Positive
<1>6. value \in Nat /\ B * r < Scalar * value + Scalar
  BY <1>1, <1>5, FloorDivBounds, DivSign
<1> HIDE DEF value
<1>7. CASE S > 0
  <2>1. total \in Int /\ total * (Scalar * S) <= S * (B * r)
    <3>1. \A u \in Users : /\ shares[u] \in Int /\ quotes[u] \in Int
                           /\ quotes[u] * (Scalar * S) <= shares[u] * (B * r)
      BY <1>2, <1>4
    <3>2. PICK a \in Int, b \in Int : a = Scalar * S /\ b = B * r
      BY <1>5
    <3>3. total \in Int /\ total * a <= SumFunctionOnSet(shares, Users) * b
      BY <3>1, <3>2, UsersAssumption, SumScales DEF total
    <3> QED  BY <1>2, <3>2, <3>3
  <2>2. S * (Scalar * total) <= S * (B * r)
    BY <1>1, <2>1 DEF Positive
  <2>3. Scalar * total <= B * r
    <3>1. Scalar * total \in Int /\ S \in Positive
      BY <1>1, <1>7, <2>1 DEF Positive
    <3> QED  BY <1>5, <2>2, <3>1, Cancel
  <2>4. total <= value
    <3> DEFINE x == Scalar * total
               y == B * r
    <3>1. x < Scalar * value + Scalar
      <4>1. x \in Int /\ y \in Int /\ Scalar * value \in Int /\ Scalar \in Int
        BY <1>1, <1>5, <1>6, <2>1 DEF Positive
      <4>2. x <= y /\ y < Scalar * value + Scalar
        BY <1>6, <2>3
      <4> HIDE DEF x, y
      <4> QED  BY <4>1, <4>2
    <3> QED  BY <1>1, <1>6, <2>1, <3>1, Cancel
  <2> QED  BY <1>3, <2>4
<1>8. CASE S = 0
  <2>1. \A u \in Users : /\ shares[u] \in Int /\ quotes[u] \in Int
                         /\ quotes[u] * 1 <= shares[u] * 0
    BY <1>2, <1>4, <1>8
  <2>2. total \in Int /\ total * 1 <= SumFunctionOnSet(shares, Users) * 0
    <3>1. PICK a \in Int, b \in Int : a = 1 /\ b = 0
      OBVIOUS
    <3>2. total \in Int /\ total * a <= SumFunctionOnSet(shares, Users) * b
      BY <2>1, <3>1, UsersAssumption, SumScales DEF total
    <3> QED  BY <3>1, <3>2
  <2>3. total <= value
    BY <1>1, <1>2, <1>6, <2>2
  <2> QED  BY <1>3, <2>3
<1> QED  BY <1>1, <1>7, <1>8

\* Whatever was done before, at whatever bRate, the vault could pay every holder
\* the quote at once: no holder's quote is another's money.
THEOREM QuotesAreAlwaysCovered == TwoPartySpec => []QuotesAreCovered
  BY FairInvariant, QuotesFitThePosition, PTL

\* No exit ever pays more than the quote of the shares it burns, and no deposit
\* gets shares quoted above what it paid, self-transfers included.
THEOREM QuotesStayFair == VaultSpec => QuotesAreFair
<1>1. CoreInv /\ [VaultNext]_vaultVars => [FairStep]_vaultVars
  BY StepIsFair
<1> QED  BY <1>1, CoreInvariant, PTL DEF VaultSpec, QuotesAreFair, FairStep

\* Whatever was done before, the last exit strands at most dust.
THEOREM DrainsLeaveDust == VaultSpec => OnlyDustIsStranded
<1>1. CoreInv /\ [VaultNext]_vaultVars => [DustStep]_vaultVars
  BY StepIsFair
<1> QED  BY <1>1, CoreInvariant, PTL DEF VaultSpec, OnlyDustIsStranded, DustStep

\* The shares a deposit has minted are worth no more than what it paid, in the
\* state it leaves; only a first depositor may also find former holders' dust.
DepositGainsNothing ==
  \A amount \in Amounts, receiver, from \in Users :
    /\ Deposit(amount, receiver, from)
    /\ vault.total_shares = 0 => vault.total_b_tokens = 0
    => shares_to_underlying_down(get_vault_updated', shares'[receiver] - shares[receiver])
         <= amount

\* Whatever was done before, to deposit and to redeem at once never profits
\* (deposit_then_full_withdraw_never_profits of vault.rs, for a single record).
THEOREM DepositorsNeverProfit == VaultSpec => [][DepositGainsNothing]_vaultVars
<1>1. ASSUME CoreInv
      PROVE  DepositGainsNothing
  <2> SUFFICES ASSUME NEW amount \in Amounts, NEW receiver \in Users, NEW from \in Users,
                      Deposit(amount, receiver, from),
                      vault.total_shares = 0 => vault.total_b_tokens = 0
               PROVE  shares_to_underlying_down(get_vault_updated',
                                                shares'[receiver] - shares[receiver]) <= amount
    BY DEF DepositGainsNothing
  <2> DEFINE v == get_vault_updated
             minted == deposit(v, shares[receiver], amount)
             after == get_vault_updated'
  <2>1. /\ v \in VaultData /\ amount \in Positive /\ shares[receiver] \in Nat
        /\ v.total_shares = vault.total_shares /\ v.total_b_tokens = vault.total_b_tokens
        /\ v.b_rate = pool.b_rate /\ minted.accepted
    BY <1>1, UpdatedVault, AmountsAssumption DEF CoreInv, TypeOK, Deposit, Positive
  <2>2. minted.shares \in Positive /\ minted.b_tokens \in Positive
    BY <2>1, DepositMintsProRata
  <2>3. /\ vault' = [v EXCEPT !.total_shares = @ + minted.shares,
                              !.total_b_tokens = @ + minted.b_tokens]
        /\ shares' = Credit(shares, receiver, minted.shares)
        /\ pool' = PoolSupply(amount) /\ ledger' = ledger
    BY DEF Deposit
  <2> HIDE DEF minted
  <2>4. /\ after = [vault' EXCEPT !.last_update_timestamp = ledger', !.b_rate = pool'.b_rate]
        /\ pool'.b_rate = pool.b_rate /\ ledger \in Nat
    BY <1>1, <2>3 DEF get_vault_updated, PoolSupply, CoreInv, TypeOK, Pool
  <2>5. /\ after \in VaultData /\ after.b_rate = v.b_rate
        /\ after.total_shares = v.total_shares + minted.shares
        /\ after.total_b_tokens = v.total_b_tokens + minted.b_tokens
    <3> HIDE DEF v, after
    <3>1. v = [last_update_timestamp |-> v.last_update_timestamp, b_rate |-> v.b_rate,
               total_shares |-> v.total_shares, total_b_tokens |-> v.total_b_tokens]
      BY <2>1 DEF VaultData
    <3>2. vault' = [last_update_timestamp |-> v.last_update_timestamp, b_rate |-> v.b_rate,
                    total_shares |-> v.total_shares + minted.shares,
                    total_b_tokens |-> v.total_b_tokens + minted.b_tokens]
      BY <2>3, <3>1
    <3>3. after = [last_update_timestamp |-> ledger, b_rate |-> v.b_rate,
                   total_shares |-> v.total_shares + minted.shares,
                   total_b_tokens |-> v.total_b_tokens + minted.b_tokens]
      BY <2>1, <2>3, <2>4, <3>2
    <3>4. /\ ledger \in Nat /\ v.b_rate \in Nat
          /\ v.total_shares + minted.shares \in Nat
          /\ v.total_b_tokens + minted.b_tokens \in Nat
      BY <2>1, <2>2, <2>4, VaultDataFields DEF Positive
    <3>5. /\ after.b_rate = v.b_rate
          /\ after.total_shares = v.total_shares + minted.shares
          /\ after.total_b_tokens = v.total_b_tokens + minted.b_tokens
      BY <3>3
    <3>6. after \in VaultData
      BY <3>3, <3>4 DEF VaultData
    <3> QED  BY <3>5, <3>6
  <2> HIDE DEF v, after
  <2>6. shares_to_underlying_down(after, minted.shares) <= amount
    <3>1. v.total_shares = 0 => v.total_b_tokens = 0
      BY <2>1
    <3> QED  BY <2>1, <2>5, <3>1, DepositNeverProfits DEF minted
  <2>7. shares'[receiver] - shares[receiver] = minted.shares
    BY <1>1, <2>1, <2>2, <2>3 DEF Credit, CoreInv, TypeOK, Positive
  <2> QED  BY <2>6, <2>7 DEF after
<1> QED  BY <1>1, CoreInvariant, PTL DEF VaultSpec
-----------------------------------------------------------------------------
(***************************************************************************)
(* What a holder keeps over any number of calls of any others, and over    *)
(* any changes of the bRate.                                               *)
(***************************************************************************)

\* The bTokens a holder's shares stand for.
Holding(u) == shares_to_b_tokens_down(vault, shares[u])

\* One step, at any bRate, lowers nobody's claim unless it takes shares.
LEMMA StepKeepsClaim ==
  ASSUME FairInv, FairInv', PriceHolds, NEW u \in Users, shares'[u] >= shares[u]
  PROVE  Holding(u)' >= Holding(u) /\ Holding(u) \in Int /\ Holding(u)' \in Int
<1> DEFINE n == shares[u]
           m == shares'[u]
<1>1. /\ vault \in VaultData /\ vault' \in VaultData
      /\ vault.total_shares \in Nat /\ vault'.total_shares \in Nat
      /\ vault.total_b_tokens \in Nat /\ vault'.total_b_tokens \in Nat
  BY VaultDataFields DEF FairInv, CoreInv, TypeOK
<1>2. n \in 0..vault.total_shares /\ m \in 0..vault'.total_shares /\ n <= m
  <2>1. (shares[u] \in 0..vault.total_shares)'
    BY HoldingIsBounded, PTL
  <2>2. n \in 0..vault.total_shares
    BY HoldingIsBounded
  <2> QED  BY <1>1, <2>1, <2>2
<1>3. Holding(u) = shares_to_b_tokens_down(vault, n)
      /\ Holding(u)' = shares_to_b_tokens_down(vault', m)
  BY DEF Holding, shares_to_b_tokens_down, FloorDiv
<1> HIDE DEF n, m
<1>4. CASE n > 0
  <2>1. vault.total_shares > 0 /\ vault'.total_shares > 0 /\ n \in Nat /\ m \in Nat
    BY <1>1, <1>2, <1>4
  <2> QED  BY <1>1, <1>2, <1>3, <2>1, ClaimGrows DEF PriceHolds
<1>5. CASE n = 0
  <2>1. Holding(u) = 0
    <3>1. CASE vault.total_shares = 0
      BY <1>3, <1>5, <3>1 DEF shares_to_b_tokens_down
    <3>2. CASE vault.total_shares > 0
      <4>1. n * vault.total_b_tokens = 0 /\ vault.total_shares \in Positive
        BY <1>1, <1>5, <3>2 DEF Positive
      <4>2. Holding(u) = FloorDiv(0, vault.total_shares)
        BY <1>3, <3>2, <4>1 DEF shares_to_b_tokens_down
      <4> QED  BY <4>1, <4>2 DEF FloorDiv, Positive
    <3> QED  BY <1>1, <3>1, <3>2
  <2>2. Holding(u)' \in Nat
    <3>1. CASE vault'.total_shares = 0
      BY <1>1, <1>2, <1>3, <3>1 DEF shares_to_b_tokens_down
    <3>2. CASE vault'.total_shares > 0
      <4>1. m * vault'.total_b_tokens \in Nat /\ vault'.total_shares \in Positive
        BY <1>1, <1>2, <3>2 DEF Positive
      <4> QED  BY <1>3, <3>2, <4>1, DivSign DEF shares_to_b_tokens_down
    <3> QED  BY <1>1, <3>1, <3>2
  <2> QED  BY <2>1, <2>2
<1> QED  BY <1>1, <1>2, <1>4, <1>5

\* A claim of c bTokens is quoted what c bTokens are worth.
LEMMA ClaimIsQuoted ==
  ASSUME FairInv, NEW u \in Users, NEW c \in Nat, Holding(u) >= c
  PROVE  Quote(shares[u]) >= FloorDiv(c * pool.b_rate, Scalar)
<1> DEFINE v == get_vault_updated
           n == shares[u]
           q == shares_to_b_tokens_down(v, n)
           r == pool.b_rate
<1>1. /\ v \in VaultData /\ r \in Nat /\ Scalar \in Positive /\ v.b_rate = r
      /\ v.total_shares = vault.total_shares /\ v.total_b_tokens = vault.total_b_tokens
      /\ v.total_shares \in Nat /\ v.total_b_tokens \in Nat
  BY UpdatedVault, VaultDataFields, ScalarAssumption DEF FairInv, CoreInv, Positive
<1>2. n \in 0..v.total_shares
  BY <1>1, HoldingIsBounded
<1>3. Holding(u) = q
  BY <1>1 DEF Holding, shares_to_b_tokens_down
<1>4. Quote(n) = IF n > 0 THEN FloorDiv(q * r, Scalar) ELSE 0
  BY <1>1 DEF Quote, shares_to_underlying_down, b_tokens_to_underlying_down
<1> HIDE DEF v, n, r
<1>5. CASE n > 0
  <2>1. q \in Nat
    <3>1. n * v.total_b_tokens \in Nat /\ v.total_shares \in Positive
      BY <1>1, <1>2, <1>5 DEF Positive
    <3> QED  BY <3>1, DivSign DEF shares_to_b_tokens_down, Positive
  <2> HIDE DEF q
  <2>2. c * r \in Int /\ q * r \in Int /\ c * r <= q * r
    BY <1>1, <1>3, <2>1
  <2>3. FloorDiv(c * r, Scalar) <= FloorDiv(q * r, Scalar)
    BY <1>1, <2>2, DivMonotonic
  <2>4. FloorDiv(c * r, Scalar) \in Int /\ FloorDiv(q * r, Scalar) \in Int
    BY <1>1, <2>2, FloorDivBounds
  <2> QED  BY <1>4, <1>5, <2>3, <2>4 DEF n, r
<1>6. CASE n = 0
  <2>1. q = 0
    <3>1. CASE v.total_shares = 0
      BY <1>6, <3>1 DEF shares_to_b_tokens_down
    <3>2. CASE v.total_shares > 0
      BY <1>1, <1>6, <3>2 DEF shares_to_b_tokens_down, FloorDiv
    <3> QED  BY <1>1, <3>1, <3>2
  <2>2. c * r = 0
    BY <1>1, <1>3, <2>1
  <2> QED  BY <1>1, <1>4, <1>6, <2>2 DEF FloorDiv, Positive, n, r
<1> QED  BY <1>1, <1>2, <1>5, <1>6

\* Once a holder's shares stand for c bTokens they are for ever quoted what c
\* bTokens are then worth, until a call takes shares from that holder: whoever
\* deposits, leaves or harvests in between, and however often the bRate moves.
THEOREM ClaimsAreKept ==
  ASSUME NEW u \in Users, NEW c \in Nat
  PROVE  TwoPartySpec
           => [](Holding(u) >= c /\ [][shares'[u] >= shares[u]]_vaultVars
                   => [](Quote(shares[u]) >= FloorDiv(c * pool.b_rate, Scalar)))
<1> DEFINE Kept == FairInv /\ Holding(u) >= c
<1>1. Kept /\ [TwoPartyNext]_vaultVars /\ [shares'[u] >= shares[u]]_vaultVars => Kept'
  <2> SUFFICES ASSUME Kept, [TwoPartyNext]_vaultVars, [shares'[u] >= shares[u]]_vaultVars
               PROVE  Kept'
    OBVIOUS
  <2>1. FairInv' /\ PriceHolds
    BY TwoPartyStepConserves, NextKeepsCoreInv, TwoPartyStepsAreVaultSteps DEF FairInv
  <2>2. shares'[u] >= shares[u]
    BY DEF vaultVars, FairInv, CoreInv, TypeOK
  <2> QED  BY <2>1, <2>2, StepKeepsClaim
<1>2. Kept => Quote(shares[u]) >= FloorDiv(c * pool.b_rate, Scalar)
  BY ClaimIsQuoted
<1>3. FairInv /\ Holding(u) >= c => Kept
  OBVIOUS
<1> HIDE DEF Kept
<1> QED  BY <1>1, <1>2, <1>3, FairInvariant, PTL DEF TwoPartySpec
=============================================================================
