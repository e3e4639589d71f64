--------------------------- MODULE EventLogProofs ---------------------------
(***************************************************************************)
(* What an observer of the events can rely on, in every history.           *)
(***************************************************************************)
EXTENDS EventLog, BlendVaultProofs

\* The inductive invariant: a call publishes what vault.rs computed for it, and
\* that is what it books only in a state whose books are in order.
LogInv == BlendInv /\ LogTellsTotals

\* What the action properties say of one step.
DebitsAnnounced ==
  \A u \in Users :
    /\ shares'[u] < shares[u] =>
         /\ event'.topic \in {"transfer", "vault_withdraw"}
         /\ event'.from = u
         /\ event'.shares = shares[u] - shares'[u]
    /\ wallet'[u] < wallet[u] =>
         /\ event'.topic = "vault_deposit"
         /\ event'.from = u
         /\ event'.amount = wallet[u] - wallet'[u]

ExitsOverstated ==
  event'.topic = "vault_withdraw" =>
    LET paid == SumFunction(wallet') - SumFunction(wallet)
    IN  \/ event'.amount = paid
        \/ event'.amount > paid /\ shares'[event'.from] = 0

HonestStep == LogTellsTotals' /\ DebitsAnnounced /\ ExitsOverstated

\* Publishing is all that a call does besides what BlendVault says of it.
LEMMA LoggedStepIsContractStep == [LogNext]_logVars => [BlendNext]_blendVars
<1>1. LoggedTokenCall => TokenCall
  BY DEF LoggedTokenCall, TokenCall, LoggedApprove, LoggedTransfer, LoggedTransferFrom
<1>2. LoggedPoolCall => PoolCall
  BY DEF LoggedPoolCall, PoolCall, LoggedDeposit, LoggedWithdraw, LoggedRedeem, LoggedClaim
<1>3. UNCHANGED logVars => UNCHANGED blendVars
  BY DEF logVars
<1> QED  BY <1>1, <1>2, <1>3 DEF LogNext, BlendNext

\* The contract with events behaves as the contract without.
LEMMA EventsChangeNothing == LogSpec => BlendSpec
<1>1. LogInit => BlendInit
  BY DEF LogInit
<1>2. [LogNext]_logVars => [BlendNext]_blendVars
  BY LoggedStepIsContractStep
<1> QED  BY <1>1, <1>2, PTL DEF LogSpec, BlendSpec
-----------------------------------------------------------------------------
(***************************************************************************)
(* What each event does to the observer's books.                           *)
(***************************************************************************)
LEMMA DepositIsPublished ==
  ASSUME NEW from, NEW amount, NEW s, NEW b, Publish(vault_deposit(from, amount, s, b))
  PROVE  /\ event'.topic = "vault_deposit" /\ event'.from = from /\ event'.amount = amount
         /\ log' = [shares |-> log.shares + s, b_tokens |-> log.b_tokens + b]
  BY DEF Publish, vault_deposit

\* A withdrawal publishes what it paid and the shares it burnt;
LEMMA WithdrawalIsPublished ==
  ASSUME NEW from, NEW amount, NEW s, NEW b, Publish(vault_withdraw(from, amount, s, b))
  PROVE  /\ event'.topic = "vault_withdraw" /\ event'.from = from
         /\ event'.amount = amount /\ event'.shares = s
         /\ log' = [shares |-> log.shares - s, b_tokens |-> log.b_tokens - b]
  BY DEF Publish, vault_withdraw

\* a harvest what it found the pool to hold;
LEMMA ClaimIsPublished ==
  ASSUME NEW received, Publish(vault_emissions_claim(received))
  PROVE  /\ event'.topic = "vault_emissions_claim"
         /\ log' = [log EXCEPT !.b_tokens = vault'.total_b_tokens]
  BY DEF Publish, vault_emissions_claim

\* a transfer whom it debits and whom it credits;
LEMMA TransferIsPublished ==
  ASSUME NEW from, NEW to, NEW amount, Publish(transfer(from, to, amount))
  PROVE  /\ event'.topic = "transfer" /\ event'.from = from /\ event'.shares = amount
         /\ log' = log
  BY DEF Publish, transfer

\* and what publishes no amounts changes no totals.
LEMMA NothingIsBooked ==
  ASSUME NEW published,
         published.topic \notin {"vault_deposit", "vault_withdraw", "vault_emissions_claim"},
         Publish(published)
  PROVE  event' = published /\ log' = log
  BY DEF Publish

\* A step that moves no balance and no total leaves nothing to announce.
LEMMA NothingToAnnounce ==
  ASSUME LogInv, shares' = shares, wallet' = wallet,
         vault'.total_shares = vault.total_shares,
         vault'.total_b_tokens = vault.total_b_tokens,
         log' = log, event'.topic # "vault_withdraw"
  PROVE  HonestStep
<1>1. DebitsAnnounced
  BY DEF DebitsAnnounced, LogInv, BlendInv, CoreInv, TypeOK
<1>2. LogTellsTotals' /\ ExitsOverstated
  BY DEF LogInv, LogTellsTotals, ExitsOverstated
<1> QED  BY <1>1, <1>2 DEF HonestStep
-----------------------------------------------------------------------------
(***************************************************************************)
(* The calls.                                                              *)
(***************************************************************************)

\* deposit: what vault.rs minted is booked and published.
LEMMA DepositIsHonest ==
  ASSUME LogInv, NEW amount \in Amounts, NEW receiver \in Users, NEW from \in Users,
         NEW operator \in Users, LoggedDeposit(amount, receiver, from, operator)
  PROVE  HonestStep
<1> DEFINE minted == deposit(get_vault_updated, shares[receiver], amount)
<1>1. /\ Deposit(amount, receiver, from) /\ amount \in Int
      /\ Publish(vault_deposit(from, amount, minted.shares, minted.b_tokens))
      /\ CoreInv /\ TypeOK
  BY AmountsAssumption DEF LoggedDeposit, DepositCall, LogInv, BlendInv, CoreInv
<1>2. /\ vault'.total_shares = vault.total_shares + minted.shares
      /\ vault'.total_b_tokens = vault.total_b_tokens + minted.b_tokens
  <2>1. vault' = [get_vault_updated EXCEPT
                    !.total_shares = vault.total_shares + minted.shares,
                    !.total_b_tokens = vault.total_b_tokens + minted.b_tokens]
    BY <1>1, UpdatedVault DEF Deposit, VaultData
  <2> HIDE DEF minted
  <2> QED  BY <1>1, <2>1, NewTotals
<1>3. LogTellsTotals' /\ ExitsOverstated
  <2> HIDE DEF minted
  <2> QED
    BY <1>1, <1>2, DepositIsPublished DEF LogInv, LogTellsTotals, ExitsOverstated
<1>4. DebitsAnnounced
  <2>1. /\ event'.topic = "vault_deposit" /\ event'.from = from /\ event'.amount = amount
    BY <1>1, DepositIsPublished
  <2>2. /\ \A u \in Users : shares'[u] >= shares[u]
        /\ \A u \in Users : u # from => wallet'[u] = wallet[u]
    BY <1>1, DepositTakesFromPayer
  <2>3. wallet'[from] = wallet[from] - amount
    BY <1>1 DEF Deposit, Debit, TypeOK
  <2>4. \A u \in Users : /\ shares[u] \in Int /\ shares'[u] \in Int
                         /\ wallet[u] \in Int /\ wallet'[u] \in Int
    <3>1. CoreInv'
      BY <1>1, DepositKeepsCoreInv
    <3> QED  BY <1>1, <3>1 DEF CoreInv, TypeOK
  <2>5. \A u \in Users : ~(shares'[u] < shares[u])
    BY <2>2, <2>4
  <2>6. \A u \in Users : wallet'[u] < wallet[u] => u = from
    BY <2>2, <2>4
  <2>7. amount = wallet[from] - wallet'[from]
    BY <1>1, <2>3, <2>4
  <2> QED  BY <2>1, <2>5, <2>6, <2>7 DEF DebitsAnnounced
<1> QED  BY <1>3, <1>4 DEF HonestStep

\* withdraw and redeem: what is burnt is published, and the amount is what was
\* paid, or more if no share is left.
LEMMA ExitIsHonest ==
  ASSUME LogInv, NEW receiver \in Users, NEW owner \in Users, NEW burnt, NEW amount \in Int,
         IsProRataExit(get_vault_updated, shares[owner], burnt),
         Exit(burnt, receiver, owner),
         \/ amount = burnt.underlying
         \/ amount > burnt.underlying /\ burnt.shares = shares[owner],
         Publish(vault_withdraw(owner, amount, burnt.shares, burnt.b_tokens))
  PROVE  HonestStep
<1>1. CoreInv /\ TypeOK /\ CoreInv' /\ burnt.underlying \in Nat /\ burnt.b_tokens \in Nat
  BY ExitKeepsCoreInv, UpdatedVault, VaultDataFields
     DEF LogInv, BlendInv, CoreInv, IsProRataExit
<1>2. /\ event'.topic = "vault_withdraw" /\ event'.from = owner
      /\ event'.amount = amount /\ event'.shares = burnt.shares
      /\ log' = [shares |-> log.shares - burnt.shares, b_tokens |-> log.b_tokens - burnt.b_tokens]
  BY WithdrawalIsPublished
<1>3. LogTellsTotals'
  <2>1. vault' = [get_vault_updated EXCEPT
                    !.total_shares = vault.total_shares - burnt.shares,
                    !.total_b_tokens = vault.total_b_tokens - burnt.b_tokens]
    BY <1>1, UpdatedVault DEF Exit, VaultData
  <2>2. /\ vault'.total_shares = vault.total_shares - burnt.shares
        /\ vault'.total_b_tokens = vault.total_b_tokens - burnt.b_tokens
    BY <1>1, <2>1, NewTotals
  <2> QED  BY <1>2, <2>2 DEF LogInv, LogTellsTotals
<1>4. /\ burnt.shares \in 1..shares[owner]
      /\ shares' = [shares EXCEPT ![owner] = @ - burnt.shares]
      /\ \A u \in Users : wallet'[u] >= wallet[u]
  BY <1>1, ExitTakesFromOwner
<1>5. \A u \in Users : /\ shares[u] \in Nat /\ wallet[u] \in Nat /\ wallet'[u] \in Nat
                       /\ u # owner => shares'[u] = shares[u]
  BY <1>1, <1>4 DEF CoreInv, TypeOK
<1>6. burnt.shares \in Nat /\ shares'[owner] = shares[owner] - burnt.shares
  BY <1>1, <1>4, <1>5 DEF TypeOK
<1>7. DebitsAnnounced
  <2>1. \A u \in Users : shares'[u] < shares[u] => u = owner
    BY <1>5
  <2>2. \A u \in Users : ~(wallet'[u] < wallet[u])
    BY <1>4, <1>5
  <2>3. shares[owner] - shares'[owner] = burnt.shares
    BY <1>5, <1>6
  <2> QED  BY <1>2, <2>1, <2>2, <2>3 DEF DebitsAnnounced
<1>8. SumFunction(wallet') - SumFunction(wallet) = burnt.underlying
  <2>1. PoolBurn(burnt.underlying) = burnt.b_tokens
    BY <1>1, UpdatedVault DEF IsProRataExit, PoolBurn, underlying_to_b_tokens_up
  <2>2. burnt.b_tokens <= pool.position
    BY <1>1, UpdatedVault, VaultDataFields DEF IsProRataExit, CoreInv, PositionMatchesPool
  <2>3. pool.position \in Nat
    BY <1>1, UpdatedVault
  <2>4. PoolPays(burnt.underlying) = burnt.underlying
    BY <1>1, <2>1, <2>2, <2>3 DEF PoolPays
  <2>5. wallet' = [wallet EXCEPT ![receiver] = wallet[receiver] + burnt.underlying]
    BY <2>4 DEF Exit, Credit
  <2>6. /\ wallet \in [Users -> Int] /\ burnt.underlying \in Int /\ wallet[receiver] \in Int
    BY <1>1 DEF TypeOK
  <2>7. SumFunction(wallet') = SumFunction(wallet) + burnt.underlying
    <3>1. SumFunction([wallet EXCEPT ![receiver] = wallet[receiver] + burnt.underlying])
            = SumFunction(wallet) + burnt.underlying
      BY <2>6, CreditRaisesTotal
    <3> QED  BY <2>5, <3>1
  <2>8. SumFunction(wallet) \in Int
    BY <2>6, UsersAssumption, SumAfterUpdate
  <2> QED  BY <2>6, <2>7, <2>8
<1>9. ExitsOverstated
  BY <1>2, <1>5, <1>6, <1>8 DEF ExitsOverstated
<1> QED  BY <1>3, <1>7, <1>9 DEF HonestStep

\* A request is clamped only if it exceeds what all shares are worth: priced at
\* their quote or less, it would cost no more than them.
LEMMA ClampedRequestExceedsQuote ==
  ASSUME NEW v \in VaultData, NEW n \in Nat, NEW amount \in Positive,
         withdraw(v, n, amount).accepted,
         b_tokens_to_shares_up(v, underlying_to_b_tokens_up(v, amount)) > n
  PROVE  amount > shares_to_underlying_down(v, n)
<1> DEFINE S == v.total_shares
           B == v.total_b_tokens
           r == v.b_rate
           q == shares_to_b_tokens_down(v, n)
           paid == shares_to_underlying_down(v, n)
           burnt == underlying_to_b_tokens_up(v, paid)
           asked == underlying_to_b_tokens_up(v, amount)
           cost == b_tokens_to_shares_up(v, asked)
<1>1. /\ n > 0 /\ n <= S /\ S \in Nat /\ B \in Nat /\ r \in Nat /\ r > 0
      /\ Scalar \in Positive /\ asked > 0
  <2>1. S \in Nat /\ B \in Nat /\ r \in Nat /\ Scalar \in Positive
    BY VaultDataFields, ScalarAssumption DEF Positive
  <2>2. r > 0 /\ asked > 0
    BY DEF withdraw, underlying_to_b_tokens_returns
  <2>3. n > 0 /\ n <= S
    BY DEF withdraw
  <2> QED  BY <2>1, <2>2, <2>3
<1>2. S \in Positive /\ r \in Positive
  BY <1>1 DEF Positive
<1>3. /\ q \in Nat /\ q * S <= n * B /\ paid \in Nat /\ burnt \in 0..q
  BY <1>1, QuoteIsCovered
<1>4. /\ asked = CeilDiv(amount * Scalar, r) /\ burnt = CeilDiv(paid * Scalar, r)
      /\ cost = IF B = 0 THEN asked ELSE CeilDiv(asked * S, B)
      /\ cost > n
  BY <1>1 DEF underlying_to_b_tokens_up, b_tokens_to_shares_up, IsUnpriced
<1> SUFFICES ASSUME amount <= paid PROVE FALSE
  BY <1>3 DEF Positive
<1> HIDE DEF S, B, r, q, paid, burnt, asked, cost
<1>5. asked \in Int /\ asked <= q
  <2>1. /\ amount * Scalar \in Int /\ paid * Scalar \in Int
        /\ amount * Scalar <= paid * Scalar
    BY <1>1, <1>3 DEF Positive
  <2>2. asked \in Int /\ asked <= burnt
    BY <1>2, <1>4, <2>1, CeilDivBounds, DivMonotonic
  <2> QED  BY <1>3, <2>2
<1>6. B > 0
  <2>1. ASSUME B = 0 PROVE FALSE
    <3>1. n * B = 0
      BY <1>1, <2>1
    <3>2. q * S <= 0
      BY <1>3, <3>1
    <3>3. q = 0
      BY <1>2, <1>3, <3>2 DEF Positive
    <3> QED  BY <1>1, <1>5, <3>3
  <2> QED  BY <1>1, <2>1
<1>7. B \in Positive /\ cost = CeilDiv(asked * S, B)
  BY <1>1, <1>4, <1>6 DEF Positive
<1>8. /\ asked * S \in Int /\ n * B \in Int /\ asked * S <= n * B
  BY <1>1, <1>3, <1>5
<1>9. cost \in Int /\ B * cost < B * n + B
  <2>1. cost \in Int /\ asked * S > B * cost - B
    BY <1>7, <1>8, CeilDivBounds
  <2>2. B * cost \in Int /\ B * n = n * B /\ B \in Int
    BY <1>1, <1>7, <2>1
  <2> HIDE DEF B
  <2> QED  BY <1>8, <2>1, <2>2
<1>10. cost <= n
  BY <1>7, <1>9, Cancel
<1> QED  BY <1>4, <1>9, <1>10

\* The burn event of a withdrawal names its owner and the shares burnt, and
\* overstates the payment only when it was clamped.
LEMMA WithdrawIsHonest ==
  ASSUME LogInv, NEW amount \in Amounts, NEW receiver \in Users, NEW owner \in Users,
         NEW operator \in Users, LoggedWithdraw(amount, receiver, owner, operator)
  PROVE  HonestStep
<1> DEFINE v == get_vault_updated
           burnt == withdraw(v, shares[owner], amount)
           cost == b_tokens_to_shares_up(v, underlying_to_b_tokens_up(v, amount))
<1>1. /\ amount \in Positive /\ burnt.accepted /\ Exit(burnt, receiver, owner)
      /\ Publish(vault_withdraw(owner, amount, burnt.shares, burnt.b_tokens))
  BY AmountsAssumption DEF LoggedWithdraw, WithdrawCall, Withdraw, Exit, Positive
<1>2. shares[owner] \in Nat /\ v \in VaultData
  BY UpdatedVault DEF LogInv, BlendInv, CoreInv, TypeOK
<1>3. IsProRataExit(v, shares[owner], burnt)
  BY <1>1, <1>2, WithdrawIsProRata
<1>4. \/ amount = burnt.underlying
      \/ amount > burnt.underlying /\ burnt.shares = shares[owner]
  <2>1. CASE cost > shares[owner]
    <3>1. /\ burnt.shares = shares[owner]
          /\ burnt.underlying = shares_to_underlying_down(v, shares[owner])
      BY <2>1 DEF withdraw
    <3>2. amount > shares_to_underlying_down(v, shares[owner])
      BY <1>1, <1>2, <2>1, ClampedRequestExceedsQuote
    <3> HIDE DEF burnt, v
    <3> QED  BY <3>1, <3>2
  <2>2. CASE ~(cost > shares[owner])
    BY <2>2 DEF withdraw
  <2> QED  BY <2>1, <2>2
<1>5. amount \in Int
  BY AmountsAssumption
<1> HIDE DEF burnt
<1> QED  BY <1>1, <1>3, <1>4, <1>5, ExitIsHonest

\* The burn event of a redemption names its owner and the shares burnt.
LEMMA RedeemIsHonest ==
  ASSUME LogInv, NEW amount \in Amounts, NEW receiver \in Users, NEW owner \in Users,
         NEW operator \in Users, LoggedRedeem(amount, receiver, owner, operator)
  PROVE  HonestStep
<1> DEFINE v == get_vault_updated
           burnt == redeem(v, shares[owner], amount)
<1>1. /\ amount \in Positive /\ burnt.accepted /\ Exit(burnt, receiver, owner)
      /\ Publish(vault_withdraw(owner, burnt.underlying, amount, burnt.b_tokens))
      /\ burnt.shares = amount
  BY AmountsAssumption DEF LoggedRedeem, RedeemCall, Redeem, Exit, Positive, redeem
<1>2. shares[owner] \in Nat /\ v \in VaultData
  BY UpdatedVault DEF LogInv, BlendInv, CoreInv, TypeOK
<1>3. IsProRataExit(v, shares[owner], burnt)
  BY <1>1, <1>2, RedeemIsProRata
<1> HIDE DEF burnt
<1>4. burnt.underlying \in Int
  BY <1>3 DEF IsProRataExit
<1> QED  BY <1>1, <1>3, <1>4, ExitIsHonest

\* transfer and transfer_from, to oneself included.
LEMMA MoveIsHonest ==
  ASSUME LogInv, NEW amount \in Int, NEW from \in Users, NEW to \in Users,
         MoveShares(from, to, amount), Publish(transfer(from, to, amount))
  PROVE  HonestStep
<1>1. /\ event'.topic = "transfer" /\ event'.from = from /\ event'.shares = amount
      /\ log' = log
  BY TransferIsPublished
<1>2. /\ \A u \in Users : u # from => shares'[u] >= shares[u]
      /\ shares[from] - shares'[from] > 0 => shares[from] - shares'[from] = amount
      /\ vault' = vault /\ wallet' = wallet
  BY MoveTakesFromSender DEF LogInv, BlendInv
<1>3. \A u \in Users : shares[u] \in Nat /\ shares'[u] \in Nat /\ wallet[u] \in Nat
  BY MoveKeepsCoreInv DEF LogInv, BlendInv, CoreInv, TypeOK
<1>4. DebitsAnnounced
  <2>1. \A u \in Users : ~(wallet'[u] < wallet[u])
    BY <1>2, <1>3
  <2>2. \A u \in Users : shares'[u] < shares[u] => u = from
    BY <1>2, <1>3
  <2>3. shares'[from] < shares[from] => amount = shares[from] - shares'[from]
    BY <1>2, <1>3
  <2> QED  BY <1>1, <2>1, <2>2, <2>3 DEF DebitsAnnounced
<1>5. LogTellsTotals' /\ ExitsOverstated
  BY <1>1, <1>2 DEF LogInv, LogTellsTotals, ExitsOverstated
<1> QED  BY <1>4, <1>5 DEF HonestStep

\* claim_emissions mints no shares; the observer asks for the bTokens.
LEMMA ClaimIsHonest ==
  ASSUME LogInv, NEW received \in SwapOuts, LoggedClaim(received)
  PROVE  HonestStep
<1>1. /\ HarvestEmissions(received) /\ shares' = shares /\ wallet' = wallet
      /\ event'.topic = "vault_emissions_claim"
      /\ log' = [log EXCEPT !.b_tokens = vault'.total_b_tokens]
  BY ClaimIsPublished DEF LoggedClaim, ClaimEmissions, HarvestEmissions
<1>2. vault'.total_shares = vault.total_shares
  BY <1>1, HarvestKeepsCoreInv DEF LogInv, BlendInv, Ideal!Endow
<1>3. LogTellsTotals' /\ ExitsOverstated
  BY <1>1, <1>2 DEF LogInv, LogTellsTotals, ExitsOverstated
<1>4. DebitsAnnounced
  BY <1>1 DEF DebitsAnnounced, LogInv, BlendInv, CoreInv, TypeOK
<1> QED  BY <1>3, <1>4 DEF HonestStep
-----------------------------------------------------------------------------
(***************************************************************************)
(* The results.                                                            *)
(***************************************************************************)
LEMMA LogNextIsHonest ==
  ASSUME LogInv, LogNext
  PROVE  HonestStep
<1>1. ASSUME NEW d \in Delegations, NEW amount \in ApproveAmounts,
             NEW expiration_ledger \in Expirations,
             LoggedApprove(d[1], d[2], amount, expiration_ledger)
      PROVE  HonestStep
  <2>1. /\ Publish(approve(d[1], d[2], amount, expiration_ledger))
        /\ shares' = shares /\ wallet' = wallet /\ vault' = vault
    BY <1>1 DEF LoggedApprove, Approve, vaultVars
  <2>2. approve(d[1], d[2], amount, expiration_ledger).topic = "approve"
    BY DEF approve
  <2>3. log' = log /\ event'.topic = "approve"
    BY <2>1, <2>2, NothingIsBooked
  <2> QED  BY <2>1, <2>3, NothingToAnnounce
<1>2. ASSUME NEW from \in Users, NEW to \in Users, NEW amount \in Amounts,
             LoggedTransfer(from, to, amount)
      PROVE  HonestStep
  BY <1>2, AmountsAssumption, MoveIsHonest DEF LoggedTransfer, Transfer
<1>3. ASSUME NEW spender \in Users, NEW from \in Users, NEW to \in Users,
             NEW amount \in Amounts, LoggedTransferFrom(spender, from, to, amount)
      PROVE  HonestStep
  BY <1>3, AmountsAssumption, MoveIsHonest DEF LoggedTransferFrom, TransferFrom
<1>4. ASSUME (AdminCall \/ Tick) /\ Publish(Silence)
      PROVE  HonestStep
  <2>1. shares' = shares /\ wallet' = wallet /\ vault' = vault
    BY <1>4
       DEF AdminCall, SetAdmin, SetSigner, SetRouter, vaultVars, Tick, CloseLedger
  <2>2. log' = log /\ event'.topic = "none"
    BY <1>4, NothingIsBooked DEF Silence
  <2> QED  BY <2>1, <2>2, NothingToAnnounce
<1>5. CASE LoggedTokenCall
  BY <1>1, <1>2, <1>3, <1>5 DEF LoggedTokenCall
<1>6. CASE LoggedPoolCall
  BY <1>6, DepositIsHonest, WithdrawIsHonest, RedeemIsHonest, ClaimIsHonest DEF LoggedPoolCall
<1> QED  BY <1>4, <1>5, <1>6 DEF LogNext

\* LogInv holds in every reachable state.
THEOREM LogInvariant == LogSpec => []LogInv
<1>1. LogInit => LogInv
  <2>1. LogInit => BlendInv
    BY InitEstablishesBlendInv DEF LogInit
  <2>2. LogInit => vault.total_shares = 0 /\ vault.total_b_tokens = 0
    BY DEF LogInit, BlendInit, VaultInit
  <2>3. LogInit => log = [shares |-> 0, b_tokens |-> 0]
    BY DEF LogInit
  <2> QED  BY <2>1, <2>2, <2>3 DEF LogInv, LogTellsTotals
<1>2. LogInv /\ [LogNext]_logVars => LogInv'
  <2>1. LogInv /\ [LogNext]_logVars => BlendInv'
    BY LoggedStepIsContractStep, NextKeepsBlendInv DEF LogInv
  <2>2. LogInv /\ LogNext => LogTellsTotals'
    BY LogNextIsHonest DEF HonestStep
  <2>3. LogInv /\ UNCHANGED logVars => LogTellsTotals'
    BY DEF logVars, blendVars, LogInv, LogTellsTotals
  <2> QED  BY <2>1, <2>2, <2>3 DEF LogInv
<1> QED  BY <1>1, <1>2, PTL DEF LogSpec

\* Whoever adds up the events has the totals of the vault, always: every call
\* publishes exactly the shares and bTokens it booked (contract.rs:310-467).
THEOREM ObserversKnowTheTotals == LogSpec => []LogTellsTotals
<1>1. LogInv => LogTellsTotals
  BY DEF LogInv
<1> QED  BY <1>1, LogInvariant, PTL

\* Nobody loses shares or underlying without being named, with the exact
\* number, by the event of that call.
THEOREM DebitsAreAlwaysAnnounced == LogSpec => DebitsAreAnnounced
<1>1. LogInv /\ [LogNext]_logVars => [DebitsAnnounced]_logVars
  BY LogNextIsHonest DEF HonestStep
<1> QED  BY <1>1, LogInvariant, PTL DEF LogSpec, DebitsAreAnnounced, DebitsAnnounced

\* A withdrawal event overstates what was paid only when it took everything.
THEOREM OverstatementsAreFullExits == LogSpec => OnlyFullExitsAreOverstated
<1>1. LogInv /\ [LogNext]_logVars => [ExitsOverstated]_logVars
  BY LogNextIsHonest DEF HonestStep
<1> QED  BY <1>1, LogInvariant, PTL DEF LogSpec, OnlyFullExitsAreOverstated, ExitsOverstated
=============================================================================
