-------------------------- MODULE CallFramesProofs --------------------------
(***************************************************************************)
(* A call run statement by statement, refused anywhere, is the call of     *)
(* BlendVault or nothing; and what holds in the middle of one.             *)
(***************************************************************************)
EXTENDS CallFrames, BlendVaultProofs

\* What is proved of BlendVault, said of the committed state.
Books == INSTANCE BlendVaultProofs WITH
  vault <- Committed.vault, shares <- Committed.shares, pool <- Committed.pool,
  wallet <- Committed.wallet, allowance <- Committed.allowance
-----------------------------------------------------------------------------
(***************************************************************************)
(* The inductive invariant: how far a call has come from the committed     *)
(* state, for every statement it may be at.                                *)
(***************************************************************************)
Todo(statements) == frame.todo = statements

BooksUntouched == vault = Committed.vault /\ shares = Committed.shares
PoolUntouched == pool = Committed.pool /\ wallet = Committed.wallet
AllowancesUntouched == allowance = Committed.allowance

IsParties ==
  /\ frame.amount \in Amounts /\ frame.amount > 0
  /\ frame.receiver \in Users /\ frame.owner \in Users /\ frame.operator \in Users

\* A deposit: the pool has taken the tokens, or not yet.
InDeposit ==
  /\ frame.call = "deposit" /\ IsParties /\ frame.operator # signer
  /\ BooksUntouched /\ AllowancesUntouched /\ held = EmptyHands
  /\ \/ Todo(<<"supply", "mint">>) /\ PoolUntouched
     \/ /\ Todo(<<"mint">>)
        /\ frame.amount <= Committed.wallet[frame.owner]
        /\ Committed.pool.b_rate > 0
        /\ pool = Books!PoolSupply(frame.amount)
        /\ wallet = Debit(Committed.wallet, frame.owner, frame.amount)

\* What an exit burns, priced in the committed state.
Priced ==
  IF frame.call = "withdraw"
  THEN withdraw(Books!get_vault_updated, Committed.shares[frame.owner], frame.amount)
  ELSE redeem(Books!get_vault_updated, Committed.shares[frame.owner], frame.amount)

SharesBurnt ==
  /\ Priced.accepted
  /\ vault = [Books!get_vault_updated EXCEPT !.total_shares = @ - Priced.shares,
                                             !.total_b_tokens = @ - Priced.b_tokens]
  /\ shares = Debit(Committed.shares, frame.owner, Priced.shares)
  /\ frame.result = Priced

AllowanceCharged ==
  IF frame.owner = frame.operator THEN AllowancesUntouched
  ELSE /\ <<frame.owner, frame.operator>> \in Delegations
       /\ Books!get_allowance(frame.owner, frame.operator) >= Priced.shares
       /\ allowance = [Committed.allowance EXCEPT ![<<frame.owner, frame.operator>>].amount
                                                    = @ - Priced.shares]

\* An exit: withdraw burns and charges, redeem charges and burns.
InExit ==
  /\ frame.call \in {"withdraw", "redeem"} /\ IsParties
  /\ PoolUntouched /\ held = EmptyHands
  /\ \/ /\ frame.call = "withdraw" /\ Todo(<<"burn", "charge", "pay">>)
        /\ BooksUntouched /\ AllowancesUntouched
     \/ /\ frame.call = "withdraw" /\ Todo(<<"charge", "pay">>)
        /\ SharesBurnt /\ AllowancesUntouched
     \/ /\ frame.call = "redeem" /\ Todo(<<"charge", "burn", "pay">>)
        /\ BooksUntouched /\ AllowancesUntouched
     \/ /\ frame.call = "redeem" /\ Todo(<<"burn", "pay">>)
        /\ BooksUntouched /\ AllowanceCharged
     \/ Todo(<<"pay">>) /\ SharesBurnt /\ AllowanceCharged

\* A harvest: BLND claimed, approved, swapped, and the proceeds supplied.
InHarvest ==
  /\ frame.call = "claim" /\ router_set
  /\ BooksUntouched /\ AllowancesUntouched /\ wallet = Committed.wallet
  /\ \/ /\ Todo(<<"claim", "approve", "swap", "resupply", "read_back">>)
        /\ pool = Committed.pool /\ held = EmptyHands
     \/ /\ Committed.pool.blnd
        /\ pool = [Committed.pool EXCEPT !.blnd = FALSE]
        /\ \/ /\ Todo(<<"approve", "swap", "resupply", "read_back">>)
              /\ held = [blnd |-> BlndClaimed, approved |-> 0, asset |-> 0]
           \/ /\ Todo(<<"swap", "resupply", "read_back">>)
              /\ held = [blnd |-> BlndClaimed, approved |-> BlndClaimed, asset |-> 0]
           \/ /\ Todo(<<"resupply", "read_back">>)
              /\ frame.result \in SwapOuts
              /\ held = [blnd |-> 0, approved |-> 0, asset |-> frame.result]
     \/ /\ Todo(<<"read_back">>) /\ held = EmptyHands
        /\ Committed.pool.blnd /\ Committed.pool.b_rate > 0
        /\ \E received \in SwapOuts :
             /\ Books!PoolMint(received) >= MinBTokens
             /\ pool = [Books!PoolSupply(received) EXCEPT !.blnd = FALSE]

\* The fields of a frame, and what it saved.
IsFrame ==
  /\ frame = [call |-> frame.call, todo |-> frame.todo, saved |-> frame.saved,
              result |-> frame.result, amount |-> frame.amount, receiver |-> frame.receiver,
              owner |-> frame.owner, operator |-> frame.operator]
  /\ frame.saved.held = EmptyHands

CallInv ==
  /\ InFlight => IsFrame /\ (InDeposit \/ InExit \/ InHarvest)
  /\ ~InFlight => held = EmptyHands

FrameInv == Books!BlendInv /\ CallInv
-----------------------------------------------------------------------------
(***************************************************************************)
(* The committed state.                                                    *)
(***************************************************************************)

\* Between calls it is the state itself.
LEMMA CommittedWhenIdle ==
  /\ ~InFlight => /\ Committed.vault = vault /\ Committed.shares = shares
                  /\ Committed.pool = pool /\ Committed.wallet = wallet
                  /\ Committed.allowance = allowance
  /\ ~InFlight' => /\ (Committed.vault)' = vault' /\ (Committed.shares)' = shares'
                   /\ (Committed.pool)' = pool' /\ (Committed.wallet)' = wallet'
                   /\ (Committed.allowance)' = allowance'
  BY DEF Committed, InFlight, Snapshot

\* A call is not the absence of one.
LEMMA CallsAreFlights ==
  /\ frame.call # "none" => InFlight
  /\ frame'.call # "none" => InFlight'
  BY DEF InFlight, NoFrame

\* A statement that is not the last leaves the frame and the committed state.
LEMMA CallGoesOn ==
  ASSUME InFlight, IsFrame, frame.call # "none", Len(frame.todo) # 1, NEW result,
         Advance(result)
  PROVE  /\ InFlight' /\ IsFrame' /\ Committed' = Committed
         /\ frame'.todo = Tail(frame.todo) /\ frame'.result = result
         /\ frame'.call = frame.call /\ frame'.amount = frame.amount
         /\ frame'.receiver = frame.receiver
         /\ frame'.owner = frame.owner /\ frame'.operator = frame.operator
         /\ UNCHANGED auths
<1>1. /\ frame' = [frame EXCEPT !.todo = Tail(@), !.result = result]
      /\ UNCHANGED auths
  BY DEF Advance
<1>2. frame' = [call |-> frame.call, todo |-> Tail(frame.todo), saved |-> frame.saved,
                result |-> result, amount |-> frame.amount, receiver |-> frame.receiver,
                owner |-> frame.owner, operator |-> frame.operator]
  BY <1>1 DEF IsFrame
<1>3. InFlight' /\ IsFrame'
  BY <1>2, CallsAreFlights DEF IsFrame
<1>4. Committed' = Committed
  BY <1>2, <1>3 DEF Committed
<1> QED  BY <1>1, <1>2, <1>3, <1>4

\* The last statement ends the call.
LEMMA CallReturns ==
  ASSUME Len(frame.todo) = 1, NEW result, Advance(result)
  PROVE  ~InFlight' /\ auths' = Authorizers
  BY DEF Advance, InFlight

\* Nothing of a call is seen before it returns.
LEMMA NothingIsSeen ==
  ASSUME Committed' = Committed, UNCHANGED <<ledger, keys, auths>>
  PROVE  UNCHANGED Books!blendVars
  BY DEF keys, Books!blendVars
\* What every step does: it keeps the state of the call, and is seen from
\* outside as a step of BlendVault or as none.
FrameStep == CallInv' /\ [Books!BlendNext]_(Books!blendVars)

\* The types of the committed state.
LEMMA CommittedTypes ==
  ASSUME Books!BlendInv
  PROVE  /\ Committed.vault \in VaultData
         /\ Committed.shares \in [Users -> Nat]
         /\ Committed.pool \in Pool
         /\ Committed.wallet \in [Users -> Nat]
         /\ Committed.allowance \in [Delegations -> AllowanceValue]
         /\ Books!get_vault_updated \in VaultData
         /\ Committed.vault.total_b_tokens = Committed.pool.position
         /\ ledger \in Nat
  BY DEF Books!BlendInv, Books!CoreInv, Books!TypeOK, Books!VaultData, VaultData, Books!Pool, Pool,
         Books!BlendTypeOK, Books!AllowanceValue, AllowanceValue, Books!PositionMatchesPool,
         Books!get_vault_updated

\* The arithmetic is the same in every state.
LEMMA SameArithmetic ==
  ASSUME NEW v, NEW user_shares, NEW amount
  PROVE  /\ Books!deposit(v, user_shares, amount) = deposit(v, user_shares, amount)
         /\ Books!withdraw(v, user_shares, amount) = withdraw(v, user_shares, amount)
         /\ Books!redeem(v, user_shares, amount) = redeem(v, user_shares, amount)
<1>1. Books!deposit(v, user_shares, amount) = deposit(v, user_shares, amount)
  BY Zenon
     DEF Books!deposit, deposit, Books!underlying_to_b_tokens_down, underlying_to_b_tokens_down,
         Books!b_tokens_to_shares_down, b_tokens_to_shares_down, Books!IsUnpriced, IsUnpriced,
         Books!underlying_to_b_tokens_returns, underlying_to_b_tokens_returns,
         Books!b_tokens_to_shares_returns, b_tokens_to_shares_returns, Books!Fits, Fits,
         Books!FloorDiv, FloorDiv
<1>2. Books!withdraw(v, user_shares, amount) = withdraw(v, user_shares, amount)
  BY Zenon
     DEF Books!withdraw, withdraw, Books!underlying_to_b_tokens_up, underlying_to_b_tokens_up,
         Books!b_tokens_to_shares_up, b_tokens_to_shares_up, Books!IsUnpriced, IsUnpriced,
         Books!underlying_to_b_tokens_returns, underlying_to_b_tokens_returns,
         Books!b_tokens_to_shares_returns, b_tokens_to_shares_returns, Books!Fits, Fits,
         Books!shares_to_underlying_down, shares_to_underlying_down,
         Books!b_tokens_to_underlying_down, b_tokens_to_underlying_down,
         Books!shares_to_b_tokens_down, shares_to_b_tokens_down,
         Books!quote_returns, quote_returns,
         Books!shares_to_b_tokens_returns, shares_to_b_tokens_returns,
         Books!b_tokens_to_underlying_returns, b_tokens_to_underlying_returns,
         Books!FloorDiv, FloorDiv, Books!CeilDiv, CeilDiv
<1>3. Books!redeem(v, user_shares, amount) = redeem(v, user_shares, amount)
  BY Zenon
     DEF Books!redeem, redeem, Books!underlying_to_b_tokens_up, underlying_to_b_tokens_up,
         Books!underlying_to_b_tokens_returns, underlying_to_b_tokens_returns, Books!Fits, Fits,
         Books!shares_to_underlying_down, shares_to_underlying_down,
         Books!b_tokens_to_underlying_down, b_tokens_to_underlying_down,
         Books!shares_to_b_tokens_down, shares_to_b_tokens_down,
         Books!quote_returns, quote_returns,
         Books!shares_to_b_tokens_returns, shares_to_b_tokens_returns,
         Books!b_tokens_to_underlying_returns, b_tokens_to_underlying_returns,
         Books!FloorDiv, FloorDiv, Books!CeilDiv, CeilDiv
<1> QED  BY <1>1, <1>2, <1>3
-----------------------------------------------------------------------------
(***************************************************************************)
(* Entering a call, and undoing it.                                        *)
(***************************************************************************)

\* A call that begins has saved what is restored if it fails.
LEMMA EnterBegins ==
  ASSUME FrameInv, NEW call, NEW amount, NEW receiver, NEW owner, NEW operator,
         call # "none", Enter(call, amount, receiver, owner, operator)
  PROVE  /\ InFlight' /\ IsFrame' /\ UNCHANGED Books!blendVars
         /\ frame'.call = call /\ frame'.todo = Statements(call)
         /\ frame'.amount = amount /\ frame'.receiver = receiver
         /\ frame'.owner = owner /\ frame'.operator = operator
         /\ (Committed.vault)' = vault /\ (Committed.shares)' = shares
         /\ (Committed.pool)' = pool /\ (Committed.wallet)' = wallet
         /\ (Committed.allowance)' = allowance
         /\ vault' = vault /\ shares' = shares /\ pool' = pool /\ wallet' = wallet
         /\ allowance' = allowance /\ signer' = signer /\ router_set' = router_set
         /\ held' = EmptyHands
<1>1. /\ frame' = [call |-> call, todo |-> Statements(call), saved |-> Snapshot, result |-> 0,
                   amount |-> amount, receiver |-> receiver, owner |-> owner,
                   operator |-> operator]
      /\ vault' = vault /\ shares' = shares /\ pool' = pool /\ wallet' = wallet
      /\ ledger' = ledger /\ allowance' = allowance /\ admin' = admin /\ signer' = signer
      /\ router_set' = router_set /\ auths' = auths
      /\ held = EmptyHands /\ held' = held /\ ~InFlight
  BY DEF Enter, blendVars, FrameInv, CallInv
<1>2. InFlight' /\ IsFrame'
  BY <1>1, CallsAreFlights DEF IsFrame, Snapshot
<1>3. Committed' = Snapshot /\ Committed = Snapshot
  BY <1>1, <1>2 DEF Committed
<1>4. /\ (Committed.vault)' = vault /\ (Committed.shares)' = shares
      /\ (Committed.pool)' = pool /\ (Committed.wallet)' = wallet
      /\ (Committed.allowance)' = allowance
  BY <1>3 DEF Snapshot
<1>5. UNCHANGED Books!blendVars
  BY <1>1, <1>3 DEF Books!blendVars
<1> QED  BY <1>1, <1>2, <1>4, <1>5

\* Entering a deposit changes nothing anybody can see.
LEMMA EnterDepositStep ==
  ASSUME FrameInv, NEW amount \in Amounts, NEW receiver \in Users, NEW from \in Users,
         NEW operator \in Users, EnterDeposit(amount, receiver, from, operator)
  PROVE  FrameStep
<1>1. /\ operator # signer /\ amount > 0
      /\ Enter("deposit", amount, receiver, from, operator)
  BY DEF EnterDeposit
<1>2. Statements("deposit") = <<"supply", "mint">>
  BY DEF Statements
<1>3. InFlight' /\ IsFrame' /\ InDeposit' /\ UNCHANGED Books!blendVars
  BY <1>1, <1>2, EnterBegins
     DEF InDeposit, IsParties, BooksUntouched, AllowancesUntouched, PoolUntouched, Todo, EmptyHands
<1> QED  BY <1>3 DEF FrameStep, CallInv

\* Nor does entering a withdrawal,
LEMMA EnterWithdrawStep ==
  ASSUME FrameInv, NEW amount \in Amounts, NEW receiver \in Users, NEW owner \in Users,
         NEW operator \in Users, EnterWithdraw(amount, receiver, owner, operator)
  PROVE  FrameStep
<1>1. Statements("withdraw") = <<"burn", "charge", "pay">>
  BY DEF Statements
<1>2. InFlight' /\ IsFrame' /\ InExit' /\ UNCHANGED Books!blendVars
  BY <1>1, EnterBegins
     DEF EnterWithdraw, InExit, IsParties, BooksUntouched, AllowancesUntouched, PoolUntouched,
         Todo, EmptyHands
<1> QED  BY <1>2 DEF FrameStep, CallInv

\* nor entering a redemption,
LEMMA EnterRedeemStep ==
  ASSUME FrameInv, NEW amount \in Amounts, NEW receiver \in Users, NEW owner \in Users,
         NEW operator \in Users, EnterRedeem(amount, receiver, owner, operator)
  PROVE  FrameStep
<1>1. Statements("redeem") = <<"charge", "burn", "pay">>
  BY DEF Statements
<1>2. InFlight' /\ IsFrame' /\ InExit' /\ UNCHANGED Books!blendVars
  BY <1>1, EnterBegins
     DEF EnterRedeem, InExit, IsParties, BooksUntouched, AllowancesUntouched, PoolUntouched,
         Todo, EmptyHands
<1> QED  BY <1>2 DEF FrameStep, CallInv

\* nor entering a harvest.
LEMMA EnterClaimStep ==
  ASSUME FrameInv, NEW amount_out_min \in SlippageFloors, EnterClaim(amount_out_min)
  PROVE  FrameStep
<1>1. router_set /\ Enter("claim", amount_out_min, NoSigner, NoSigner, NoSigner)
  BY DEF EnterClaim
<1>2. Statements("claim") = <<"claim", "approve", "swap", "resupply", "read_back">>
  BY DEF Statements
<1>3. InFlight' /\ IsFrame' /\ InHarvest' /\ UNCHANGED Books!blendVars
  BY <1>1, <1>2, EnterBegins
     DEF InHarvest, BooksUntouched, AllowancesUntouched, Todo, EmptyHands
<1> QED  BY <1>3 DEF FrameStep, CallInv

\* The host's rollback restores the committed state.
LEMMA RevertStep ==
  ASSUME FrameInv, Revert
  PROVE  FrameStep
<1>1. InFlight
  BY DEF Revert, Fails, At
<1>2. IsFrame
  BY <1>1 DEF FrameInv, CallInv
<1>3. ~InFlight' /\ held' = EmptyHands
  BY <1>2 DEF Revert, IsFrame, InFlight
<1>4. UNCHANGED Books!blendVars
  BY <1>1, <1>3, CommittedWhenIdle DEF Revert, Books!blendVars, keys, Committed
<1> QED  BY <1>3, <1>4 DEF FrameStep, CallInv
-----------------------------------------------------------------------------
(***************************************************************************)
(* A deposit.                                                              *)
(***************************************************************************)

\* What each statement may be part of.
LEMMA WhereStatementsStand ==
  ASSUME FrameInv, InFlight
  PROVE  /\ IsFrame /\ frame.call # "none"
         /\ At("supply") \/ At("mint") => InDeposit
         /\ At("burn") \/ At("charge") \/ At("pay") => InExit
         /\ At("claim") \/ At("approve") \/ At("swap") \/ At("resupply") \/ At("read_back")
              => InHarvest
<1>1. IsFrame /\ (InDeposit \/ InExit \/ InHarvest)
  BY DEF FrameInv, CallInv
<1>2. CASE InDeposit
  BY <1>1, <1>2 DEF InDeposit, Todo, At
<1>3. CASE InExit
  BY <1>1, <1>3 DEF InExit, Todo, At
<1>4. CASE InHarvest
  BY <1>1, <1>4 DEF InHarvest, Todo, At
<1> QED  BY <1>1, <1>2, <1>3, <1>4

\* The pool takes the tokens of a deposit; the call goes on.
LEMMA SupplyStep ==
  ASSUME FrameInv, Supply
  PROVE  FrameStep
<1>1. InFlight /\ IsFrame /\ InDeposit /\ frame.call # "none" /\ Head(frame.todo) = "supply"
  BY WhereStatementsStand DEF Supply, At
<1>2. /\ frame.todo = <<"supply", "mint">> /\ PoolUntouched
      /\ Len(frame.todo) # 1 /\ Tail(frame.todo) = <<"mint">>
  <2>1. frame.todo # <<"mint">>
    BY <1>1
  <2>2. frame.todo = <<"supply", "mint">> /\ PoolUntouched
    BY <1>1, <2>1 DEF InDeposit, Todo
  <2> QED  BY <2>2
<1>3. /\ InFlight' /\ IsFrame' /\ Committed' = Committed /\ frame'.todo = <<"mint">>
      /\ frame'.call = frame.call /\ frame'.amount = frame.amount
      /\ frame'.receiver = frame.receiver
      /\ frame'.owner = frame.owner /\ frame'.operator = frame.operator
      /\ UNCHANGED auths
  BY <1>1, <1>2, CallGoesOn DEF Supply
<1>4. /\ vault' = vault /\ shares' = shares /\ allowance' = allowance /\ held' = held
      /\ signer' = signer
      /\ frame.amount <= Committed.wallet[frame.owner] /\ Committed.pool.b_rate > 0
      /\ pool' = Books!PoolSupply(frame.amount)
      /\ wallet' = Debit(Committed.wallet, frame.owner, frame.amount)
  BY <1>2 DEF Supply, PoolUntouched, PoolSupply, Books!PoolSupply, PoolMint, Books!PoolMint,
              FloorDiv, Books!FloorDiv, keys
<1>5. pool' = Books!PoolSupply(frame.amount)' 
  BY <1>3, <1>4 DEF Books!PoolSupply, Books!PoolMint
<1>6. InDeposit'
  BY <1>1, <1>3, <1>4, <1>5
     DEF InDeposit, IsParties, BooksUntouched, AllowancesUntouched, Todo, EmptyHands, Debit
<1>7. UNCHANGED Books!blendVars
  BY <1>3, NothingIsSeen DEF Supply
<1> QED  BY <1>3, <1>6, <1>7 DEF FrameStep, CallInv

\* The last statement of a deposit makes the whole call seen at once.
LEMMA MintStep ==
  ASSUME FrameInv, Mint
  PROVE  FrameStep
<1>1. InFlight /\ IsFrame /\ InDeposit /\ Head(frame.todo) = "mint"
  BY WhereStatementsStand DEF Mint, At
<1>2. /\ frame.todo = <<"mint">> /\ Len(frame.todo) = 1
      /\ frame.amount <= Committed.wallet[frame.owner]
      /\ Committed.pool.b_rate > 0
      /\ pool = Books!PoolSupply(frame.amount)
      /\ wallet = Debit(Committed.wallet, frame.owner, frame.amount)
  <2>1. frame.todo # <<"supply", "mint">>
    BY <1>1
  <2> QED  BY <1>1, <2>1 DEF InDeposit, Todo
<1>3. /\ ~InFlight'
      /\ auths' = {frame.operator, frame.owner} \cup ({signer} \ {NoSigner})
  BY <1>1, <1>2, CallReturns DEF Mint, Authorizers, InDeposit
<1>4. /\ (Committed.vault)' = vault' /\ (Committed.shares)' = shares'
      /\ (Committed.pool)' = pool /\ (Committed.wallet)' = wallet
      /\ (Committed.allowance)' = Committed.allowance
      /\ ledger' = ledger /\ keys' = keys /\ held' = EmptyHands
  BY <1>1, <1>3, CommittedWhenIdle DEF Mint, InDeposit, AllowancesUntouched
<1>5. get_vault_updated = Books!get_vault_updated
  BY <1>1, <1>2, CommittedTypes
     DEF FrameInv, CallInv, InDeposit, BooksUntouched, get_vault_updated, Books!get_vault_updated,
         Books!PoolSupply, Pool
<1>6. Minted = Books!deposit(Books!get_vault_updated, Committed.shares[frame.receiver],
                           frame.amount)
  BY <1>1, <1>5, SameArithmetic DEF Minted, InDeposit, BooksUntouched
<1>7. Books!Deposit(frame.amount, frame.receiver, frame.owner)
  BY <1>1, <1>2, <1>4, <1>5, <1>6
     DEF Books!Deposit, Mint, InDeposit, IsParties, BooksUntouched, Debit, Books!Debit,
         Credit, Books!Credit
<1>8. Books!DepositCall(frame.amount, frame.receiver, frame.owner, frame.operator)
  BY <1>1, <1>3, <1>4, <1>7 DEF Books!DepositCall, InDeposit, keys, Books!keys
<1>9. Books!BlendNext
  BY <1>1, <1>8 DEF Books!BlendNext, Books!PoolCall, InDeposit, IsParties
<1> QED  BY <1>3, <1>4, <1>9 DEF FrameStep, CallInv
-----------------------------------------------------------------------------
(***************************************************************************)
(* An exit.                                                                *)
(***************************************************************************)

\* While an exit runs the pool is the committed one.
LEMMA ExitSeesCommittedRate ==
  ASSUME FrameInv, InExit
  PROVE  /\ Books!get_vault_updated.total_shares = Committed.vault.total_shares
         /\ Books!get_vault_updated.total_b_tokens = Committed.vault.total_b_tokens
         /\ BooksUntouched => get_vault_updated = Books!get_vault_updated
<1>1. BooksUntouched => get_vault_updated = Books!get_vault_updated
  BY DEF InExit, BooksUntouched, PoolUntouched, get_vault_updated, Books!get_vault_updated
<1> QED  BY <1>1, CommittedTypes DEF FrameInv, CallInv, VaultData, Books!get_vault_updated

\* The shares of an exit are burnt; the call goes on.
LEMMA BurnStep ==
  ASSUME FrameInv, Burn
  PROVE  FrameStep
<1>1. InFlight /\ IsFrame /\ InExit /\ frame.call # "none" /\ Head(frame.todo) = "burn"
  BY WhereStatementsStand DEF Burn, At
<1>2. /\ BooksUntouched
      /\ \/ frame.call = "withdraw" /\ frame.todo = <<"burn", "charge", "pay">>
              /\ AllowancesUntouched
         \/ frame.call = "redeem" /\ frame.todo = <<"burn", "pay">> /\ AllowanceCharged
  <2>1. /\ frame.todo # <<"charge", "pay">> /\ frame.todo # <<"charge", "burn", "pay">>
        /\ frame.todo # <<"pay">>
    BY <1>1
  <2> QED  BY <1>1, <2>1 DEF InExit, Todo
<1>3. /\ Len(frame.todo) # 1
      /\ frame.call = "withdraw" => Tail(frame.todo) = <<"charge", "pay">>
      /\ frame.call = "redeem" => Tail(frame.todo) = <<"pay">>
  <2>1. CASE frame.call = "withdraw" /\ frame.todo = <<"burn", "charge", "pay">>
    BY <2>1
  <2>2. CASE frame.call = "redeem" /\ frame.todo = <<"burn", "pay">>
    BY <2>2
  <2> QED  BY <1>2, <2>1, <2>2
<1>4. Burnt = Priced
  BY <1>1, <1>2, ExitSeesCommittedRate DEF Burnt, Priced, BooksUntouched
<1>5. /\ InFlight' /\ IsFrame' /\ Committed' = Committed /\ frame'.todo = Tail(frame.todo)
      /\ frame'.call = frame.call /\ frame'.amount = frame.amount
      /\ frame'.receiver = frame.receiver /\ frame'.result = Priced
      /\ frame'.owner = frame.owner /\ frame'.operator = frame.operator
      /\ UNCHANGED auths
  BY <1>1, <1>3, <1>4, CallGoesOn DEF Burn
<1>6. /\ Priced' = Priced /\ Books!get_vault_updated' = Books!get_vault_updated
      /\ Books!get_allowance(frame.owner, frame.operator)'
           = Books!get_allowance(frame.owner, frame.operator)
  BY <1>5 DEF Burn, Priced, Books!get_vault_updated, Books!get_allowance
<1>7. SharesBurnt'
  BY <1>1, <1>2, <1>4, <1>5, <1>6, ExitSeesCommittedRate
     DEF Burn, SharesBurnt, Debit, BooksUntouched
<1>8. /\ AllowancesUntouched => AllowancesUntouched'
      /\ AllowanceCharged => AllowanceCharged'
  BY <1>5, <1>6 DEF Burn, AllowancesUntouched, AllowanceCharged
<1>9. PoolUntouched' /\ IsParties' /\ held' = EmptyHands /\ EmptyHands' = EmptyHands
  BY <1>1, <1>5 DEF Burn, InExit, PoolUntouched, IsParties, EmptyHands
<1>10. InExit'
  BY <1>1, <1>2, <1>3, <1>5, <1>7, <1>8, <1>9 DEF InExit, Todo
<1>11. UNCHANGED Books!blendVars
  BY <1>5, NothingIsSeen DEF Burn
<1> QED  BY <1>5, <1>10, <1>11 DEF FrameStep, CallInv

\* The allowance is charged what is burnt, before or after the burning.
LEMMA ChargeStep ==
  ASSUME FrameInv, Charge
  PROVE  FrameStep
<1>1. InFlight /\ IsFrame /\ InExit /\ frame.call # "none" /\ Head(frame.todo) = "charge"
  BY WhereStatementsStand DEF Charge, At
<1>2. /\ AllowancesUntouched
      /\ \/ frame.call = "withdraw" /\ frame.todo = <<"charge", "pay">> /\ SharesBurnt
         \/ frame.call = "redeem" /\ frame.todo = <<"charge", "burn", "pay">> /\ BooksUntouched
  <2>1. /\ frame.todo # <<"burn", "pay">> /\ frame.todo # <<"burn", "charge", "pay">>
        /\ frame.todo # <<"pay">>
    BY <1>1
  <2> QED  BY <1>1, <2>1 DEF InExit, Todo
<1>3. /\ Len(frame.todo) # 1
      /\ frame.call = "withdraw" => Tail(frame.todo) = <<"pay">>
      /\ frame.call = "redeem" => Tail(frame.todo) = <<"burn", "pay">>
  <2>1. CASE frame.call = "withdraw" /\ frame.todo = <<"charge", "pay">>
    BY <2>1
  <2>2. CASE frame.call = "redeem" /\ frame.todo = <<"charge", "burn", "pay">>
    BY <2>2
  <2> QED  BY <1>2, <2>1, <2>2
<1>4. SharesToCharge = Priced.shares
  BY <1>2 DEF SharesToCharge, SharesBurnt, Priced, redeem
<1>5. /\ InFlight' /\ IsFrame' /\ Committed' = Committed /\ frame'.todo = Tail(frame.todo)
      /\ frame'.call = frame.call /\ frame'.amount = frame.amount
      /\ frame'.receiver = frame.receiver /\ frame'.result = frame.result
      /\ frame'.owner = frame.owner /\ frame'.operator = frame.operator
      /\ UNCHANGED auths
  BY <1>1, <1>3, CallGoesOn DEF Charge
<1>6. /\ Priced' = Priced /\ Books!get_vault_updated' = Books!get_vault_updated
      /\ Books!get_allowance(frame.owner, frame.operator)'
           = Books!get_allowance(frame.owner, frame.operator)
      /\ get_allowance(frame.owner, frame.operator)
           = Books!get_allowance(frame.owner, frame.operator)
  BY <1>2, <1>5
     DEF Charge, Priced, Books!get_vault_updated, Books!get_allowance, get_allowance, vaultVars,
         AllowancesUntouched
<1>7. AllowanceCharged'
  BY <1>2, <1>4, <1>5, <1>6
     DEF Charge, AllowanceCharged, AllowancesUntouched, spend_operator_allowance, SpendAllowance
<1>8. /\ SharesBurnt => SharesBurnt'
      /\ BooksUntouched => BooksUntouched'
  BY <1>5, <1>6 DEF Charge, SharesBurnt, BooksUntouched, vaultVars, Debit
<1>9. PoolUntouched' /\ IsParties' /\ held' = EmptyHands /\ EmptyHands' = EmptyHands
  BY <1>1, <1>5 DEF Charge, InExit, PoolUntouched, IsParties, EmptyHands, vaultVars
<1>10. InExit'
  BY <1>1, <1>2, <1>3, <1>5, <1>7, <1>8, <1>9 DEF InExit, Todo
<1>11. UNCHANGED Books!blendVars
  BY <1>5, NothingIsSeen DEF Charge, vaultVars
<1> QED  BY <1>5, <1>10, <1>11 DEF FrameStep, CallInv

\* The pool pays at the end, and the exit is seen as a whole.
LEMMA PayStep ==
  ASSUME FrameInv, Pay
  PROVE  FrameStep
<1>1. InFlight /\ IsFrame /\ InExit /\ Head(frame.todo) = "pay"
  BY WhereStatementsStand DEF Pay, At
<1>2. frame.todo = <<"pay">> /\ Len(frame.todo) = 1 /\ SharesBurnt /\ AllowanceCharged
  <2>1. /\ frame.todo # <<"burn", "pay">> /\ frame.todo # <<"burn", "charge", "pay">>
        /\ frame.todo # <<"charge", "pay">> /\ frame.todo # <<"charge", "burn", "pay">>
    BY <1>1
  <2> QED  BY <1>1, <2>1 DEF InExit, Todo
<1>3. ~InFlight' /\ auths' = {frame.operator}
  BY <1>1, <1>2, CallReturns DEF Pay, Authorizers, InExit
<1>4. /\ (Committed.vault)' = vault /\ (Committed.shares)' = shares
      /\ (Committed.pool)' = pool' /\ (Committed.wallet)' = wallet'
      /\ (Committed.allowance)' = allowance
      /\ ledger' = ledger /\ keys' = keys /\ held' = EmptyHands
  BY <1>1, <1>3, CommittedWhenIdle DEF Pay, InExit
<1>5. /\ PoolBurn(frame.result.underlying) = Books!PoolBurn(Priced.underlying)
      /\ PoolWithdraw(frame.result.underlying) = Books!PoolWithdraw(Priced.underlying)
      /\ PoolPays(frame.result.underlying) = Books!PoolPays(Priced.underlying)
  BY <1>1, <1>2
     DEF InExit, PoolUntouched, SharesBurnt, PoolBurn, PoolWithdraw, PoolPays,
         Books!PoolBurn, Books!PoolWithdraw, Books!PoolPays, CeilDiv, Books!CeilDiv,
         FloorDiv, Books!FloorDiv
<1>6. Books!Exit(Priced, frame.receiver, frame.owner)
  BY <1>1, <1>2, <1>4, <1>5
     DEF Books!Exit, Pay, InExit, PoolUntouched, SharesBurnt, Debit, Books!Debit,
         Credit, Books!Credit
<1>7. Books!spend_operator_allowance(frame.owner, frame.operator, Priced.shares)
  BY <1>2, <1>4
     DEF Books!spend_operator_allowance, Books!SpendAllowance, AllowanceCharged,
         AllowancesUntouched
<1>8. CASE frame.call = "withdraw"
  <2>1. Priced = Books!withdraw(Books!get_vault_updated, Committed.shares[frame.owner],
                                frame.amount)
    BY <1>8, SameArithmetic DEF Priced
  <2>2. Books!Withdraw(frame.amount, frame.receiver, frame.owner)
    BY <1>1, <1>6, <2>1 DEF Books!Withdraw, InExit, IsParties
  <2>3. Committed.shares[frame.owner] - (Committed.shares)'[frame.owner] = Priced.shares
    <3>1. Priced.shares \in Int
      <4>1. Priced = withdraw(Books!get_vault_updated, Committed.shares[frame.owner], frame.amount)
        BY <1>8 DEF Priced
      <4>2. /\ frame.amount \in Positive /\ Committed.shares[frame.owner] \in Nat
            /\ Books!get_vault_updated \in VaultData /\ Priced.accepted
        BY <1>1, <1>2, CommittedTypes, AmountsAssumption
           DEF FrameInv, CallInv, InExit, IsParties, Positive, SharesBurnt
      <4>3. IsProRataExit(Books!get_vault_updated, Committed.shares[frame.owner], Priced)
        BY <4>1, <4>2, WithdrawIsProRata
      <4> QED  BY <4>3, <4>2 DEF IsProRataExit
    <3>2. /\ (Committed.shares)' = Debit(Committed.shares, frame.owner, Priced.shares)
          /\ Committed.shares \in [Users -> Nat] /\ frame.owner \in Users
      BY <1>1, <1>2, <1>4, CommittedTypes DEF FrameInv, CallInv, SharesBurnt, InExit, IsParties
    <3> HIDE DEF Priced
    <3> QED  BY <3>1, <3>2 DEF Debit
  <2>4. Books!WithdrawCall(frame.amount, frame.receiver, frame.owner, frame.operator)
    BY <1>3, <1>4, <1>7, <2>2, <2>3 DEF Books!WithdrawCall, keys, Books!keys
  <2>5. Books!BlendNext
    BY <1>1, <2>4 DEF Books!BlendNext, Books!PoolCall, InExit, IsParties
  <2> QED  BY <1>3, <1>4, <2>5 DEF FrameStep, CallInv
<1>9. CASE frame.call = "redeem"
  <2>1. Priced = Books!redeem(Books!get_vault_updated, Committed.shares[frame.owner], frame.amount)
    BY <1>9, SameArithmetic DEF Priced
  <2>2. Books!Redeem(frame.amount, frame.receiver, frame.owner)
    BY <1>1, <1>6, <2>1 DEF Books!Redeem, InExit, IsParties
  <2>3. Priced.shares = frame.amount
    BY <1>9 DEF Priced, redeem
  <2>4. Books!RedeemCall(frame.amount, frame.receiver, frame.owner, frame.operator)
    BY <1>3, <1>4, <1>7, <2>2, <2>3 DEF Books!RedeemCall, keys, Books!keys
  <2>5. Books!BlendNext
    BY <1>1, <2>4 DEF Books!BlendNext, Books!PoolCall, InExit, IsParties
  <2> QED  BY <1>3, <1>4, <2>5 DEF FrameStep, CallInv
<1> QED  BY <1>1, <1>8, <1>9 DEF InExit
-----------------------------------------------------------------------------
(***************************************************************************)
(* A harvest.                                                              *)
(***************************************************************************)

\* How far a harvest has come, at each of its statements.
LEMMA HarvestStages ==
  ASSUME InHarvest, InFlight
  PROVE  /\ At("claim") =>
              /\ frame.todo = <<"claim", "approve", "swap", "resupply", "read_back">>
              /\ pool = Committed.pool /\ held = EmptyHands
         /\ At("approve") \/ At("swap") \/ At("resupply") =>
              /\ Committed.pool.blnd
              /\ pool = [Committed.pool EXCEPT !.blnd = FALSE]
         /\ At("approve") =>
              /\ frame.todo = <<"approve", "swap", "resupply", "read_back">>
              /\ held = [blnd |-> BlndClaimed, approved |-> 0, asset |-> 0]
         /\ At("swap") =>
              /\ frame.todo = <<"swap", "resupply", "read_back">>
              /\ held = [blnd |-> BlndClaimed, approved |-> BlndClaimed, asset |-> 0]
         /\ At("resupply") =>
              /\ frame.todo = <<"resupply", "read_back">>
              /\ frame.result \in SwapOuts
              /\ held = [blnd |-> 0, approved |-> 0, asset |-> frame.result]
         /\ At("read_back") =>
              /\ frame.todo = <<"read_back">>
              /\ held = EmptyHands /\ Committed.pool.blnd /\ Committed.pool.b_rate > 0
              /\ \E received \in SwapOuts :
                   /\ Books!PoolMint(received) >= MinBTokens
                   /\ pool = [Books!PoolSupply(received) EXCEPT !.blnd = FALSE]
<1>1. CASE Todo(<<"claim", "approve", "swap", "resupply", "read_back">>)
  BY <1>1 DEF InHarvest, Todo, At
<1>2. CASE Todo(<<"approve", "swap", "resupply", "read_back">>)
  BY <1>2 DEF InHarvest, Todo, At
<1>3. CASE Todo(<<"swap", "resupply", "read_back">>)
  BY <1>3 DEF InHarvest, Todo, At
<1>4. CASE Todo(<<"resupply", "read_back">>)
  BY <1>4 DEF InHarvest, Todo, At
<1>5. CASE Todo(<<"read_back">>)
  BY <1>5 DEF InHarvest, Todo, At
<1> QED  BY <1>1, <1>2, <1>3, <1>4, <1>5 DEF InHarvest

\* A harvest whose books, allowances and wallets are still untouched.
LEMMA HarvestGoesOn ==
  ASSUME FrameInv, InHarvest, InFlight, IsFrame, NEW result, Advance(result),
         Len(frame.todo) # 1,
         UNCHANGED <<vault, shares, wallet, ledger, allowance, keys>>
  PROVE  /\ InFlight' /\ IsFrame' /\ Committed' = Committed
         /\ frame'.todo = Tail(frame.todo) /\ frame'.result = result
         /\ frame'.call = "claim" /\ router_set'
         /\ BooksUntouched' /\ AllowancesUntouched' /\ wallet' = (Committed.wallet)'
         /\ UNCHANGED Books!blendVars
<1>1. /\ InFlight' /\ IsFrame' /\ Committed' = Committed
      /\ frame'.todo = Tail(frame.todo) /\ frame'.result = result
      /\ frame'.call = frame.call /\ UNCHANGED auths
  BY CallGoesOn DEF InHarvest
<1>2. router_set' /\ BooksUntouched' /\ AllowancesUntouched' /\ wallet' = (Committed.wallet)'
  BY <1>1 DEF InHarvest, BooksUntouched, AllowancesUntouched, keys
<1>3. UNCHANGED Books!blendVars
  BY <1>1, NothingIsSeen
<1> QED  BY <1>1, <1>2, <1>3 DEF InHarvest

\* BLND is claimed, or there is none and the call returns unseen.
LEMMA ClaimStep ==
  ASSUME FrameInv, Claim
  PROVE  FrameStep
<1>1. InFlight /\ IsFrame /\ InHarvest /\ At("claim")
  BY WhereStatementsStand DEF Claim, At
<1>2. /\ frame.todo = <<"claim", "approve", "swap", "resupply", "read_back">>
      /\ pool = Committed.pool /\ held = EmptyHands
  BY <1>1, HarvestStages
<1>3. CASE pool.blnd
  <2>1. /\ Len(frame.todo) # 1
        /\ Tail(frame.todo) = <<"approve", "swap", "resupply", "read_back">>
    BY <1>2
  <2>2. /\ InFlight' /\ IsFrame' /\ Committed' = Committed /\ frame'.todo = Tail(frame.todo)
        /\ frame'.call = "claim" /\ router_set'
        /\ BooksUntouched' /\ AllowancesUntouched' /\ wallet' = (Committed.wallet)'
        /\ UNCHANGED Books!blendVars
    BY <1>1, <1>3, <2>1, HarvestGoesOn DEF Claim
  <2>3. /\ pool' = [Committed.pool EXCEPT !.blnd = FALSE] /\ Committed.pool.blnd
        /\ held' = [blnd |-> BlndClaimed, approved |-> 0, asset |-> 0]
    BY <1>2, <1>3 DEF Claim, EmptyHands, BlndClaimed
  <2>4. InHarvest'
    BY <2>1, <2>2, <2>3 DEF InHarvest, Todo, BlndClaimed
  <2> QED  BY <2>2, <2>4 DEF FrameStep, CallInv
<1>4. CASE ~pool.blnd
  <2>1. ~InFlight' /\ held' = EmptyHands
    BY <1>2, <1>4 DEF Claim, InFlight
  <2>2. /\ vault' = Committed.vault /\ shares' = Committed.shares /\ pool' = Committed.pool
        /\ wallet' = Committed.wallet /\ allowance' = Committed.allowance
        /\ ledger' = ledger /\ keys' = keys /\ auths' = auths
    BY <1>1, <1>2, <1>4 DEF Claim, InHarvest, BooksUntouched, AllowancesUntouched
  <2>3. UNCHANGED Books!blendVars
    BY <2>1, <2>2, CommittedWhenIdle DEF Books!blendVars, keys
  <2> QED  BY <2>1, <2>3 DEF FrameStep, CallInv
<1> QED  BY <1>3, <1>4

\* The router may take the BLND claimed.
LEMMA ApproveRouterStep ==
  ASSUME FrameInv, ApproveRouter
  PROVE  FrameStep
<1>1. InFlight /\ IsFrame /\ InHarvest /\ At("approve")
  BY WhereStatementsStand DEF ApproveRouter, At
<1>2. /\ frame.todo = <<"approve", "swap", "resupply", "read_back">>
      /\ Committed.pool.blnd /\ pool = [Committed.pool EXCEPT !.blnd = FALSE]
      /\ held = [blnd |-> BlndClaimed, approved |-> 0, asset |-> 0]
  BY <1>1, HarvestStages
<1>3. Len(frame.todo) # 1 /\ Tail(frame.todo) = <<"swap", "resupply", "read_back">>
  BY <1>2
<1>4. /\ InFlight' /\ IsFrame' /\ Committed' = Committed /\ frame'.todo = Tail(frame.todo)
      /\ frame'.call = "claim" /\ router_set'
      /\ BooksUntouched' /\ AllowancesUntouched' /\ wallet' = (Committed.wallet)'
      /\ UNCHANGED Books!blendVars
  BY <1>1, <1>3, HarvestGoesOn DEF ApproveRouter, vaultVars
<1>5. /\ pool' = pool
      /\ held' = [blnd |-> BlndClaimed, approved |-> BlndClaimed, asset |-> 0]
  BY <1>2 DEF ApproveRouter, vaultVars
<1>6. InHarvest'
  BY <1>2, <1>3, <1>4, <1>5 DEF InHarvest, Todo, BlndClaimed
<1> QED  BY <1>4, <1>6 DEF FrameStep, CallInv

\* The router takes the BLND and pays for it.
LEMMA SwapStep ==
  ASSUME FrameInv, Swap
  PROVE  FrameStep
<1>1. InFlight /\ IsFrame /\ InHarvest /\ At("swap")
  BY WhereStatementsStand DEF Swap, At
<1>2. /\ frame.todo = <<"swap", "resupply", "read_back">>
      /\ Committed.pool.blnd /\ pool = [Committed.pool EXCEPT !.blnd = FALSE]
      /\ held = [blnd |-> BlndClaimed, approved |-> BlndClaimed, asset |-> 0]
  BY <1>1, HarvestStages
<1>3. Len(frame.todo) # 1 /\ Tail(frame.todo) = <<"resupply", "read_back">>
  BY <1>2
<1>4. PICK received \in SwapOuts :
        /\ held' = [blnd     |-> held.blnd - BlndClaimed,
                    approved |-> held.approved - BlndClaimed,
                    asset    |-> held.asset + received]
        /\ Advance(received)
  BY DEF Swap
<1>5. /\ InFlight' /\ IsFrame' /\ Committed' = Committed /\ frame'.todo = Tail(frame.todo)
      /\ frame'.call = "claim" /\ router_set' /\ frame'.result = received
      /\ BooksUntouched' /\ AllowancesUntouched' /\ wallet' = (Committed.wallet)'
      /\ UNCHANGED Books!blendVars
  BY <1>1, <1>3, <1>4, HarvestGoesOn DEF Swap, vaultVars
<1>6. pool' = pool /\ held' = [blnd |-> 0, approved |-> 0, asset |-> received]
  BY <1>2, <1>4, SwapOutsAssumption DEF Swap, vaultVars, BlndClaimed
<1>7. InHarvest'
  BY <1>2, <1>3, <1>5, <1>6 DEF InHarvest, Todo
<1> QED  BY <1>5, <1>7 DEF FrameStep, CallInv

\* What the router paid goes to the pool, and no token stays behind.
LEMMA ResupplyStep ==
  ASSUME FrameInv, Resupply
  PROVE  FrameStep
<1>1. InFlight /\ IsFrame /\ InHarvest /\ At("resupply")
  BY WhereStatementsStand DEF Resupply, At
<1>2. /\ frame.todo = <<"resupply", "read_back">>
      /\ Committed.pool.blnd /\ pool = [Committed.pool EXCEPT !.blnd = FALSE]
      /\ frame.result \in SwapOuts
      /\ held = [blnd |-> 0, approved |-> 0, asset |-> frame.result]
  BY <1>1, HarvestStages
<1>3. Len(frame.todo) # 1 /\ Tail(frame.todo) = <<"read_back">>
  BY <1>2
<1>4. /\ InFlight' /\ IsFrame' /\ Committed' = Committed /\ frame'.todo = Tail(frame.todo)
      /\ frame'.call = "claim" /\ router_set'
      /\ BooksUntouched' /\ AllowancesUntouched' /\ wallet' = (Committed.wallet)'
      /\ UNCHANGED Books!blendVars
  BY <1>1, <1>3, HarvestGoesOn DEF Resupply
<1>5. Committed.pool \in Pool
  BY CommittedTypes DEF FrameInv, CallInv
<1>6. /\ pool.b_rate = Committed.pool.b_rate /\ pool.position = Committed.pool.position
      /\ PoolMint(frame.result) = Books!PoolMint(frame.result)
  BY <1>2, <1>5 DEF Pool, PoolMint, Books!PoolMint, FloorDiv, Books!FloorDiv
<1>7. pool' = [Books!PoolSupply(frame.result) EXCEPT !.blnd = FALSE]
  BY <1>2, <1>5, <1>6 DEF Resupply, PoolSupply, Books!PoolSupply, Pool
<1>8. held' = EmptyHands
  BY <1>2, SwapOutsAssumption DEF Resupply, EmptyHands
<1>9. PICK received \in SwapOuts : received = frame.result
  BY <1>2
<1>10. /\ Books!PoolMint(received)' = Books!PoolMint(received)
       /\ Books!PoolSupply(received)' = Books!PoolSupply(received)
  BY <1>4 DEF Books!PoolMint, Books!PoolSupply
<1>11. /\ (Committed.pool.b_rate)' > 0 /\ (Committed.pool.blnd)'
       /\ Books!PoolMint(received)' >= MinBTokens
       /\ pool' = [Books!PoolSupply(received)' EXCEPT !.blnd = FALSE]
  BY <1>2, <1>4, <1>6, <1>7, <1>9, <1>10 DEF Resupply
<1>12. InHarvest'
  BY <1>3, <1>4, <1>8, <1>11 DEF InHarvest, Todo, EmptyHands
<1> QED  BY <1>4, <1>12 DEF FrameStep, CallInv

\* Reading the position back ends the harvest, which is seen as a whole.
LEMMA ReadBackStep ==
  ASSUME FrameInv, ReadBack
  PROVE  FrameStep
<1>1. InFlight /\ IsFrame /\ InHarvest /\ At("read_back")
  BY WhereStatementsStand DEF ReadBack, At
<1>2. /\ frame.todo = <<"read_back">> /\ Len(frame.todo) = 1
      /\ held = EmptyHands /\ Committed.pool.blnd /\ Committed.pool.b_rate > 0
      /\ \E received \in SwapOuts :
           /\ Books!PoolMint(received) >= MinBTokens
           /\ pool = [Books!PoolSupply(received) EXCEPT !.blnd = FALSE]
  BY <1>1, HarvestStages
<1>3. ~InFlight' /\ auths' = {} /\ held' = EmptyHands
  BY <1>1, <1>2, CallReturns DEF ReadBack, Authorizers, InHarvest, EmptyHands
<1>4. /\ (Committed.vault)' = vault' /\ (Committed.shares)' = Committed.shares
      /\ (Committed.pool)' = pool /\ (Committed.wallet)' = Committed.wallet
      /\ (Committed.allowance)' = Committed.allowance
      /\ ledger' = ledger /\ keys' = keys
  BY <1>1, <1>3, CommittedWhenIdle DEF ReadBack, InHarvest, BooksUntouched, AllowancesUntouched
<1>5. PICK received \in SwapOuts :
        /\ Books!PoolMint(received) >= MinBTokens
        /\ pool = [Books!PoolSupply(received) EXCEPT !.blnd = FALSE]
  BY <1>2
<1>6. Committed.pool \in Pool
  BY CommittedTypes DEF FrameInv, CallInv
<1>7. /\ pool.b_rate = Committed.pool.b_rate
      /\ pool.position = Committed.pool.position + Books!PoolMint(received)
  BY <1>5, <1>6 DEF Books!PoolSupply, Pool
<1>8. get_vault_updated = Books!get_vault_updated
  BY <1>1, <1>7 DEF InHarvest, BooksUntouched, get_vault_updated, Books!get_vault_updated
<1>9. Books!HarvestEmissions(received)
  BY <1>2, <1>4, <1>5, <1>7, <1>8 DEF Books!HarvestEmissions, ReadBack, Fits, Books!Fits
<1>10. Books!ClaimEmissions(received)
  BY <1>1, <1>3, <1>4, <1>9 DEF Books!ClaimEmissions, InHarvest, keys, Books!keys
<1>11. Books!BlendNext
  BY <1>10 DEF Books!BlendNext, Books!PoolCall
<1> QED  BY <1>3, <1>11 DEF FrameStep, CallInv
-----------------------------------------------------------------------------
(***************************************************************************)
(* Between the calls that leave the contract.                              *)
(***************************************************************************)

\* A call that stays inside the contract is seen as what it is:
\* transfers and approvals,
LEMMA TokenCallIsSeen ==
  ASSUME ~InFlight, ~InFlight', TokenCall
  PROVE  Books!TokenCall
<1>1. ASSUME NEW d \in Delegations, NEW amount \in ApproveAmounts,
             NEW expiration_ledger \in Expirations,
             Approve(d[1], d[2], amount, expiration_ledger)
      PROVE  Books!Approve(d[1], d[2], amount, expiration_ledger)
  BY <1>1, CommittedWhenIdle
     DEF Approve, Books!Approve, vaultVars, Books!vaultVars, keys, Books!keys
<1>2. ASSUME NEW from, NEW to, NEW amount, MoveShares(from, to, amount)
      PROVE  Books!MoveShares(from, to, amount)
  BY <1>2, CommittedWhenIdle DEF MoveShares, Books!MoveShares, Fits, Books!Fits
<1>3. ASSUME NEW from, NEW to, NEW amount, Transfer(from, to, amount)
      PROVE  Books!Transfer(from, to, amount)
  BY <1>2, <1>3, CommittedWhenIdle DEF Transfer, Books!Transfer, keys, Books!keys
<1>4. ASSUME NEW spender, NEW from, NEW to, NEW amount,
             TransferFrom(spender, from, to, amount)
      PROVE  Books!TransferFrom(spender, from, to, amount)
  <2>1. Books!SpendAllowance(from, spender, amount)
    BY <1>4, CommittedWhenIdle
       DEF TransferFrom, SpendAllowance, Books!SpendAllowance, get_allowance, Books!get_allowance
  <2> QED  BY <1>2, <1>4, <2>1 DEF TransferFrom, Books!TransferFrom, keys, Books!keys
<1> QED  BY <1>1, <1>3, <1>4 DEF TokenCall, Books!TokenCall

\* administrative calls,
LEMMA AdminCallIsSeen ==
  ASSUME ~InFlight, ~InFlight', AdminCall
  PROVE  Books!AdminCall
<1>1. UNCHANGED vaultVars /\ UNCHANGED allowance
      => UNCHANGED Books!vaultVars /\ UNCHANGED Committed.allowance
  BY CommittedWhenIdle DEF vaultVars, Books!vaultVars
<1> QED
  BY <1>1 DEF AdminCall, Books!AdminCall, SetAdmin, Books!SetAdmin, SetSigner, Books!SetSigner,
              SetRouter, Books!SetRouter

\* and the closing of a ledger.
LEMMA TickIsSeen ==
  ASSUME ~InFlight, ~InFlight', Tick
  PROVE  Books!Tick
<1>1. Books!CloseLedger
  BY CommittedWhenIdle DEF Tick, CloseLedger, Books!CloseLedger
<1> QED  BY <1>1, CommittedWhenIdle DEF Tick, Books!Tick, keys, Books!keys

\* What happens between calls keeps the invariant.
LEMMA BetweenStep ==
  ASSUME FrameInv, Between
  PROVE  FrameStep
<1>1. ~InFlight /\ ~InFlight' /\ held' = EmptyHands
  BY DEF Between, InFlight, FrameInv, CallInv
<1>2. Books!BlendNext
  BY <1>1, TokenCallIsSeen, AdminCallIsSeen, TickIsSeen DEF Between, Books!BlendNext
<1> QED  BY <1>1, <1>2 DEF FrameStep, CallInv
-----------------------------------------------------------------------------
(***************************************************************************)
(* The results.                                                            *)
(***************************************************************************)

\* Every step keeps the state of the call, and is seen as a step of BlendVault.
LEMMA FrameNextIsSeen ==
  ASSUME FrameInv, [FrameNext]_frameVars
  PROVE  FrameStep
<1>1. ASSUME NEW amount \in Amounts, NEW receiver \in Users, NEW from \in Users,
             NEW operator \in Users, EnterDeposit(amount, receiver, from, operator)
      PROVE  FrameStep
  BY <1>1, EnterDepositStep
<1>2. ASSUME NEW amount \in Amounts, NEW receiver \in Users, NEW owner \in Users,
             NEW operator \in Users,
             \/ EnterWithdraw(amount, receiver, owner, operator)
             \/ EnterRedeem(amount, receiver, owner, operator)
      PROVE  FrameStep
  BY <1>2, EnterWithdrawStep, EnterRedeemStep
<1>3. ASSUME NEW amount_out_min \in SlippageFloors, EnterClaim(amount_out_min)
      PROVE  FrameStep
  BY <1>3, EnterClaimStep
<1>4. CASE Statement
  BY <1>4, SupplyStep, MintStep, BurnStep, ChargeStep, PayStep, ClaimStep, ApproveRouterStep,
     SwapStep, ResupplyStep, ReadBackStep DEF Statement
<1>5. CASE Revert
  BY <1>5, RevertStep
<1>6. CASE Between
  BY <1>6, BetweenStep
<1>7. CASE UNCHANGED frameVars
  <2>1. /\ frame' = frame /\ held' = held /\ vault' = vault /\ shares' = shares /\ pool' = pool
        /\ wallet' = wallet /\ ledger' = ledger /\ allowance' = allowance /\ admin' = admin
        /\ signer' = signer /\ router_set' = router_set /\ auths' = auths
    BY <1>7 DEF frameVars, blendVars
  <2>2. Committed' = Committed /\ (InFlight' <=> InFlight)
    BY <2>1 DEF Committed, InFlight, Snapshot
  <2>3. UNCHANGED Books!blendVars
    BY <2>1, <2>2 DEF Books!blendVars
  <2>4. InDeposit => InDeposit'
    BY <2>1, <2>2
       DEF InDeposit, IsParties, BooksUntouched, PoolUntouched, AllowancesUntouched, Todo,
           Books!PoolSupply, Books!PoolMint, Debit, EmptyHands
  <2>5. /\ Priced' = Priced /\ Books!get_vault_updated' = Books!get_vault_updated
        /\ Books!get_allowance(frame.owner, frame.operator)'
             = Books!get_allowance(frame.owner, frame.operator)
    BY <2>1, <2>2 DEF Priced, Books!get_vault_updated, Books!get_allowance
  <2>6. /\ SharesBurnt => SharesBurnt'
        /\ AllowanceCharged => AllowanceCharged'
    BY <2>1, <2>2, <2>5 DEF SharesBurnt, AllowanceCharged, AllowancesUntouched, Debit
  <2>7. InExit => InExit'
    BY <2>1, <2>2, <2>6
       DEF InExit, IsParties, BooksUntouched, PoolUntouched, AllowancesUntouched, Todo, EmptyHands
  <2>8. InHarvest => InHarvest'
    BY <2>1, <2>2
       DEF InHarvest, BooksUntouched, AllowancesUntouched, Todo, EmptyHands, BlndClaimed,
           Books!PoolSupply, Books!PoolMint
  <2>9. IsFrame => IsFrame'
    BY <2>1 DEF IsFrame, EmptyHands
  <2>10. CallInv'
    BY <2>1, <2>2, <2>4, <2>7, <2>8, <2>9 DEF CallInv, FrameInv, EmptyHands
  <2> QED  BY <2>3, <2>10 DEF FrameStep
<1> QED  BY <1>1, <1>2, <1>3, <1>4, <1>5, <1>6, <1>7 DEF FrameNext, EnterCall

\* The lemmas of BlendVaultProofs about BlendInv, for the committed state.
LEMMA CommittedBlendInv ==
  /\ Books!BlendInit => Books!BlendInv
  /\ Books!BlendInv /\ [Books!BlendNext]_(Books!blendVars) => Books!BlendInv'
<1>1. Books!IsFiniteSet(Users)
  BY UsersAssumption DEF IsFiniteSet, Books!IsFiniteSet
<1>2. Books!BlendInit => Books!BlendInv
  BY <1>1, Books!InitEstablishesBlendInv, ScalarAssumption, MaxI128Assumption, RatesAssumption,
     AmountsAssumption, SwapOutsAssumption, InitialWalletAssumption, MinBTokensAssumption,
     MaxLedgerAssumption, DelegationsAssumption, ApproveAmountsAssumption,
     ExpirationsAssumption, NoSignerAssumption
<1>3. Books!BlendInv /\ [Books!BlendNext]_(Books!blendVars) => Books!BlendInv'
  BY <1>1, Books!NextKeepsBlendInv, ScalarAssumption, MaxI128Assumption, RatesAssumption,
     AmountsAssumption, SwapOutsAssumption, InitialWalletAssumption, MinBTokensAssumption,
     MaxLedgerAssumption, DelegationsAssumption, ApproveAmountsAssumption,
     ExpirationsAssumption, NoSignerAssumption
<1> QED  BY <1>2, <1>3

\* The contract starts between calls.
LEMMA FrameInitIsSeen ==
  ASSUME FrameInit
  PROVE  FrameInv /\ Books!BlendInit
<1>1. ~InFlight /\ held = EmptyHands /\ BlendInit
  BY DEF FrameInit, InFlight
<1>2. Books!BlendInit
  BY <1>1, CommittedWhenIdle DEF BlendInit, Books!BlendInit, VaultInit, Books!VaultInit
<1> QED  BY <1>1, <1>2, CommittedBlendInv DEF FrameInv, CallInv

\* FrameInv holds in every reachable state.
THEOREM FrameInvariant == FrameSpec => []FrameInv
<1>1. FrameInit => FrameInv
  BY FrameInitIsSeen
<1>2. FrameInv /\ [FrameNext]_frameVars => FrameInv'
  <2>1. ASSUME FrameInv, [FrameNext]_frameVars
        PROVE  FrameInv'
    <3>1. CallInv' /\ [Books!BlendNext]_(Books!blendVars)
      BY <2>1, FrameNextIsSeen DEF FrameStep
    <3>2. Books!BlendInv'
      BY <2>1, <3>1, CommittedBlendInv DEF FrameInv, CallInv
    <3> QED  BY <3>1, <3>2 DEF FrameInv, CallInv
  <2> QED  BY <2>1
<1> QED  BY <1>1, <1>2, PTL DEF FrameSpec

\* Books and Contract name the same specification.
LEMMA BooksAreTheContract ==
  /\ Books!BlendInit => Contract!BlendInit
  /\ [Books!BlendNext]_(Books!blendVars) => [Contract!BlendNext]_(Contract!blendVars)
<1>1. Books!BlendInit => Contract!BlendInit
  BY DEF Books!BlendInit, Contract!BlendInit, Books!VaultInit, Contract!VaultInit
<1>2. UNCHANGED Books!blendVars => UNCHANGED Contract!blendVars
  BY DEF Books!blendVars, Contract!blendVars
<1>3. Books!TokenCall => Contract!TokenCall
  BY Zenon
     DEF Books!TokenCall, Contract!TokenCall, Books!Approve, Contract!Approve,
         Books!Transfer, Contract!Transfer, Books!TransferFrom, Contract!TransferFrom,
         Books!MoveShares, Contract!MoveShares, Books!SpendAllowance, Contract!SpendAllowance,
         Books!get_allowance, Contract!get_allowance, Books!Fits, Contract!Fits,
         Books!vaultVars, Contract!vaultVars, Books!keys, Contract!keys
<1>4. Books!AdminCall => Contract!AdminCall
  BY Zenon
     DEF Books!AdminCall, Contract!AdminCall, Books!SetAdmin, Contract!SetAdmin,
         Books!SetSigner, Contract!SetSigner, Books!SetRouter, Contract!SetRouter,
         Books!vaultVars, Contract!vaultVars
<1>5. Books!Tick => Contract!Tick
  BY Zenon DEF Books!Tick, Contract!Tick, Books!CloseLedger, Contract!CloseLedger,
               Books!keys, Contract!keys
<1>6. Books!PoolCall => Contract!PoolCall
  <2>1. ASSUME NEW v, NEW balance, NEW amount
        PROVE  /\ Books!deposit(v, balance, amount) = Contract!deposit(v, balance, amount)
               /\ Books!withdraw(v, balance, amount) = Contract!withdraw(v, balance, amount)
               /\ Books!redeem(v, balance, amount) = Contract!redeem(v, balance, amount)
    BY Zenon
       DEF Books!deposit, Contract!deposit, Books!withdraw, Contract!withdraw,
           Books!redeem, Contract!redeem, Books!IsUnpriced, Contract!IsUnpriced,
           Books!Fits, Contract!Fits, Books!FloorDiv, Contract!FloorDiv,
           Books!CeilDiv, Contract!CeilDiv,
           Books!underlying_to_b_tokens_down, Contract!underlying_to_b_tokens_down,
           Books!underlying_to_b_tokens_up, Contract!underlying_to_b_tokens_up,
           Books!b_tokens_to_shares_down, Contract!b_tokens_to_shares_down,
           Books!b_tokens_to_shares_up, Contract!b_tokens_to_shares_up,
           Books!b_tokens_to_underlying_down, Contract!b_tokens_to_underlying_down,
           Books!shares_to_b_tokens_down, Contract!shares_to_b_tokens_down,
           Books!shares_to_underlying_down, Contract!shares_to_underlying_down,
           Books!underlying_to_b_tokens_returns, Contract!underlying_to_b_tokens_returns,
           Books!b_tokens_to_shares_returns, Contract!b_tokens_to_shares_returns,
           Books!b_tokens_to_underlying_returns, Contract!b_tokens_to_underlying_returns,
           Books!shares_to_b_tokens_returns, Contract!shares_to_b_tokens_returns,
           Books!quote_returns, Contract!quote_returns
  <2>2. ASSUME NEW amount
        PROVE  /\ Books!PoolMint(amount) = Contract!PoolMint(amount)
               /\ Books!PoolBurn(amount) = Contract!PoolBurn(amount)
               /\ Books!PoolSupply(amount) = Contract!PoolSupply(amount)
               /\ Books!PoolWithdraw(amount) = Contract!PoolWithdraw(amount)
               /\ Books!PoolPays(amount) = Contract!PoolPays(amount)
    BY Zenon
       DEF Books!PoolMint, Contract!PoolMint, Books!PoolBurn, Contract!PoolBurn,
           Books!PoolSupply, Contract!PoolSupply, Books!PoolWithdraw, Contract!PoolWithdraw,
           Books!PoolPays, Contract!PoolPays, Books!FloorDiv, Contract!FloorDiv,
           Books!CeilDiv, Contract!CeilDiv
  <2>3. Books!get_vault_updated = Contract!get_vault_updated
    BY Zenon DEF Books!get_vault_updated, Contract!get_vault_updated
  <2>4. ASSUME NEW amount, NEW receiver, NEW from, NEW operator,
               Books!DepositCall(amount, receiver, from, operator)
        PROVE  Contract!DepositCall(amount, receiver, from, operator)
    <3>1. Books!deposit(Books!get_vault_updated, Committed.shares[receiver], amount)
            = Contract!deposit(Contract!get_vault_updated, Committed.shares[receiver], amount)
      BY <2>1, <2>3
    <3>2. Books!Deposit(amount, receiver, from)
      BY <2>4 DEF Books!DepositCall
    <3>3. Contract!Deposit(amount, receiver, from)
      BY <2>2, <2>3, <3>1, <3>2
         DEF Books!Deposit, Contract!Deposit, Books!Credit, Contract!Credit,
             Books!Debit, Contract!Debit
    <3> QED
      BY <2>4, <3>3 DEF Books!DepositCall, Contract!DepositCall, Books!keys, Contract!keys
  <2>5. ASSUME NEW burnt, NEW receiver, NEW owner, Books!Exit(burnt, receiver, owner)
        PROVE  Contract!Exit(burnt, receiver, owner)
    BY <2>2, <2>3, <2>5
       DEF Books!Exit, Contract!Exit, Books!Credit, Contract!Credit, Books!Debit, Contract!Debit
  <2>6. ASSUME NEW owner, NEW operator, NEW burnt,
               Books!spend_operator_allowance(owner, operator, burnt)
        PROVE  Contract!spend_operator_allowance(owner, operator, burnt)
    BY <2>6
       DEF Books!spend_operator_allowance, Contract!spend_operator_allowance,
           Books!SpendAllowance, Contract!SpendAllowance,
           Books!get_allowance, Contract!get_allowance
  <2>7. ASSUME NEW amount, NEW receiver, NEW owner, NEW operator,
               Books!WithdrawCall(amount, receiver, owner, operator)
        PROVE  Contract!WithdrawCall(amount, receiver, owner, operator)
    BY <2>1, <2>3, <2>5, <2>6, <2>7
       DEF Books!WithdrawCall, Contract!WithdrawCall, Books!Withdraw, Contract!Withdraw,
           Books!keys, Contract!keys
  <2>8. ASSUME NEW amount, NEW receiver, NEW owner, NEW operator,
               Books!RedeemCall(amount, receiver, owner, operator)
        PROVE  Contract!RedeemCall(amount, receiver, owner, operator)
    BY <2>1, <2>3, <2>5, <2>6, <2>8
       DEF Books!RedeemCall, Contract!RedeemCall, Books!Redeem, Contract!Redeem,
           Books!keys, Contract!keys
  <2>9. ASSUME NEW received, Books!ClaimEmissions(received)
        PROVE  Contract!ClaimEmissions(received)
    BY <2>2, <2>3, <2>9
       DEF Books!ClaimEmissions, Contract!ClaimEmissions, Books!HarvestEmissions,
           Contract!HarvestEmissions, Books!Fits, Contract!Fits, Books!keys, Contract!keys
  <2> QED  BY <2>4, <2>7, <2>8, <2>9 DEF Books!PoolCall, Contract!PoolCall
<1> QED  BY <1>1, <1>2, <1>3, <1>4, <1>5, <1>6 DEF Books!BlendNext, Contract!BlendNext

\* A deposit, an exit or a harvest that leaves the contract several times and
\* may be refused each time does what BlendVault says, or nothing
\* (contract.rs:310-467): every behaviour, call by call, is one of BlendSpec.
THEOREM CallsAreAllOrNothing == FrameSpec => AllOrNothing
<1>1. FrameInit => Contract!BlendInit
  BY FrameInitIsSeen, BooksAreTheContract
<1>2. FrameInv /\ [FrameNext]_frameVars => [Contract!BlendNext]_(Contract!blendVars)
  BY FrameNextIsSeen, BooksAreTheContract DEF FrameStep
<1> QED
  BY <1>1, <1>2, FrameInvariant, PTL DEF FrameSpec, AllOrNothing, Contract!BlendSpec

\* In the middle of a call the vault claims at most what the pool holds.
LEMMA BooksFollowThePool == ASSUME FrameInv PROVE BooksNeverLead
<1> DEFINE B == Committed.vault.total_b_tokens
<1>1. /\ B \in Nat /\ Committed.pool \in Pool /\ Committed.pool.position = B
      /\ Committed.vault \in VaultData /\ Books!get_vault_updated \in VaultData
      /\ Committed.shares \in [Users -> Nat]
  BY CommittedTypes, VaultDataFields DEF FrameInv, CallInv
<1>2. CASE ~InFlight
  BY <1>1, <1>2, CommittedWhenIdle DEF BooksNeverLead
<1>3. CASE InFlight /\ InDeposit
  <2>1. CASE PoolUntouched
    BY <1>1, <1>3, <2>1 DEF InDeposit, BooksUntouched, PoolUntouched, BooksNeverLead
  <2>2. CASE ~PoolUntouched
    <3>1. frame.amount * Scalar \in Nat
      <4>1. frame.amount \in Nat
        <5>1. frame.amount \in Amounts /\ frame.amount > 0
          BY <1>3 DEF InDeposit, IsParties
        <5>2. frame.amount \in Int
          BY <5>1, AmountsAssumption
        <5> QED  BY <5>1, <5>2
      <4> QED  BY <4>1, ScalarAssumption
    <3>2. Books!PoolMint(frame.amount) \in Nat
      <4>1. Committed.pool.b_rate \in Positive
        BY <1>1, <1>3, <2>2 DEF InDeposit, Pool, Positive
      <4>2. FloorDiv(frame.amount * Scalar, Committed.pool.b_rate) \in Nat
        BY <3>1, <4>1, DivSign
      <4> QED  BY <4>2 DEF Books!PoolMint, FloorDiv, Books!FloorDiv
    <3>3. pool.position = B + Books!PoolMint(frame.amount)
      BY <1>1, <1>3, <2>2 DEF InDeposit, Books!PoolSupply, Pool
    <3>4. vault.total_b_tokens = B
      BY <1>3 DEF InDeposit, BooksUntouched
    <3> HIDE DEF B
    <3> QED  BY <1>1, <3>2, <3>3, <3>4 DEF BooksNeverLead
  <2> QED  BY <2>1, <2>2
<1>4. CASE InFlight /\ InExit
  <2>1. pool.position = B
    BY <1>1, <1>4 DEF InExit, PoolUntouched
  <2>2. CASE BooksUntouched
    BY <1>1, <2>1, <2>2 DEF BooksUntouched, BooksNeverLead
  <2>3. CASE SharesBurnt
    <3>1. /\ frame.amount \in Positive /\ Committed.shares[frame.owner] \in Nat
          /\ Priced.accepted
      BY <1>1, <1>4, <2>3, AmountsAssumption DEF InExit, IsParties, Positive, SharesBurnt
    <3>2. IsProRataExit(Books!get_vault_updated, Committed.shares[frame.owner], Priced)
      BY <1>1, <3>1, WithdrawIsProRata, RedeemIsProRata DEF Priced
    <3>3. Priced.b_tokens \in 0..B
      BY <1>4, <3>2, ExitSeesCommittedRate DEF FrameInv, CallInv, IsProRataExit
    <3>4. vault.total_b_tokens = B - Priced.b_tokens
      BY <1>1, <1>4, <2>3, ExitSeesCommittedRate DEF SharesBurnt, VaultData
    <3> HIDE DEF B, Priced
    <3> QED  BY <1>1, <2>1, <3>3, <3>4 DEF BooksNeverLead
  <2> QED  BY <1>4, <2>2, <2>3 DEF InExit
<1>5. CASE InFlight /\ InHarvest
  <2>1. vault.total_b_tokens = B
    BY <1>5 DEF InHarvest, BooksUntouched
  <2>2. CASE pool.position = Committed.pool.position
    BY <1>1, <2>1, <2>2 DEF BooksNeverLead
  <2>3. CASE pool.position # Committed.pool.position
    <3>1. /\ Committed.pool.b_rate > 0
          /\ \E received \in SwapOuts : pool = [Books!PoolSupply(received) EXCEPT !.blnd = FALSE]
      BY <1>1, <1>5, <2>3 DEF InHarvest, Pool
    <3>2. PICK received \in SwapOuts : pool = [Books!PoolSupply(received) EXCEPT !.blnd = FALSE]
      BY <3>1
    <3>3. /\ received * Scalar \in Nat /\ Committed.pool.b_rate \in Positive
          /\ Books!PoolMint(received) = FloorDiv(received * Scalar, Committed.pool.b_rate)
      BY <1>1, <3>1, SwapOutsAssumption, ScalarAssumption
         DEF Positive, Pool, Books!PoolMint, FloorDiv, Books!FloorDiv
    <3>4. Books!PoolMint(received) \in Nat
      BY <3>3, DivSign
    <3>5. pool.position = B + Books!PoolMint(received)
      BY <1>1, <3>2 DEF Books!PoolSupply, Pool
    <3> HIDE DEF B
    <3> QED  BY <1>1, <2>1, <3>4, <3>5 DEF BooksNeverLead
  <2> QED  BY <2>2, <2>3
<1> QED  BY <1>2, <1>3, <1>4, <1>5 DEF FrameInv, CallInv

\* At no statement of any call, also while pool or router are running, does the
\* vault claim more bTokens than the pool holds for it.
THEOREM BooksNeverLeadThePool == FrameSpec => []BooksNeverLead
  BY BooksFollowThePool, FrameInvariant, PTL

\* No harvest leaves BLND, underlying or an approval behind (swap.rs:20-45).
THEOREM HarvestsLeaveNothingBehind == FrameSpec => []NothingIsLeftBehind
<1>1. FrameInv => NothingIsLeftBehind
  BY DEF FrameInv, CallInv, NothingIsLeftBehind
<1> QED  BY <1>1, FrameInvariant, PTL

\* Whatever was refused before, the books of the vault are those of the pool,
\* and every share is backed, whenever no call is in progress.
THEOREM BooksAgreeBetweenCalls ==
  FrameSpec => [](~InFlight => PositionMatchesPool /\ SharesAreBacked)
<1>1. FrameInv => (~InFlight => PositionMatchesPool /\ SharesAreBacked)
  BY CommittedWhenIdle
     DEF FrameInv, Books!BlendInv, Books!CoreInv, Books!PositionMatchesPool, PositionMatchesPool,
         Books!SharesAreBacked, SharesAreBacked
<1> QED  BY <1>1, FrameInvariant, PTL

\* The committed state runs as BlendVault does, so that what BlendVaultProofs
\* shows of whole calls holds of calls in pieces.
LEMMA PiecesRunTheContract == FrameSpec => Books!BlendSpec
<1>1. FrameInit => Books!BlendInit
  BY FrameInitIsSeen
<1>2. FrameInv /\ [FrameNext]_frameVars => [Books!BlendNext]_(Books!blendVars)
  BY FrameNextIsSeen DEF FrameStep
<1> QED  BY <1>1, <1>2, FrameInvariant, PTL DEF FrameSpec, Books!BlendSpec

\* The users are finitely many, as the instance says it.
LEMMA FrameUsers == Books!IsFiniteSet(Users)
  BY UsersAssumption DEF IsFiniteSet, Books!IsFiniteSet

\* No call in pieces, whatever is refused, debits somebody, extends a delegation
\* or hands over a key unasked, or spends more than was granted.
THEOREM CallsInPiecesAskFirst ==
  FrameSpec => /\ Books!NobodyIsDebitedUnasked
               /\ Books!OnlyTheHolderDelegates
               /\ Books!KeysNeedConsent
               /\ Books!DelegatesKeepToTheirBudget
<1>1. Books!BlendSpec => Books!NobodyIsDebitedUnasked
  BY FrameUsers, Books!NobodyIsEverDebitedUnasked,
     ScalarAssumption, MaxI128Assumption, RatesAssumption,
     AmountsAssumption, SwapOutsAssumption, InitialWalletAssumption, MinBTokensAssumption,
     MaxLedgerAssumption, DelegationsAssumption, ApproveAmountsAssumption,
     ExpirationsAssumption, NoSignerAssumption, PTL
<1>2. Books!BlendSpec => Books!OnlyTheHolderDelegates
  BY FrameUsers, Books!OnlyTheHolderEverDelegates,
     ScalarAssumption, MaxI128Assumption, RatesAssumption,
     AmountsAssumption, SwapOutsAssumption, InitialWalletAssumption, MinBTokensAssumption,
     MaxLedgerAssumption, DelegationsAssumption, ApproveAmountsAssumption,
     ExpirationsAssumption, NoSignerAssumption, PTL
<1>3. Books!BlendSpec => Books!KeysNeedConsent
  BY FrameUsers, Books!KeysAlwaysNeedConsent,
     ScalarAssumption, MaxI128Assumption, RatesAssumption,
     AmountsAssumption, SwapOutsAssumption, InitialWalletAssumption, MinBTokensAssumption,
     MaxLedgerAssumption, DelegationsAssumption, ApproveAmountsAssumption,
     ExpirationsAssumption, NoSignerAssumption, PTL
<1>4. Books!BlendSpec => Books!DelegatesKeepToTheirBudget
  BY FrameUsers, Books!DelegatesStayWithinBudget,
     ScalarAssumption, MaxI128Assumption, RatesAssumption,
     AmountsAssumption, SwapOutsAssumption, InitialWalletAssumption, MinBTokensAssumption,
     MaxLedgerAssumption, DelegationsAssumption, ApproveAmountsAssumption,
     ExpirationsAssumption, NoSignerAssumption, PTL
<1> QED  BY <1>1, <1>2, <1>3, <1>4, PiecesRunTheContract, PTL

\* No share loses backing, no exit is priced above its quote nor a deposit below
\* it, nobody gains by entering and leaving, and a drained vault strands only
\* dust: also when the calls come in pieces that may be refused.
THEOREM CallsInPiecesPriceFairly ==
  FrameSpec => /\ Books!SharePriceNeverFalls
               /\ Books!QuotesAreFair
               /\ Books!OnlyDustIsStranded
               /\ [][Books!DepositGainsNothing]_(Books!vaultVars)
<1>1. Books!BlendSpec => Books!SharePriceNeverFalls
  BY FrameUsers, Books!ContractKeepsItsBooks,
     ScalarAssumption, MaxI128Assumption, RatesAssumption,
     AmountsAssumption, SwapOutsAssumption, InitialWalletAssumption, MinBTokensAssumption,
     MaxLedgerAssumption, DelegationsAssumption, ApproveAmountsAssumption,
     ExpirationsAssumption, NoSignerAssumption, PTL
<1>2. Books!BlendSpec => /\ Books!QuotesAreFair /\ Books!OnlyDustIsStranded
                        /\ [][Books!DepositGainsNothing]_(Books!vaultVars)
  BY FrameUsers, Books!ContractPricesFairly,
     ScalarAssumption, MaxI128Assumption, RatesAssumption,
     AmountsAssumption, SwapOutsAssumption, InitialWalletAssumption, MinBTokensAssumption,
     MaxLedgerAssumption, DelegationsAssumption, ApproveAmountsAssumption,
     ExpirationsAssumption, NoSignerAssumption, PTL
<1> QED  BY <1>1, <1>2, PiecesRunTheContract, PTL
=============================================================================
