----------------------------- MODULE CallFrames -----------------------------
(***************************************************************************)
(* The calls of contract.rs that leave the contract, statement by          *)
(* statement: between two calls into the pool, the asset, BLND or the      *)
(* router the contract has written some of its books and not yet others,   *)
(* and each of them may refuse.  Module BlendVault has every call as one   *)
(* step; here that is shown, not assumed.                                  *)
(*                                                                         *)
(* The host runs one transaction at a time and lets nobody call back into  *)
(* a contract that is on the call stack; when a call fails it restores     *)
(* everything the call wrote.                                              *)
(***************************************************************************)
EXTENDS BlendVault, Sequences

CONSTANT SlippageFloors  \* what a claimer may give as amount_out_min

ASSUME SlippageFloorsAssumption == SlippageFloors \subseteq Int

VARIABLES
  frame,  \* the call in progress
  held    \* what the contract itself holds of BLND and of the asset, and the
          \* BLND it approved the router to take

frameVars == <<blendVars, frame, held>>

NoFrame == [call |-> "none"]

InFlight == frame # NoFrame

EmptyHands == [blnd |-> 0, approved |-> 0, asset |-> 0]

\* BLND per claim; the properties do not depend on the amount.
BlndClaimed == 1

\* What the host restores if the call fails.
Snapshot ==
  [vault |-> vault, shares |-> shares, pool |-> pool, wallet |-> wallet,
   allowance |-> allowance, held |-> held]

\* Mutant: a deposit is booked before the pool has taken the tokens.
StatementsBookingFirst(call) ==
  IF call = "deposit" THEN <<"mint", "supply">>
  ELSE IF call = "claim" THEN <<"claim", "approve", "swap", "resupply", "read_back">>
  ELSE <<"burn", "charge", "pay">>

\* Mutant: the position is read back before the proceeds are supplied.
StatementsReadingEarly(call) ==
  IF call = "deposit" THEN <<"supply", "mint">>
  ELSE IF call = "claim" THEN <<"claim", "approve", "swap", "read_back", "resupply">>
  ELSE <<"burn", "charge", "pay">>

\* The statements of a call that read or write state, in the source's order.
Statements(call) ==
  CASE call = "deposit"  -> <<"supply", "mint">>
    [] call = "withdraw" -> <<"burn", "charge", "pay">>
    [] call = "redeem"   -> <<"charge", "burn", "pay">>
    [] call = "claim"    -> <<"claim", "approve", "swap", "resupply", "read_back">>

At(statement) == InFlight /\ Head(frame.todo) = statement

\* The authorizations the call has consumed when it returns.
Authorizers ==
  CASE frame.call = "deposit" -> {frame.operator, frame.owner} \cup ({signer} \ {NoSigner})
    [] frame.call = "claim"   -> {}
    [] OTHER                  -> {frame.operator}

\* On to the next statement, or back to the caller; `result` is what later
\* statements need of this one.
Advance(result) ==
  IF Len(frame.todo) = 1
  THEN frame' = NoFrame /\ auths' = Authorizers
  ELSE frame' = [frame EXCEPT !.todo = Tail(@), !.result = result] /\ UNCHANGED auths
-----------------------------------------------------------------------------
FrameInit == BlendInit /\ frame = NoFrame /\ held = EmptyHands

\* The call is authorized and its arguments are checked.
Enter(call, amount, receiver, owner, operator) ==
  /\ ~InFlight
  /\ frame' = [call |-> call, todo |-> Statements(call), saved |-> Snapshot, result |-> 0,
               amount |-> amount, receiver |-> receiver, owner |-> owner, operator |-> operator]
  /\ UNCHANGED <<blendVars, held>>

EnterDeposit(amount, receiver, from, operator) ==
  operator # signer /\ amount > 0 /\ Enter("deposit", amount, receiver, from, operator)

EnterWithdraw(amount, receiver, owner, operator) ==
  amount > 0 /\ Enter("withdraw", amount, receiver, owner, operator)

EnterRedeem(amount, receiver, owner, operator) ==
  amount > 0 /\ Enter("redeem", amount, receiver, owner, operator)

\* Anybody may call it; nobody's balance is named by it.
EnterClaim(amount_out_min) ==
  router_set /\ Enter("claim", amount_out_min, NoSigner, NoSigner, NoSigner)
-----------------------------------------------------------------------------
(***************************************************************************)
(* The statements.                                                         *)
(***************************************************************************)

\* pool::supply of a deposit: the pool takes the tokens from `from`.
Supply ==
  /\ At("supply")
  /\ frame.amount <= wallet[frame.owner]
  /\ pool.b_rate > 0
  /\ wallet' = Debit(wallet, frame.owner, frame.amount)
  /\ pool' = PoolSupply(frame.amount)
  /\ Advance(0)
  /\ UNCHANGED <<vault, shares, ledger, allowance, keys, held>>

Minted == deposit(get_vault_updated, shares[frame.receiver], frame.amount)

\* vault::deposit.
Mint ==
  /\ At("mint")
  /\ Minted.accepted
  /\ vault' = [get_vault_updated EXCEPT !.total_shares = @ + Minted.shares,
                                        !.total_b_tokens = @ + Minted.b_tokens]
  /\ shares' = Credit(shares, frame.receiver, Minted.shares)
  /\ Advance(0)
  /\ UNCHANGED <<pool, wallet, ledger, allowance, keys, held>>

Burnt ==
  IF frame.call = "withdraw"
  THEN withdraw(get_vault_updated, shares[frame.owner], frame.amount)
  ELSE redeem(get_vault_updated, shares[frame.owner], frame.amount)

\* vault::withdraw and vault::redeem.
Burn ==
  /\ At("burn")
  /\ Burnt.accepted
  /\ vault' = [get_vault_updated EXCEPT !.total_shares = @ - Burnt.shares,
                                        !.total_b_tokens = @ - Burnt.b_tokens]
  /\ shares' = Debit(shares, frame.owner, Burnt.shares)
  /\ Advance(Burnt)
  /\ UNCHANGED <<pool, wallet, ledger, allowance, keys, held>>

\* Mutant: a withdrawal is charged the amount asked for, in underlying.
SharesAsked == frame.amount

\* withdraw has burnt the shares it charges for, redeem has not yet.
SharesToCharge == IF frame.call = "withdraw" THEN frame.result.shares ELSE frame.amount

Charge ==
  /\ At("charge")
  /\ spend_operator_allowance(frame.owner, frame.operator, SharesToCharge)
  /\ Advance(frame.result)
  /\ UNCHANGED <<vaultVars, keys, held>>

\* pool::withdraw: the pool pays the receiver.
Pay ==
  /\ At("pay")
  /\ PoolBurn(frame.result.underlying) >= MinBTokens
  /\ pool' = PoolWithdraw(frame.result.underlying)
  /\ wallet' = Credit(wallet, frame.receiver, PoolPays(frame.result.underlying))
  /\ Advance(0)
  /\ UNCHANGED <<vault, shares, ledger, allowance, keys, held>>

\* pool::claim; with nothing to claim the call returns at once.
Claim ==
  /\ At("claim")
  /\ IF pool.blnd
     THEN /\ pool' = [pool EXCEPT !.blnd = FALSE]
          /\ held' = [held EXCEPT !.blnd = @ + BlndClaimed]
          /\ Advance(0)
     ELSE frame' = NoFrame /\ UNCHANGED <<pool, held, auths>>
  /\ UNCHANGED <<vault, shares, wallet, ledger, allowance, keys>>

\* swap.rs:30-35: the router may take the BLND just claimed.
ApproveRouter ==
  /\ At("approve")
  /\ held' = [held EXCEPT !.approved = BlndClaimed]
  /\ Advance(0)
  /\ UNCHANGED <<vaultVars, allowance, keys>>

\* swap.rs:36-43: the router takes exactly the BLND and pays at least the
\* floor, or refuses (also once the deadline has passed).
Swap ==
  /\ At("swap")
  /\ \E received \in SwapOuts :
       /\ received >= frame.amount
       /\ held' = [blnd     |-> held.blnd - BlndClaimed,
                   approved |-> held.approved - BlndClaimed,
                   asset    |-> held.asset + received]
       /\ Advance(received)
  /\ UNCHANGED <<vaultVars, allowance, keys>>

\* Mutant: only the guaranteed amount is supplied.
ResupplyFloor ==
  /\ At("resupply")
  /\ pool.b_rate > 0
  /\ PoolMint(frame.amount) >= MinBTokens
  /\ pool' = PoolSupply(frame.amount)
  /\ held' = [held EXCEPT !.asset = @ - frame.amount]
  /\ Advance(0)
  /\ UNCHANGED <<vault, shares, wallet, ledger, allowance, keys>>

\* pool::supply of what the swap paid, out of the contract's own hands.
Resupply ==
  /\ At("resupply")
  /\ pool.b_rate > 0
  /\ frame.result <= held.asset
  /\ PoolMint(frame.result) >= MinBTokens
  /\ pool' = PoolSupply(frame.result)
  /\ held' = [held EXCEPT !.asset = @ - frame.result]
  /\ Advance(0)
  /\ UNCHANGED <<vault, shares, wallet, ledger, allowance, keys>>

\* contract.rs:346-349.
ReadBack ==
  /\ At("read_back")
  /\ Fits(pool.position)
  /\ vault' = [get_vault_updated EXCEPT !.total_b_tokens = pool.position]
  /\ Advance(0)
  /\ UNCHANGED <<shares, pool, wallet, ledger, allowance, keys, held>>

Statement ==
  Supply \/ Mint \/ Burn \/ Charge \/ Pay \/ Claim \/ ApproveRouter \/ Swap \/ Resupply \/ ReadBack

\* The contract itself panics, or whom it calls refuses, for any reason.
Fails ==
  CASE At("mint")   -> ~Minted.accepted
    [] At("burn")   -> ~Burnt.accepted
    [] At("charge") -> /\ frame.owner # frame.operator
                       /\ <<frame.owner, frame.operator>> \in Delegations
                            => get_allowance(frame.owner, frame.operator) < SharesToCharge
    [] OTHER        -> InFlight

\* The host undoes the call.
Revert ==
  /\ Fails
  /\ vault' = frame.saved.vault
  /\ shares' = frame.saved.shares
  /\ pool' = frame.saved.pool
  /\ wallet' = frame.saved.wallet
  /\ allowance' = frame.saved.allowance
  /\ held' = frame.saved.held
  /\ frame' = NoFrame
  /\ UNCHANGED <<ledger, keys, auths>>
-----------------------------------------------------------------------------
EnterCall ==
  \/ \E amount \in Amounts, receiver, from, operator \in Users :
       EnterDeposit(amount, receiver, from, operator)
  \/ \E amount \in Amounts, receiver, owner, operator \in Users :
       \/ EnterWithdraw(amount, receiver, owner, operator)
       \/ EnterRedeem(amount, receiver, owner, operator)
  \/ \E amount_out_min \in SlippageFloors : EnterClaim(amount_out_min)

\* The calls that stay inside the contract, and the closing of ledgers.
Between == ~InFlight /\ (TokenCall \/ AdminCall \/ Tick) /\ UNCHANGED <<frame, held>>

FrameNext == EnterCall \/ Statement \/ Revert \/ Between

FrameSpec == FrameInit /\ [][FrameNext]_frameVars
-----------------------------------------------------------------------------
(***************************************************************************)
(* Properties.                                                             *)
(***************************************************************************)

\* What everybody else sees: nothing of a call before it has returned.
Committed == IF InFlight THEN frame.saved ELSE Snapshot

Contract == INSTANCE BlendVault WITH
  vault <- Committed.vault, shares <- Committed.shares, pool <- Committed.pool,
  wallet <- Committed.wallet, allowance <- Committed.allowance

\* A call that leaves the contract several times and may be refused each time
\* does all of what BlendVault says it does, or nothing.
AllOrNothing == Contract!BlendSpec

\* At no moment of any call, also while the pool or the router is running,
\* does the vault claim more bTokens than the pool holds for it: deposits are
\* booked after the pool has them, exits before the pool has paid them.
BooksNeverLead == vault.total_b_tokens <= pool.position

\* A harvest leaves nothing behind in the contract's hands, where no call
\* could ever reach it, and no approval for the router to use later.
NothingIsLeftBehind == ~InFlight => held = EmptyHands
=============================================================================
