------------------------------ MODULE EventLog ------------------------------
(***************************************************************************)
(* What the contract publishes (events.rs) next to what it does, and an    *)
(* observer off the chain that keeps books from the events alone.          *)
(*                                                                         *)
(* The topics of pool and asset are the same in every event and left out.  *)
(***************************************************************************)
EXTENDS BlendVault

VARIABLES
  event,  \* what the last step published
  log     \* the observer's books: shares in circulation, bTokens held

logVars == <<blendVars, event, log>>

Silence == [topic |-> "none"]

\* events.rs:10-26, 32-48, 95-103, 109-112, 118-121.
vault_deposit(from, amount, minted_shares, b_tokens) ==
  [topic |-> "vault_deposit", from |-> from,
   amount |-> amount, shares |-> minted_shares, b_tokens |-> b_tokens]

vault_withdraw(from, amount, burnt_shares, b_tokens) ==
  [topic |-> "vault_withdraw", from |-> from,
   amount |-> amount, shares |-> burnt_shares, b_tokens |-> b_tokens]

vault_emissions_claim(underlying_received) ==
  [topic |-> "vault_emissions_claim", amount |-> underlying_received]

transfer(from, to, amount) ==
  [topic |-> "transfer", from |-> from, to |-> to, shares |-> amount]

approve(from, spender, amount, expiration_ledger) ==
  [topic |-> "approve", from |-> from, spender |-> spender,
   amount |-> amount, expiration_ledger |-> expiration_ledger]

\* The observer adds up shares and bTokens.  A claim does not say how many
\* bTokens it bought: the observer asks get_vault once more.
Publish(published) ==
  /\ event' = published
  /\ log' =
       CASE published.topic = "vault_deposit" ->
              [shares   |-> log.shares + published.shares,
               b_tokens |-> log.b_tokens + published.b_tokens]
         [] published.topic = "vault_withdraw" ->
              [shares   |-> log.shares - published.shares,
               b_tokens |-> log.b_tokens - published.b_tokens]
         [] published.topic = "vault_emissions_claim" ->
              [log EXCEPT !.b_tokens = vault'.total_b_tokens]
         [] OTHER -> log
-----------------------------------------------------------------------------
(***************************************************************************)
(* The calls of BlendVault with the event each publishes.                  *)
(***************************************************************************)
LogInit ==
  /\ BlendInit
  /\ event = Silence
  /\ log = [shares |-> 0, b_tokens |-> 0]

LoggedApprove(from, spender, amount, expiration_ledger) ==
  /\ Approve(from, spender, amount, expiration_ledger)
  /\ Publish(approve(from, spender, amount, expiration_ledger))

LoggedTransfer(from, to, amount) ==
  Transfer(from, to, amount) /\ Publish(transfer(from, to, amount))

\* Mutant: the spender is published as the sender.
LoggedTransferFromSpender(spender, from, to, amount) ==
  TransferFrom(spender, from, to, amount) /\ Publish(transfer(spender, to, amount))

LoggedTransferFrom(spender, from, to, amount) ==
  TransferFrom(spender, from, to, amount) /\ Publish(transfer(from, to, amount))

\* contract.rs:381-389: names who paid, not who was given the shares.
LoggedDeposit(amount, receiver, from, operator) ==
  LET minted == deposit(get_vault_updated, shares[receiver], amount)
  IN  /\ DepositCall(amount, receiver, from, operator)
      /\ Publish(vault_deposit(from, amount, minted.shares, minted.b_tokens))

\* contract.rs:418-426: the amount asked for, with what was really burnt.
LoggedWithdraw(amount, receiver, owner, operator) ==
  LET burnt == withdraw(get_vault_updated, shares[owner], amount)
  IN  /\ WithdrawCall(amount, receiver, owner, operator)
      /\ Publish(vault_withdraw(owner, amount, burnt.shares, burnt.b_tokens))

\* Mutant: the shares and the underlying of the event swapped.
LoggedRedeemSwapped(amount, receiver, owner, operator) ==
  LET burnt == redeem(get_vault_updated, shares[owner], amount)
  IN  /\ RedeemCall(amount, receiver, owner, operator)
      /\ Publish(vault_withdraw(owner, amount, burnt.underlying, burnt.b_tokens))

\* Mutant: the bTokens given up, not those the pool burnt, are published.
LoggedRedeemRoundedDown(amount, receiver, owner, operator) ==
  LET v == get_vault_updated
  IN  /\ RedeemCall(amount, receiver, owner, operator)
      /\ Publish(vault_withdraw(owner, shares_to_underlying_down(v, amount), amount,
                                shares_to_b_tokens_down(v, amount)))

\* contract.rs:457-465: the amount paid.
LoggedRedeem(amount, receiver, owner, operator) ==
  LET burnt == redeem(get_vault_updated, shares[owner], amount)
  IN  /\ RedeemCall(amount, receiver, owner, operator)
      /\ Publish(vault_withdraw(owner, burnt.underlying, amount, burnt.b_tokens))

LoggedClaim(received) == ClaimEmissions(received) /\ Publish(vault_emissions_claim(received))
-----------------------------------------------------------------------------
LoggedTokenCall ==
  \/ \E d \in Delegations, amount \in ApproveAmounts, expiration_ledger \in Expirations :
       LoggedApprove(d[1], d[2], amount, expiration_ledger)
  \/ \E from, to \in Users, amount \in Amounts : LoggedTransfer(from, to, amount)
  \/ \E spender, from, to \in Users, amount \in Amounts :
       LoggedTransferFrom(spender, from, to, amount)

LoggedPoolCall ==
  \/ \E amount \in Amounts, receiver, from, operator \in Users :
       LoggedDeposit(amount, receiver, from, operator)
  \/ \E amount \in Amounts, receiver, owner, operator \in Users :
       \/ LoggedWithdraw(amount, receiver, owner, operator)
       \/ LoggedRedeem(amount, receiver, owner, operator)
  \/ \E received \in SwapOuts : LoggedClaim(received)

LogNext ==
  \/ LoggedTokenCall
  \/ LoggedPoolCall
  \/ (AdminCall \/ Tick) /\ Publish(Silence)

LogSpec == LogInit /\ [][LogNext]_logVars
-----------------------------------------------------------------------------
(***************************************************************************)
(* Properties.                                                             *)
(***************************************************************************)

\* Adding up events gives the vault's totals after any history of rounded,
\* clamped and delegated calls: each publishes exactly what it booked.
LogTellsTotals == log = [shares |-> vault.total_shares, b_tokens |-> vault.total_b_tokens]

\* Whoever loses shares is named by the event of the call, with the number
\* lost; whoever pays underlying is named by a deposit of exactly that amount.
DebitsAreAnnounced ==
  [][\A u \in Users :
       /\ shares'[u] < shares[u] =>
            /\ event'.topic \in {"transfer", "vault_withdraw"}
            /\ event'.from = u
            /\ event'.shares = shares[u] - shares'[u]
       /\ wallet'[u] < wallet[u] =>
            /\ event'.topic = "vault_deposit"
            /\ event'.from = u
            /\ event'.amount = wallet[u] - wallet'[u]]_logVars

\* The amount of a withdrawal event is what was paid, or more: and more only
\* if the call took every share the owner had (contract.rs:419 publishes the
\* request, also when it was clamped).
OnlyFullExitsAreOverstated ==
  [][event'.topic = "vault_withdraw" =>
       LET paid == SumFunction(wallet') - SumFunction(wallet)
       IN  \/ event'.amount = paid
           \/ event'.amount > paid /\ shares'[event'.from] = 0]_logVars
=============================================================================
