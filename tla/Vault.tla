------------------------------- MODULE Vault -------------------------------
(***************************************************************************)
(* The accounting core: vault.rs, the calls contract.rs makes around it    *)
(* into pool.rs and swap.rs, and the share balances of storage.rs.         *)
(*                                                                         *)
(* One action is one contract call.  A call that panics anywhere reverts   *)
(* everything it did, so it is no step at all; a call the pool, the router *)
(* or the asset contract rejects likewise.  Who may make a call is the     *)
(* business of module BlendVault.                                          *)
(***************************************************************************)
EXTENDS VaultMath, FiniteSets, Functions

CONSTANTS
  Users,          \* addresses that hold shares or underlying tokens
  Rates,          \* bRates the pool may report
  Amounts,        \* amounts a caller may ask for, including illegal ones
  SwapOuts,       \* what the router may pay for the claimed BLND
  InitialWallet,  \* underlying tokens each user starts with
  MinBTokens,     \* fewest bTokens the pool agrees to mint or burn, 0 or 1
  MaxLedger       \* bound on the ledger clock

ASSUME UsersAssumption == IsFiniteSet(Users)
ASSUME RatesAssumption == Rates \subseteq Nat
ASSUME AmountsAssumption == Amounts \subseteq Int
ASSUME SwapOutsAssumption == SwapOuts \subseteq Nat
ASSUME InitialWalletAssumption == InitialWallet \in Nat
ASSUME MinBTokensAssumption == MinBTokens \in {0, 1}
ASSUME MaxLedgerAssumption == MaxLedger \in Nat

VARIABLES
  vault,   \* the persisted VaultData
  shares,  \* the persisted share balance of every user
  pool,    \* the Blend pool, as far as the vault sees it
  wallet,  \* underlying tokens of every user
  ledger   \* the ledger clock: e.ledger().sequence() and timestamp()

vaultVars == <<vault, shares, pool, wallet, ledger>>

\* The pool's bRate, the vault's bToken position, and whether BLND emissions
\* are waiting to be claimed.
Pool == [b_rate : Nat, position : Nat, blnd : BOOLEAN]

TypeOK ==
  /\ vault \in VaultData
  /\ shares \in [Users -> Nat]
  /\ pool \in Pool
  /\ wallet \in [Users -> Nat]
  /\ ledger \in Nat

\* __constructor, contract.rs:49-72.
VaultInit ==
  /\ ledger = 0
  /\ pool \in [b_rate : Rates, position : {0}, blnd : {FALSE}]
  /\ vault = [last_update_timestamp |-> ledger, b_rate |-> pool.b_rate,
              total_shares |-> 0, total_b_tokens |-> 0]
  /\ shares = [u \in Users |-> 0]
  /\ wallet = [u \in Users |-> InitialWallet]
-----------------------------------------------------------------------------
(***************************************************************************)
(* The Blend pool (external), as the calls of pool.rs and the tests on a   *)
(* real pool show it: it mints bTokens rounding down, burns them rounding  *)
(* up, and pays out the whole position when asked for more.  Whether it    *)
(* goes along with minting or burning nothing they leave open: MinBTokens. *)
(***************************************************************************)
PoolMint(amount) == FloorDiv(amount * Scalar, pool.b_rate)

PoolBurn(amount) == CeilDiv(amount * Scalar, pool.b_rate)

PoolSupply(amount) == [pool EXCEPT !.position = @ + PoolMint(amount)]

PoolWithdraw(amount) ==
  [pool EXCEPT !.position = IF PoolBurn(amount) > @ THEN 0 ELSE @ - PoolBurn(amount)]

PoolPays(amount) ==
  IF PoolBurn(amount) > pool.position
  THEN FloorDiv(pool.position * pool.b_rate, Scalar)
  ELSE amount

\* vault::get_vault_updated: the stored record at the pool's current bRate.
get_vault_updated ==
  [vault EXCEPT !.last_update_timestamp = ledger, !.b_rate = pool.b_rate]

Credit(balances, user, amount) == [balances EXCEPT ![user] = @ + amount]
Debit(balances, user, amount) == [balances EXCEPT ![user] = @ - amount]
-----------------------------------------------------------------------------
(***************************************************************************)
(* Operations.                                                             *)
(***************************************************************************)

\* contract.rs:367-391: `from` pays, `receiver` gets the shares.
Deposit(amount, receiver, from) ==
  LET v == get_vault_updated
      minted == deposit(v, shares[receiver], amount)
  IN  /\ amount > 0
      /\ amount <= wallet[from]
      /\ minted.accepted
      /\ wallet' = Debit(wallet, from, amount)
      /\ pool' = PoolSupply(amount)
      /\ vault' = [v EXCEPT !.total_shares = @ + minted.shares,
                            !.total_b_tokens = @ + minted.b_tokens]
      /\ shares' = Credit(shares, receiver, minted.shares)
      /\ UNCHANGED ledger

\* Mutant: total_shares is lowered by the bTokens burnt.
ExitInWrongUnit(burnt, receiver, owner) ==
  /\ burnt.accepted
  /\ PoolBurn(burnt.underlying) >= MinBTokens
  /\ vault' = [get_vault_updated EXCEPT !.total_shares = @ - burnt.b_tokens,
                                        !.total_b_tokens = @ - burnt.b_tokens]
  /\ shares' = Debit(shares, owner, burnt.shares)
  /\ pool' = PoolWithdraw(burnt.underlying)
  /\ wallet' = Credit(wallet, receiver, PoolPays(burnt.underlying))
  /\ UNCHANGED ledger

\* What withdraw and redeem do once vault.rs has priced the exit.
Exit(burnt, receiver, owner) ==
  /\ burnt.accepted
  /\ PoolBurn(burnt.underlying) >= MinBTokens
  /\ vault' = [get_vault_updated EXCEPT !.total_shares = @ - burnt.shares,
                                        !.total_b_tokens = @ - burnt.b_tokens]
  /\ shares' = Debit(shares, owner, burnt.shares)
  /\ pool' = PoolWithdraw(burnt.underlying)
  /\ wallet' = Credit(wallet, receiver, PoolPays(burnt.underlying))
  /\ UNCHANGED ledger

\* contract.rs:404-428.
Withdraw(amount, receiver, owner) ==
  /\ amount > 0
  /\ Exit(withdraw(get_vault_updated, shares[owner], amount), receiver, owner)

\* Mutant: the shares are priced at the stored bRate.
RedeemAtStoredRate(amount, receiver, owner) ==
  amount > 0 /\ Exit(redeem(vault, shares[owner], amount), receiver, owner)

\* contract.rs:446-467.
Redeem(amount, receiver, owner) ==
  /\ amount > 0
  /\ Exit(redeem(get_vault_updated, shares[owner], amount), receiver, owner)

\* Mutant: the sender's balance is not checked.
MoveSharesUnchecked(from, to, amount) ==
  /\ amount > 0
  /\ shares' = [shares EXCEPT ![from] = shares[from] - amount,
                              ![to] = shares[to] + amount]
  /\ UNCHANGED <<vault, pool, wallet, ledger>>

\* Mutant: the sender's balance is written last.
MoveSharesSenderLast(from, to, amount) ==
  /\ amount \in 1..shares[from]
  /\ Fits(shares[to] + amount)
  /\ shares' = [shares EXCEPT ![to] = shares[to] + amount,
                              ![from] = shares[from] - amount]
  /\ UNCHANGED <<vault, pool, wallet, ledger>>

\* The balance writes of transfer and transfer_from.  Both balances are read
\* before either is written, so with from = to the second write wins.
MoveShares(from, to, amount) ==
  /\ amount > 0
  /\ amount <= shares[from]
  /\ Fits(shares[to] + amount)
  /\ shares' = [shares EXCEPT ![from] = shares[from] - amount,
                              ![to] = shares[to] + amount]
  /\ UNCHANGED <<vault, pool, wallet, ledger>>

\* Mutant: the underlying supplied is booked as if it were bTokens.
HarvestBooksUnderlying(received) ==
  /\ pool.blnd
  /\ pool.b_rate > 0
  /\ pool' = [PoolSupply(received) EXCEPT !.blnd = FALSE]
  /\ vault' = [get_vault_updated EXCEPT !.total_b_tokens = @ + received]
  /\ UNCHANGED <<shares, wallet, ledger>>

\* contract.rs:310-353 past the early returns: BLND was claimed, the router
\* paid `received`, and total_b_tokens is read back from the pool.
HarvestEmissions(received) ==
  /\ pool.blnd
  /\ pool.b_rate > 0
  /\ PoolMint(received) >= MinBTokens
  /\ Fits(pool.position + PoolMint(received))
  /\ pool' = [PoolSupply(received) EXCEPT !.blnd = FALSE]
  /\ vault' = [get_vault_updated EXCEPT !.total_b_tokens = pool'.position]
  /\ UNCHANGED <<shares, wallet, ledger>>

\* The next ledger closes: the pool reports any bRate (interest raises it, a
\* default lowers it) and emissions may accrue on an open position.
CloseLedger ==
  /\ ledger < MaxLedger
  /\ ledger' = ledger + 1
  /\ \E rate \in Rates, accrued \in BOOLEAN :
       pool' = [pool EXCEPT !.b_rate = rate,
                            !.blnd = @ \/ (accrued /\ pool.position > 0)]
  /\ UNCHANGED <<vault, shares, wallet>>
-----------------------------------------------------------------------------
UsePool ==
  \/ \E amount \in Amounts, receiver, from \in Users : Deposit(amount, receiver, from)
  \/ \E amount \in Amounts, receiver, owner \in Users : Withdraw(amount, receiver, owner)
  \/ \E amount \in Amounts, receiver, owner \in Users : Redeem(amount, receiver, owner)
  \/ \E received \in SwapOuts : HarvestEmissions(received)
  \/ CloseLedger

\* Everything the code allows, transfers to oneself included.
VaultNext ==
  \/ UsePool
  \/ \E amount \in Amounts, from, to \in Users : MoveShares(from, to, amount)

VaultSpec == VaultInit /\ [][VaultNext]_vaultVars

\* The same vault when nobody transfers shares to themselves.
TwoPartyNext ==
  \/ UsePool
  \/ \E amount \in Amounts, from, to \in Users :
       from # to /\ MoveShares(from, to, amount)

TwoPartySpec == VaultInit /\ [][TwoPartyNext]_vaultVars
-----------------------------------------------------------------------------
(***************************************************************************)
(* Properties.                                                             *)
(***************************************************************************)

\* What a holder of n shares could redeem them for right now: the answer of
\* convert_to_assets and get_underlying_tokens.
Quote(n) == IF n > 0 THEN shares_to_underlying_down(get_vault_updated, n) ELSE 0

\* total_shares always equals the sum of individual balances
\* (test_transfer.rs:128), or a burn could run out of shares to burn.
SharesConserved == SumFunction(shares) = vault.total_shares

\* No share is ever lost: the balances add up to total_shares at least, however
\* often shares were moved, to oneself included, clamped, or minted again.
NoShareIsLost == SumFunction(shares) >= vault.total_shares

\* total_b_tokens is the position the pool really holds for the vault, after
\* any mix of roundings, clamps and bRate changes (vault.rs:218-222); above it
\* the last holder could not be paid, below it yield would be orphaned.
PositionMatchesPool == vault.total_b_tokens = pool.position

\* A share is never backed by less than one bToken: shares start 1:1 and every
\* rounding is in favour of the vault, so yield is never diluted away.
SharesAreBacked == vault.total_shares <= vault.total_b_tokens

\* Every holder whose position is worth something can take it all out by
\* redeeming all shares: the vault has the reserves and the pool the bTokens
\* to pay exactly the quote (as long as the products fit an i128).
ExitIsOpen ==
  \A u \in Users :
    LET v == get_vault_updated
        exit == redeem(v, shares[u], shares[u])
    IN  v.b_rate > 0 /\ Quote(shares[u]) > 0 /\ quote_returns(v, shares[u])
          => exit.accepted /\ PoolPays(exit.underlying) = Quote(shares[u])

\* The vault could pay everybody at once: what all holders together are quoted
\* never exceeds what the pool would pay for the whole position, at any bRate.
QuotesAreCovered ==
  SumFunction([u \in Users |-> Quote(shares[u])])
    <= b_tokens_to_underlying_down(get_vault_updated, pool.position)

\* No call lowers the bTokens behind one share: neither deposits, exits,
\* transfers nor harvests dilute the holders that stay.
SharePriceNeverFalls ==
  [][vault.total_shares > 0
       => vault'.total_b_tokens * vault.total_shares
            >= vault.total_b_tokens * vault'.total_shares]_vaultVars

\* While the bRate stands still, a holder whose shares nobody burns or moves
\* is never quoted less than before, whatever the others do
\* (test_redeem.rs:145-146: rounding may only favor the other holders).
HoldersStayWhole ==
  [][pool'.b_rate = pool.b_rate
       => \A u \in Users :
            shares'[u] >= shares[u] => Quote(shares[u])' >= Quote(shares[u])]_vaultVars

\* convert_to_assets is fair to the vault both ways: burning shares never pays
\* more than the quote for them before the call, minting never costs less.
QuotesAreFair ==
  [][LET minted == vault'.total_shares - vault.total_shares
         paid == SumFunction(wallet) - SumFunction(wallet')
     IN  /\ minted < 0 => -paid <= Quote(-minted)
         /\ minted > 0 /\ vault.total_shares > 0 => paid >= Quote(minted)]_vaultVars

\* The exit of the last holder leaves at most dust behind: bTokens worth less
\* than one share's backing, or less than one unit of underlying.
OnlyDustIsStranded ==
  [][vault.total_shares > 0 /\ vault'.total_shares = 0
       => \/ vault'.total_b_tokens * vault.total_shares < vault.total_b_tokens
          \/ vault'.total_b_tokens * pool.b_rate < Scalar]_vaultVars

\* A withdrawal of more than the holder's balance takes the full balance and
\* pays exactly its quote (contract.rs:393-394), if the products fit an i128.
OverlargeWithdrawTakesAll ==
  \A u \in Users, amount \in Amounts :
    LET v == get_vault_updated
        exit == withdraw(v, shares[u], amount)
    IN  /\ v.b_rate > 0
        /\ Quote(shares[u]) \in 1..(amount - 1)
        /\ quote_returns(v, shares[u])
        /\ underlying_to_b_tokens_returns(v, amount)
        /\ b_tokens_to_shares_returns(v, underlying_to_b_tokens_up(v, amount))
        => exit.accepted /\ exit.shares = shares[u] /\ exit.underlying = Quote(shares[u])

\* The vault implements the ideal one, with the pool's own books as assets.
Ideal == INSTANCE IdealVault WITH
  Holders <- Users, supply <- vault.total_shares, assets <- pool.position, balance <- shares

\* No interleaving of deposits, exits, transfers, harvests and bRate changes
\* does to the holders what a pro-rata vault could not have done.
ImplementsIdealVault == Ideal!IdealSpec
-----------------------------------------------------------------------------
(***************************************************************************)
(* What the repository says of the vault and the code does not do.         *)
(***************************************************************************)

\* vault.rs:253-254: "A reachable vault state: either empty (both totals 0, as
\* constructed or after a full drain) or with both totals positive".
EmptyOrBothPositive == (vault.total_shares = 0) <=> (vault.total_b_tokens = 0)

\* contract.rs:393-394: "If the input amount exceeds the owner's balance, the
\* owner's full balance will be withdrawn."
OverlargeWithdrawClamps ==
  \A u \in Users, amount \in Amounts :
    LET exit == withdraw(get_vault_updated, shares[u], amount)
    IN  Quote(shares[u]) \in 1..(amount - 1) => exit.accepted /\ exit.shares = shares[u]
=============================================================================
