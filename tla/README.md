# Verification of blend-vault-v2

TLA+ specifications of the Soroban contract in `src/` (a token vault on one
reserve of a Blend pool), TLC runs on small instances, and TLAPS proofs for all
instances. Paths like `vault.rs:222` mean `src/vault.rs` of the repository.

## 1. The system

The vault holds bTokens (its position in one reserve of a Blend pool) and issues
shares of them. A bToken is worth `b_rate / SCALAR_12` underlying tokens; the
pool changes `b_rate` (interest raises it, a default lowers it).

| Component | Source | State | Operations | What makes it correct |
|---|---|---|---|---|
| Share arithmetic | `vault.rs:14-77`, pricing in `107-235` | none | six conversions, prices of deposit, withdraw, redeem | every rounding favours those who stay; what is burnt is what the pool burns; overflow rejects |
| Vault accounting | `vault.rs:79-235`, `storage.rs:155-192`, `contract.rs` | `VaultData` (two totals, last bRate and time), a share balance per user | deposit, withdraw, redeem, transfer, transfer_from, claim_emissions | totals = pool position = sum of balances; nobody is diluted; everybody can leave |
| Entry points | `contract.rs`, `validator.rs`, `errors.rs` | admin, signer, router | the above, approve, set_admin, set_signer, set_router | nobody is debited unasked; keys gate minting and themselves, never the exit |
| Allowances | `storage.rs:196-237` | amount and expiration per (from, spender) | approve, spend | spent once, never after expiry, never prolonged by use |
| Pool calls | `pool.rs` | none (the pool's books are external) | supply, withdraw, claim, reads | booked after the pool has taken, before it pays; all or nothing |
| Swap | `swap.rs` | an approval at the BLND token (router is external) | swap BLND for the asset | no tokens and no approval left behind |
| Storage lifetimes | `storage.rs:38-51, 155-237` | TTL of instance, persistent and temporary entries | extend on write or call | no unexpired allowance is deleted; what is written lasts |
| Summary | `summary.rs` | none | estimated APR | monotone in utilization; covered by what borrowers pay |
| Events | `events.rs` | none | publish | an observer can add them up |

A call runs alone in its transaction: `contract.rs` calls the pool, tokens and
the router (which move the underlying) and `vault.rs` (which moves totals and
balances); each may refuse, and a panic in any of them reverts all. Concurrency is
the interleaving of whole calls of many users with ledgers closing between them,
and inside a call that of the contract's writes with foreign code. The hard parts
are the chains of roundings, the two sets of books (vault and pool) that must
agree after any history, amounts near the width of `i128`, delegation over time
and over the lives of its entries, the order of reads and writes when two roles
of a call are one address, and calls that fail halfway.

`README.md` of the repository also describes take, capped and fixed rates,
rewards and an admin balance. None of it exists in the source, so none is modelled.

## 2. The modules

| Module | What it is |
|---|---|
| `VaultMath` | the conversions and the outcome of `vault::deposit`, `withdraw`, `redeem` as operators on a record, a balance and an amount |
| `Vault` | the accounting core as a state machine, EXTENDS `VaultMath`; its properties |
| `IdealVault` | the abstract specification: shares issued and retired pro rata or at the caller's loss |
| `BlendVault` | all state-changing entry points with authorizations, allowances and keys, EXTENDS `Vault` |
| `StorageLifetimes` | how long the ledger keeps each entry, under the calls of `BlendVault`, EXTENDS it |
| `EventLog` | the event of each call of `BlendVault` and an observer that adds them up, EXTENDS it |
| `CallFrames` | the calls that leave the contract statement by statement, with failure and rollback, EXTENDS `BlendVault` and implements it |
| `VaultSummary` | the estimated APR, next to a reserve that changes, EXTENDS `VaultMath` |
| `MCVault`, `MCBlendVault`, `MCStorage`, `MCEventLog`, `MCCallFrames`, `MCVaultSummary` | instances for TLC |
| `VaultMathProofs` | lemmas about the arithmetic and about sums of balances |
| `VaultProofs` | inductive invariant and safety of `Vault`; `Vault` implements `IdealVault`, balances add up; what a single holder can rely on |
| `IdealVaultProofs` | soundness of `IdealVault` |
| `BlendVaultProofs` | `BlendVault` implements `Vault`; authorizations, delegations and keys |
| `StorageProofs` | `StorageLifetimes` implements `BlendVault`; lives of entries |
| `EventLogProofs` | `EventLog` implements `BlendVault`; what the events tell |
| `CallFramesProofs` | `CallFrames` implements `BlendVault`; what holds in the middle of a call |
| `SummaryProofs` | the curve, the monotonicity and the coverage of the estimated APR |

### State

| Variable | Code |
|---|---|
| `vault` | the `VaultData` in persistent storage |
| `shares` | `get_vault_shares(user)`; no entry reads as 0 |
| `pool` | external: the current bRate, the vault's position, whether BLND is claimable |
| `wallet` | external: underlying tokens of the users |
| `ledger` | sequence number and timestamp as one clock |
| `allowance` | the `AllowanceValue` of each modelled pair; no entry reads as `(0, 0)` |
| `admin`, `signer`, `router_set` | instance storage; which router it is does not matter |
| `auths` | history: the addresses whose authorization the last call consumed |
| `instance_live`, `vault_live`, `balance_live`, `allowance_live` | host: the last ledger at which the entry is live |
| `event`, `log` | what the last step published; the books of an observer who adds events up |
| `frame` | the call in progress: the statements still to run, what the host restores if it fails, what earlier statements returned |
| `held` | BLND and asset held by the contract, and the router's approval |
| `config`, `reserve` | external: what `get_reserve` and `get_config` report to `summary.rs` |

### Actions

One action is one successful contract call, from `require_auth` to the last
write. A call that panics changes nothing and is no step. `Deposit`, `Withdraw`,
`Redeem`, `MoveShares` and `HarvestEmissions` are the calls without their
authorization; `DepositCall`, `WithdrawCall`, `RedeemCall`, `Transfer`,
`TransferFrom` and `ClaimEmissions` add it, with the allowance each charges.
`CloseLedger` is the environment: the clock, any bRate of `Rates`, emissions.
Guards come from the code: `require_positive`, balance and reserve checks, the
`i128` width of every product and sum, `SwapNotConfigured`, and the host rule of
`contract.rs:27-29` that one address cannot authorize twice in a frame (the
operator of a deposit is not the signer, `set_admin` not to oneself).

`StorageLifetimes` and `EventLog` take these actions whole and add what they
concern: the entries a call touches, with `extend_ttl` and the failure of a call
whose entry is archived, and the event published. Time moves by `Tick` alone, and
`RestoreFootprint` is anybody's restoration of an archived entry.

`CallFrames` splits deposit, withdraw, redeem and claim_emissions at every call
into `vault.rs`, the pool, a token or the router. `Enter...` checks the
arguments, each statement is an action, `Revert` is the host's rollback. A
statement of foreign code may refuse at any time; one of the contract itself
fails exactly when its guards do. Soroban forbids re-entrance, so nothing else
runs in between.

Abstractions: error codes are not told apart; addresses are model values; views
have no state except the quotes and the APR; in `BlendVault` the claim of nothing
(`contract.rs:326`) is a stutter; path and deadline are the router's to
enforce, as reasons to refuse. In `CallFrames` a claim yields one BLND, and the
authorization `contract.rs:332-343` gives the pool for the very transfer that
follows is part of `Resupply`.

### The external pool

`PoolMint`, `PoolBurn` and `PoolPays` are taken from how `vault.rs` and the
tests on a real pool use it: supply mints `floor`, withdraw burns `ceil`
(`vault.rs:165, 218-222`, `tests/test_happy_path.rs:215-235`), and a request
above the position pays out the position. What the sources do not show is
whether the pool accepts minting or burning nothing: `MinBTokens` is 0 or 1, the
proofs hold for both, and the passing runs use 0, the more permissive one. Pool limits
(utilisation, pause, supply caps) only make calls fail and are left out.

## 3. The runs

| Run | Specification | Shows |
|---|---|---|
| `vault_core` | `VaultSpec` | `TypeOK`, `PositionMatchesPool`, `SharesAreBacked`, `NoShareIsLost`, `SharePriceNeverFalls`, with self-transfers and with `i128` so small that overflows happen |
| `vault_holders` | `TwoPartySpec` | without self-transfers: `SharesConserved`, `ExitIsOpen`, `QuotesAreCovered` (all holders together), `OverlargeWithdrawTakesAll`, `HoldersStayWhole`, `QuotesAreFair`, `OnlyDustIsStranded`, and the refinement `ImplementsIdealVault` |
| `blend_delegation` | `LogSpec` | `NobodyIsDebitedUnasked`, `OnlyTheHolderDelegates` under approvals that are spent in parts and expire, and `BlendTypeOK`; of the events of the same calls `LogTellsTotals`, `DebitsAreAnnounced`, and `OnlyFullExitsAreOverstated` (a clamped withdrawal publishes the amount asked for) |
| `blend_keys` | `BlendSpec` | `KeysNeedConsent`, `NoKeyBlocksExit` under changes of admin, signer and router, and `DelegatesKeepToTheirBudget`: two delegates of one holder spend by transfer_from, withdraw and redeem, before and after their grants expire |
| `storage` | `StorageSpec` | `AllowanceOutlivesExpiration`: approvals and spends before, at and after expiration and deletion; `BumpingOnWriteSuffices`: bookings on new, ageing, archived and restored entries; `StorageTypeOK` |
| `call_frames` | `FrameSpec` | `AllOrNothing` (every call, refused anywhere, refines the one-step call of `BlendSpec`) and `BooksNeverLead`, for deposits and exits |
| `call_frames_harvest` | `FrameSpec` | the same refinement for the five outside calls of a harvest, and `NothingIsLeftBehind` |
| `vault_summary` | `SummarySpec` | `RateFollowsCurve` (against the exact curve as a fraction), `AprRisesWithUtilization`, `PromisesAreCovered` |

Each property has a mutant of the code (marked `Mutant` in the modules) that
TLC finds it violated by.

Four more runs check what the repository says and the code does not do, and
end in a counterexample:

| Run | The repository says | The code |
|---|---|---|
| `self_transfer` | `total_shares` always equals the sum of individual balances (`tests/test_transfer.rs:128`) | a transfer to oneself writes the balance twice, the second time with the sum: balance up by `amount`, `total_shares` not (`contract.rs:225-228, 253-258`) |
| `stranded_dust` | states are empty or have both totals positive (`vault.rs:253`) | the last exit may leave bTokens behind, at most dust (`OnlyDustIsStranded`) |
| `summary_loads` | the summary can be displayed (`README.md:125`) | with a target utilization of 0, as `testutils.rs:97` deploys, and nothing borrowed it divides zero by zero (`summary.rs:54`) |
| `overlarge_withdraw` | a request above the balance withdraws the full balance (`contract.rs:393`) | it is converted first and panics if `amount * SCALAR_12` does not fit |

### Bounds

Two users suffice for every role to be taken by the same and by different
addresses (depositor, receiver, owner, operator, bystander); they are symmetric
in the `MCVault` runs. `blend_keys` has three. `Scalar = 2` with bRates 1, 2, 3 (0.5, 1 and 1.5 per
bToken) makes each conversion exact, rounded up and rounded down; deposits of up
to 4 and a harvest that pays 2 give share prices that do not divide evenly; in
`vault_core` it may also pay 1, which mints no bToken at a bRate of 3.
`Amounts` holds 0 (rejected), small ones, and in `vault_holders` a 9 above any
position, for the clamp. `MaxI128` is 10 or less where overflow is to happen and
1000 where it is not. `MaxLedger = 1` lets the bRate move and one allowance
expire once; harvests need a ledger to close. In the runs of the whole contract
one pair may delegate, and two in `blend_keys`. `blend_delegation` lets the
holder approve 2, to be spent at once or in parts, until the first or the second
ledger. A harvest of 2 into its small vault makes shares of 3 bTokens each, so that an exit burns less than
it gives up, and a request of 2 may exceed the position; its keys stay fixed
except for the router. Its VIEW drops `auths` and `event`, which no step reads;
the action properties are checked on every step all the same, and likewise in
`blend_keys`. There dan or carol is admin, bob or nobody signer, the router set or
not; bob and carol also hold shares and may each be granted one share of alice's
until the end of the first ledger; `i128` is 2, so two shares fill the vault and
alice's grants may reach or exceed what she holds.

Deadlock is not checked in the `MCVault` runs: the clock is bounded and rounding
may consume the tiny wallets, after which no call is possible. It is checked in
all others.

The `storage` run uses thresholds, bumps and host lifetimes of a few ledgers, such
that within `MaxLedger` entries are created, extended, capped by the host,
archived, restored and deleted; one expiration lies within the host's longest
life, one beyond it until a ledger has closed.
`call_frames` has two users and one delegation at a fixed ledger; the harvest,
which names no user, has one, two bRates, and swaps that pay less than, as much
as and more than the floor. `vault_summary` has three curves (typical, the flat
one of the tests, target at 95%) with `SCALAR_7 = 40`, so that 95% is exact and
utilization takes every value around both kinks.

### Liveness and fairness

No specification states fairness and no run checks a liveness property. Nothing
obliges a user, an admin or the pool to make another call. Inside a call there is
one process without loops or retries, which the host runs to its return or its
failure: that it ends says nothing about this code. What could be called progress,
that a holder *can* leave, is the state predicates `ExitIsOpen` and
`NoKeyBlocksExit` (the latter with ENABLED).

## 4. The proofs

For any finite set of users, any natural bRates, amounts, swap results,
`Scalar > 0` and `MaxI128`:

* `VaultMathProofs`: the outcomes of deposit, withdraw and redeem mint at most,
  or burn at least, the pro-rata part, and book exactly what the pool mints and
  burns. The argument is Euclid's: `d*floor(a/d) <= a < d*floor(a/d) + d`, and
  cancelling positive factors. The round trips that `vault.rs:281-321, 348-395`
  tests on random records are `RoundTripsNeverGain` and `DepositNeverProfits`.
  Sums are the library's `SumFunction`; what one update does to it is shown by a
  minimal counterexample over subsets (`SumAfterUpdate`), and so is how two sums
  compare whose terms do (`SumScales`, `SumFallsBy`).
* `VaultProofs`: `CoreInv == TypeOK /\ PositionMatchesPool /\ SharesAreBacked`
  is inductive for `VaultSpec`, self-transfers included. `TypeOK` alone is not:
  that a burn leaves the pool's position nonnegative needs the two books to
  agree, and that they agree after a burn needs the burn to fit. From it follow
  `TypeCorrect`, `PositionAlwaysMatchesPool`, `SharesStayBacked`, and
  `SharePriceHolds` (an action property).
  Every step of `TwoPartySpec` maps to one of `IdealVault` or to none
  (`VaultImplementsIdealVault`), with the pool's position as assets.
  `Uncounted`, the sum of the balances less `total_shares`, is followed through
  every step: deposits and exits change both sums alike, a transfer to another
  neither, and one to oneself raises the balances alone, by its amount
  (`OnlySelfTransfersDrift`). So it never falls (`NoShareIsEverLost`), and without
  self-transfers it stays 0: `FairInv == CoreInv /\ SharesConserved` is inductive
  (`SharesAddUp`). From `FairInv` each balance is at most `total_shares`, so a
  quoted position can be redeemed and paid (`ExitStaysOpen`), a request above the
  quote is priced above the position and so clamped to it
  (`OverlargeWithdrawalsTakeAll`), and at a constant bRate a better share price is
  a better quote (`HoldersAreNotDiluted`). Each quote is a floor of a part of the
  position, and parts that add up to it round to no more than it is worth
  (`QuotesAreAlwaysCovered`). `ClaimsAreKept` speaks of whole behaviours: the
  bTokens behind a holder's shares never become fewer, so whatever others call
  and however often the bRate moves, the quote stays what they are then worth,
  until shares are taken. `CoreInv` alone, self-transfers
  included, gives `QuotesStayFair` and `DrainsLeaveDust`: each exit is either
  priced by its quote, whose last floor is the dust, or by two ceilings, whose
  excess is (`QuotedExitIsFair`, `RequestedExitIsFair`). It also gives
  `DepositorsNeverProfit`: the new shares are worth at most what was paid for
  them. Its premise, an empty vault has no bTokens, excludes the one case where a
  first depositor finds the dust of former holders (run `stranded_dust`).
* `BlendVaultProofs`: the entry points are written as calls of `Vault` with
  conditions added, so `BlendSpec => VaultSpec` is a mere lemma; it carries the
  theorems of `VaultProofs` over to the contract (`ContractKeepsItsBooks`,
  `ContractPricesFairly`).
  `BlendInv == CoreInv /\ BlendTypeOK` is inductive; from it each entry point is
  shown to debit only whom it asked, to leave delegations it does not own alone,
  and to change keys with consent (`NobodyIsEverDebitedUnasked`,
  `OnlyTheHolderEverDelegates`, `KeysAlwaysNeedConsent`). The first two, summed
  over the delegations of a holder, give `DelegatesStayWithinBudget`: what is
  taken unasked leaves one grant and no other grows; and over behaviours
  `GrantsCapLosses`: who authorizes nothing any more keeps the shares held less
  what was granted, for ever. `CoreInv` is needed for
  the exits: what they take is bounded by the owner's shares only because the
  books agree. `RedeemingAsksNoKey` is the content of `NoKeyBlocksExit` without
  ENABLED: under its premise the redemption of a whole position is equivalent to
  assignments to the variables, one for each, so no guard is left that could
  block it. What `VaultProofs` shows of `TwoPartySpec` holds of the contract as
  long as nobody transfers shares to themselves (`ContractIsAnIdealVault`).
* `CallFramesProofs`: the theorems of `BlendVaultProofs` are instantiated on the
  committed state, what the host would restore if the call failed. `FrameInv`
  says that the committed state satisfies `BlendInv`, and for each statement a
  call may be at, how the state differs from the committed one: a deposit's
  tokens are with the pool but not booked, an exit's shares are burnt at the
  committed price but not paid, a harvest holds BLND, then an approval, then the
  proceeds. It is inductive, and its last stage of each call is exactly what
  the one-step call of `BlendVault` does. Hence `CallsAreAllOrNothing`, the
  refinement; `BooksNeverLeadThePool` at every statement;
  `HarvestsLeaveNothingBehind`; `BooksAgreeBetweenCalls`; and the authorization
  properties and the fair prices for calls in pieces (`CallsInPiecesAskFirst`,
  `CallsInPiecesPriceFairly`).
* `EventLogProofs`: `LogSpec => BlendSpec` by construction. `LogInv == BlendInv /\ LogTellsTotals`
  is inductive. `DebitsAreAlwaysAnnounced` and `OverstatementsAreFullExits` follow
  for each step. The latter needs `BlendInv`, because the pool pays what the event
  says only while the two books agree, and that a request is clamped only if it
  exceeds the quote of the position (`ClampedRequestExceedsQuote`).
* `StorageProofs`: `StorageSpec => BlendSpec`, by construction, since the model
  takes from the host that a call whose entry is archived fails. `StorageInv` adds to `BlendInv` that no
  life exceeds the host's longest (`LivesAreBounded`; without it an extension
  capped by the host could shorten a life) and `AllowanceOutlivesExpiration`
  itself. From it follow `AllowancesOutliveTheirExpiration` and `BumpingSuffices`,
  for any thresholds below their bumps and any host lifetimes.
* `SummaryProofs`: for any `SCALAR_7`, kink and configurations whose target is at
  most the kink and whose backstop rate is at most 1. `SummaryInv` is only the
  types; the work is in the arithmetic. The summary is restated as functions of
  what it reads, so that two states can be compared. Each slope lies between the
  exact rate and the exact rate plus its two ceilings (`SlopeBounds`), and never
  leaves the values at its ends, so the three meet without a drop (`IrBounds`,
  `IrMonotonic`) and `EstimatesRiseWithUtilization`. Carrying the ceilings
  through the modifier gives `RateAlwaysFollowsCurve` (`ModifiedSlope`,
  `FollowsBeyondKink`), and `PromisesAreAlwaysCovered` is two floors against one
  ceiling of the utilization.
* `IdealVaultProofs`: what refines `IdealVault` has balances that add up and
  shares that are backed.

Assumptions are those of the constants in the modules that declare them, and of
the pool and the host what section 2 says.

Only model-checked: `NoKeyBlocksExit` in its form with ENABLED, which the prover
does not handle.
Without its condition on self-transfers `ContractIsAnIdealVault` is false: they
break `SharesConserved` (run `self_transfer`). What survives them is proved
without the condition: `NoShareIsEverLost`, and all that follows from `CoreInv`.

## 5. Not modelled

* The pool's and router's insides: limits, pauses, prices, the deadline. They
  appear as refusals, and as any bRate or amount of the sets given.
* The `u32` sum `r_two + r_one + r_base` of `summary.rs:76` and the widths of the
  summary's products: `VaultSummary` has unbounded integers.
* BLND or asset sent to the contract, by others or by an exit that names the
  contract itself as receiver (`tests/test_redeem.rs:170`): it is not among
  `Users`, and `held` is what its harvests leave. `claim_emissions` uses only
  what it claimed and received.
* Error codes, views that return a stored value, string and address handling.
* `testutils.rs`, `tests/`, build and deployment files: no behaviour of the
  contract. They are evidence of how pool and host behave.
* Events that are declared and never emitted (`vault_admin_deposit`,
  `vault_admin_withdraw`).

## 6. Plan

1. Done: arithmetic, accounting core, entry points, ideal vault; storage
   lifetimes, event log, call frames, summary; their runs, and the proofs above.
2. Left to prove: that storage lifetimes, events and calls in pieces compose
   (each is proved to implement `BlendVault` on its own), and that a contract with
   the self-transfer repaired needs no condition in `ContractIsAnIdealVault`.
