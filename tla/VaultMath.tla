----------------------------- MODULE VaultMath -----------------------------
(***************************************************************************)
(* The share arithmetic of vault.rs: the six conversions of VaultData and  *)
(* what vault::deposit, vault::withdraw and vault::redeem compute from the *)
(* vault record, the caller's share balance and the requested amount.      *)
(*                                                                         *)
(* All amounts are i128.  A product that does not fit makes the code panic *)
(* (fixed_mul_floor & co. return None, overflow-checks = true in release), *)
(* and a panic reverts the whole call: an outcome with accepted = FALSE.   *)
(***************************************************************************)
EXTENDS Integers

CONSTANTS
  Scalar,   \* SCALAR_12: the fixed point of the bRate
  MaxI128   \* i128::MAX

ASSUME ScalarAssumption == Scalar \in Nat \ {0}
ASSUME MaxI128Assumption == MaxI128 \in Nat

VaultData ==
  [last_update_timestamp : Nat, b_rate : Nat, total_shares : Nat, total_b_tokens : Nat]

Fits(n) == n <= MaxI128

FloorDiv(a, d) == a \div d
CeilDiv(a, d) == -((-a) \div d)
-----------------------------------------------------------------------------
(***************************************************************************)
(* Conversions, vault.rs:26-77, on a vault record v.                       *)
(***************************************************************************)
IsUnpriced(v) == v.total_shares = 0 \/ v.total_b_tokens = 0

\* Mutant: minted shares rounded in the depositor's favour.
b_tokens_to_shares_down_ceiled(v, amount) ==
  IF IsUnpriced(v) THEN amount
  ELSE CeilDiv(amount * v.total_shares, v.total_b_tokens)

b_tokens_to_shares_down(v, amount) ==
  IF IsUnpriced(v) THEN amount
  ELSE FloorDiv(amount * v.total_shares, v.total_b_tokens)

\* Mutant: burnt shares rounded in the withdrawer's favour.
b_tokens_to_shares_up_floored(v, amount) ==
  IF IsUnpriced(v) THEN amount
  ELSE FloorDiv(amount * v.total_shares, v.total_b_tokens)

\* Mutant: a ceiling written as "floor plus one".
b_tokens_to_shares_up_plus_one(v, amount) ==
  IF IsUnpriced(v) THEN amount
  ELSE FloorDiv(amount * v.total_shares, v.total_b_tokens) + 1

b_tokens_to_shares_up(v, amount) ==
  IF IsUnpriced(v) THEN amount
  ELSE CeilDiv(amount * v.total_shares, v.total_b_tokens)

\* Mutant: quoted shares rounded up.
shares_to_b_tokens_down_ceiled(v, amount) ==
  IF v.total_shares = 0 THEN amount
  ELSE CeilDiv(amount * v.total_b_tokens, v.total_shares)

shares_to_b_tokens_down(v, amount) ==
  IF v.total_shares = 0 THEN amount
  ELSE FloorDiv(amount * v.total_b_tokens, v.total_shares)

b_tokens_to_underlying_down(v, amount) == FloorDiv(amount * v.b_rate, Scalar)

underlying_to_b_tokens_down(v, amount) == FloorDiv(amount * Scalar, v.b_rate)

underlying_to_b_tokens_up(v, amount) == CeilDiv(amount * Scalar, v.b_rate)

\* The underlying that `amount` shares are worth: the composition behind
\* convert_to_assets and get_underlying_tokens.
shares_to_underlying_down(v, amount) ==
  b_tokens_to_underlying_down(v, shares_to_b_tokens_down(v, amount))
-----------------------------------------------------------------------------
(***************************************************************************)
(* When the conversions return at all instead of panicking.                *)
(***************************************************************************)
b_tokens_to_shares_returns(v, amount) == IsUnpriced(v) \/ Fits(amount * v.total_shares)

shares_to_b_tokens_returns(v, amount) ==
  v.total_shares = 0 \/ Fits(amount * v.total_b_tokens)

b_tokens_to_underlying_returns(v, amount) == Fits(amount * v.b_rate)

underlying_to_b_tokens_returns(v, amount) == v.b_rate > 0 /\ Fits(amount * Scalar)

\* shares_to_b_tokens_down, b_tokens_to_underlying_down and
\* underlying_to_b_tokens_up in a row, as a clamped withdrawal and redeem do.
quote_returns(v, shares) ==
  /\ shares_to_b_tokens_returns(v, shares)
  /\ b_tokens_to_underlying_returns(v, shares_to_b_tokens_down(v, shares))
  /\ underlying_to_b_tokens_returns(v, shares_to_underlying_down(v, shares))
-----------------------------------------------------------------------------
\* Mutant: shares are minted for the underlying, not for the bTokens.
deposit_by_underlying(v, user_shares, amount) ==
  LET share_amount == b_tokens_to_shares_down(v, amount)
  IN  [accepted |-> v.b_rate > 0 /\ share_amount > 0,
       b_tokens |-> underlying_to_b_tokens_down(v, amount),
       shares   |-> share_amount]

(***************************************************************************)
(* vault::deposit (vault.rs:107-128) for a caller holding user_shares.     *)
(***************************************************************************)
deposit(v, user_shares, amount) ==
  LET b_tokens_amount == underlying_to_b_tokens_down(v, amount)
      share_amount == b_tokens_to_shares_down(v, b_tokens_amount)
  IN  [accepted |-> /\ underlying_to_b_tokens_returns(v, amount)
                    /\ b_tokens_amount > 0
                    /\ b_tokens_to_shares_returns(v, b_tokens_amount)
                    /\ share_amount > 0
                    /\ Fits(v.total_shares + share_amount)
                    /\ Fits(v.total_b_tokens + b_tokens_amount)
                    /\ Fits(user_shares + share_amount),
       b_tokens |-> b_tokens_amount,
       shares   |-> share_amount]

\* Mutant: an over-large request burns all shares but is paid as asked.
withdraw_keeping_amount(v, user_shares, amount) ==
  LET b_tokens_amount == underlying_to_b_tokens_up(v, amount)
      requested_shares == b_tokens_to_shares_up(v, b_tokens_amount)
  IN  [accepted   |-> /\ underlying_to_b_tokens_returns(v, amount)
                      /\ user_shares > 0
                      /\ requested_shares > 0
                      /\ b_tokens_amount <= v.total_b_tokens,
       underlying |-> amount,
       b_tokens   |-> b_tokens_amount,
       shares     |-> IF requested_shares > user_shares THEN user_shares
                                                        ELSE requested_shares]

\* Mutant: an over-large request is refused, as redeem does.
withdraw_unclamped(v, user_shares, amount) ==
  LET b_tokens_amount == underlying_to_b_tokens_up(v, amount)
      share_amount == b_tokens_to_shares_up(v, b_tokens_amount)
  IN  [accepted   |-> /\ underlying_to_b_tokens_returns(v, amount)
                      /\ share_amount \in 1..user_shares
                      /\ b_tokens_amount <= v.total_b_tokens,
       underlying |-> amount,
       b_tokens   |-> b_tokens_amount,
       shares     |-> share_amount]

(***************************************************************************)
(* vault::withdraw (vault.rs:142-180).  A request worth more than the      *)
(* caller's shares is clamped to all of them, and repriced downwards.      *)
(***************************************************************************)
withdraw(v, user_shares, amount) ==
  LET requested_b_tokens == underlying_to_b_tokens_up(v, amount)
      requested_shares == b_tokens_to_shares_up(v, requested_b_tokens)
      clamped == requested_shares > user_shares
      share_amount == IF clamped THEN user_shares ELSE requested_shares
      underlying_amount ==
        IF clamped THEN shares_to_underlying_down(v, user_shares) ELSE amount
      b_tokens_amount == underlying_to_b_tokens_up(v, underlying_amount)
  IN  [accepted   |-> /\ underlying_to_b_tokens_returns(v, amount)
                      /\ requested_b_tokens > 0
                      /\ b_tokens_to_shares_returns(v, requested_b_tokens)
                      /\ requested_shares > 0
                      /\ clamped => user_shares > 0 /\ quote_returns(v, user_shares)
                      /\ share_amount <= v.total_shares
                      /\ b_tokens_amount <= v.total_b_tokens,
       underlying |-> underlying_amount,
       b_tokens   |-> b_tokens_amount,
       shares     |-> share_amount]

\* Mutant: the burnt bTokens are rounded down, unlike the pool's burn.
redeem_burning_down(v, user_shares, shares) ==
  LET underlying_amount == shares_to_underlying_down(v, shares)
      b_tokens_amount == underlying_to_b_tokens_down(v, underlying_amount)
  IN  [accepted   |-> /\ shares \in 1..user_shares
                      /\ quote_returns(v, shares)
                      /\ underlying_amount > 0
                      /\ shares <= v.total_shares,
       underlying |-> underlying_amount,
       b_tokens   |-> b_tokens_amount,
       shares     |-> shares]

(***************************************************************************)
(* vault::redeem (vault.rs:199-235).  No clamp: an over-large request and  *)
(* one worth nothing are errors.                                           *)
(***************************************************************************)
redeem(v, user_shares, shares) ==
  LET underlying_amount == shares_to_underlying_down(v, shares)
      b_tokens_amount == underlying_to_b_tokens_up(v, underlying_amount)
  IN  [accepted   |-> /\ shares > 0
                      /\ shares <= user_shares
                      /\ quote_returns(v, shares)
                      /\ underlying_amount > 0
                      /\ shares <= v.total_shares
                      /\ b_tokens_amount <= v.total_b_tokens,
       underlying |-> underlying_amount,
       b_tokens   |-> b_tokens_amount,
       shares     |-> shares]
=============================================================================
