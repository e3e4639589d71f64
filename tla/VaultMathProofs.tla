-------------------------- MODULE VaultMathProofs --------------------------
(***************************************************************************)
(* Theorems about the share arithmetic, for every vault record and every   *)
(* amount: what the property tests of vault.rs:260-321 sample; and about   *)
(* sums of balances.                                                       *)
(***************************************************************************)
EXTENDS VaultMath, Functions, FiniteSetTheorems, TLAPS

Positive == Nat \ {0}

\* A floor quotient is the greatest q with q * d <= a.
LEMMA FloorDivBounds ==
  ASSUME NEW a \in Int, NEW d \in Positive
  PROVE  /\ FloorDiv(a, d) \in Int
         /\ d * FloorDiv(a, d) <= a
         /\ a < d * FloorDiv(a, d) + d
  BY DEF FloorDiv, Positive

\* A ceiling quotient is the least q with q * d >= a.
LEMMA CeilDivBounds ==
  ASSUME NEW a \in Int, NEW d \in Positive
  PROVE  /\ CeilDiv(a, d) \in Int
         /\ d * CeilDiv(a, d) >= a
         /\ a > d * CeilDiv(a, d) - d
  BY DEF CeilDiv, Positive

\* Cancelling a positive factor.
LEMMA Cancel ==
  ASSUME NEW q \in Int, NEW r \in Int, NEW d \in Positive
  PROVE  /\ d * q <= d * r => q <= r
         /\ d * q < d * r + d => q <= r
  BY DEF Positive

\* Rounding keeps signs.
LEMMA DivSign ==
  ASSUME NEW a \in Nat, NEW d \in Positive
  PROVE  /\ FloorDiv(a, d) \in Nat
         /\ CeilDiv(a, d) \in Nat
         /\ a > 0 => CeilDiv(a, d) > 0
<1> DEFINE f == FloorDiv(a, d)
           c == CeilDiv(a, d)
<1>1. f \in Int /\ a < d * f + d /\ c \in Int /\ d * c >= a
  BY FloorDivBounds, CeilDivBounds
<1> HIDE DEF f, c
<1>2. d * 0 < d * f + d /\ d * 0 <= d * c
  BY <1>1 DEF Positive
<1>3. f >= 0 /\ c >= 0
  BY <1>1, <1>2, Cancel
<1>4. a > 0 => c # 0
  BY <1>1 DEF Positive
<1> QED  BY <1>1, <1>3, <1>4 DEF f, c

\* Rounding down is monotone, and so is rounding up.
LEMMA DivMonotonic ==
  ASSUME NEW a \in Int, NEW b \in Int, a <= b, NEW d \in Positive
  PROVE  FloorDiv(a, d) <= FloorDiv(b, d) /\ CeilDiv(a, d) <= CeilDiv(b, d)
<1> DEFINE fa == FloorDiv(a, d)
           fb == FloorDiv(b, d)
           ca == CeilDiv(a, d)
           cb == CeilDiv(b, d)
<1>1. /\ fa \in Int /\ d * fa <= a
      /\ fb \in Int /\ b < d * fb + d
      /\ ca \in Int /\ a > d * ca - d
      /\ cb \in Int /\ d * cb >= b
  BY FloorDivBounds, CeilDivBounds
<1> HIDE DEF fa, fb, ca, cb
<1>2. d * fa < d * fb + d /\ d * ca < d * cb + d
  BY <1>1 DEF Positive
<1>3. fa <= fb /\ ca <= cb
  BY <1>1, <1>2, Cancel
<1> QED  BY <1>3 DEF fa, fb, ca, cb

\* Up and down bracket the exact ratio and differ by at most one.
LEMMA UpWithinOneOfDown ==
  ASSUME NEW a \in Int, NEW d \in Positive
  PROVE  CeilDiv(a, d) - FloorDiv(a, d) \in {0, 1}
<1> DEFINE f == FloorDiv(a, d)
           c == CeilDiv(a, d)
<1>1. /\ f \in Int /\ d * f <= a /\ a < d * f + d
      /\ c \in Int /\ d * c >= a /\ a > d * c - d
  BY FloorDivBounds, CeilDivBounds
<1> HIDE DEF f, c
<1>2. d * f <= d * c /\ d * c < d * (f + 1) + d
  BY <1>1 DEF Positive
<1>3. f <= c /\ c <= f + 1
  BY <1>1, <1>2, Cancel
<1> QED  BY <1>1, <1>3 DEF f, c
-----------------------------------------------------------------------------
(***************************************************************************)
(* The conversions of VaultData.                                           *)
(***************************************************************************)

\* The types of the fields of a vault record.
LEMMA VaultDataFields ==
  ASSUME NEW v \in VaultData
  PROVE  /\ v.total_shares \in Nat
         /\ v.total_b_tokens \in Nat
         /\ v.b_rate \in Nat
         /\ v.last_update_timestamp \in Nat
  BY DEF VaultData

\* What shares are quoted never exceeds their part of the bTokens, and the
\* bTokens the pool burns to pay the quote never exceed what was quoted.
LEMMA QuoteIsCovered ==
  ASSUME NEW v \in VaultData, v.total_shares > 0, v.b_rate > 0,
         NEW n \in Nat
  PROVE  LET quoted == shares_to_b_tokens_down(v, n)
             underlying == shares_to_underlying_down(v, n)
             burnt == underlying_to_b_tokens_up(v, underlying)
         IN  /\ quoted \in Nat
             /\ quoted * v.total_shares <= n * v.total_b_tokens
             /\ underlying \in Nat
             /\ underlying * Scalar <= quoted * v.b_rate
             /\ burnt \in 0..quoted
             /\ burnt * v.total_shares <= n * v.total_b_tokens
<1> DEFINE S == v.total_shares
           B == v.total_b_tokens
           r == v.b_rate
           quoted == shares_to_b_tokens_down(v, n)
           underlying == b_tokens_to_underlying_down(v, quoted)
           burnt == underlying_to_b_tokens_up(v, underlying)
<1>0. S \in Positive /\ B \in Nat /\ r \in Positive /\ Scalar \in Positive
  BY VaultDataFields, ScalarAssumption DEF Positive
<1>1. quoted \in Nat /\ S * quoted <= n * B
  <2>1. n * B \in Nat
    BY <1>0
  <2>2. quoted = FloorDiv(n * B, S)
    BY <1>0 DEF shares_to_b_tokens_down
  <2> QED  BY <1>0, <2>1, <2>2, FloorDivBounds, DivSign
<1>2. underlying \in Nat /\ Scalar * underlying <= quoted * r
  <2>1. quoted * r \in Nat
    BY <1>0, <1>1 DEF Positive
  <2>2. underlying = FloorDiv(quoted * r, Scalar)
    BY DEF b_tokens_to_underlying_down
  <2> QED  BY <1>0, <2>1, <2>2, FloorDivBounds, DivSign
<1>3. burnt \in Nat /\ burnt <= quoted
  <2>1. underlying * Scalar \in Nat
    BY <1>0, <1>2 DEF Positive
  <2>2. burnt = CeilDiv(underlying * Scalar, r)
    BY DEF underlying_to_b_tokens_up
  <2>3. burnt \in Nat /\ underlying * Scalar > r * burnt - r
    BY <1>0, <2>1, <2>2, CeilDivBounds, DivSign
  <2> HIDE DEF quoted, underlying, burnt, S, B, r
  <2>4. r * burnt < r * quoted + r
    BY <1>0, <1>1, <1>2, <2>3 DEF Positive
  <2> QED  BY <1>0, <1>1, <2>3, <2>4, Cancel
<1>4. burnt * S <= n * B
  <2> HIDE DEF quoted, underlying, burnt, S, B, r
  <2>1. burnt * S <= quoted * S
    BY <1>0, <1>1, <1>3 DEF Positive
  <2> QED  BY <1>0, <1>1, <1>3, <2>1 DEF Positive
<1>5. quoted * S <= n * B /\ underlying * Scalar <= quoted * r
  <2> HIDE DEF quoted, underlying, burnt, S, B, r
  <2> QED  BY <1>0, <1>1, <1>2 DEF Positive
<1> QED  BY <1>1, <1>2, <1>3, <1>4, <1>5 DEF shares_to_underlying_down
-----------------------------------------------------------------------------
(***************************************************************************)
(* The handlers.                                                           *)
(***************************************************************************)

\* A deposit mints no more than the depositor's part of the bTokens it brings,
\* and no more shares than bTokens as long as shares are not in the majority.
THEOREM DepositMintsProRata ==
  ASSUME NEW v \in VaultData, NEW user_shares \in Nat, NEW amount \in Positive,
         deposit(v, user_shares, amount).accepted
  PROVE  LET minted == deposit(v, user_shares, amount)
         IN  /\ minted.b_tokens \in Positive
             /\ minted.b_tokens = FloorDiv(amount * Scalar, v.b_rate)
             /\ minted.shares \in Positive
             /\ minted.shares * v.total_b_tokens <= minted.b_tokens * v.total_shares
                  \/ v.total_shares = 0
             /\ v.total_shares <= v.total_b_tokens => minted.shares <= minted.b_tokens
<1> DEFINE S == v.total_shares
           B == v.total_b_tokens
           b == underlying_to_b_tokens_down(v, amount)
           s == b_tokens_to_shares_down(v, b)
<1>0. S \in Nat /\ B \in Nat /\ v.b_rate \in Positive /\ amount * Scalar \in Nat
  BY VaultDataFields, ScalarAssumption
     DEF deposit, underlying_to_b_tokens_returns, Positive
<1>1. b \in Positive
  <2>1. b = FloorDiv(amount * Scalar, v.b_rate)
    BY DEF underlying_to_b_tokens_down
  <2>2. b \in Int
    BY <1>0, <2>1, FloorDivBounds
  <2>3. b > 0
    BY DEF deposit
  <2> QED  BY <2>2, <2>3 DEF Positive
<1>2. CASE IsUnpriced(v)
  <2>1. s = b
    BY <1>2 DEF b_tokens_to_shares_down
  <2>2. S = 0 \/ B = 0
    BY <1>2 DEF IsUnpriced
  <2>3. s * B <= b * S \/ S = 0
    BY <1>0, <1>1, <2>1, <2>2 DEF Positive
  <2> QED
    BY <1>1, <2>1, <2>3 DEF deposit, underlying_to_b_tokens_down, Positive
<1>3. CASE ~IsUnpriced(v)
  <2>1. S \in Positive /\ B \in Positive /\ s = FloorDiv(b * S, B)
    BY <1>0, <1>3 DEF IsUnpriced, b_tokens_to_shares_down, Positive
  <2>2. s \in Int /\ B * s <= b * S
    <3>1. b * S \in Int
      BY <1>1, <2>1 DEF Positive
    <3> QED  BY <2>1, <3>1, FloorDivBounds
  <2>3. s > 0
    BY DEF deposit
  <2>4. S <= B => s <= b
    <3> HIDE DEF S, B, b, s
    <3>1. S <= B => B * s <= B * b
      BY <1>1, <2>1, <2>2 DEF Positive
    <3> QED  BY <1>1, <2>1, <2>2, <3>1, Cancel DEF Positive
  <2>5. s * B <= b * S
    <3> HIDE DEF S, B, b, s
    <3> QED  BY <1>1, <2>1, <2>2 DEF Positive
  <2> QED
    BY <1>1, <2>2, <2>3, <2>4, <2>5 DEF deposit, underlying_to_b_tokens_down, Positive
<1> QED  BY <1>2, <1>3

\* What an exit of an owner of user_shares may take from the vault.
IsProRataExit(v, user_shares, burnt) ==
  /\ burnt.shares \in 1..user_shares
  /\ burnt.shares <= v.total_shares
  /\ burnt.b_tokens \in 0..v.total_b_tokens
  /\ burnt.b_tokens * v.total_shares <= burnt.shares * v.total_b_tokens
  /\ burnt.underlying \in Nat
  /\ burnt.b_tokens = underlying_to_b_tokens_up(v, burnt.underlying)

\* An accepted withdrawal, clamped or not, burns at least the shares that back
\* the bTokens it takes, and records exactly the bTokens the pool will burn.
THEOREM WithdrawIsProRata ==
  ASSUME NEW v \in VaultData, NEW user_shares \in Nat, NEW amount \in Positive,
         withdraw(v, user_shares, amount).accepted
  PROVE  IsProRataExit(v, user_shares, withdraw(v, user_shares, amount))
<1> DEFINE S == v.total_shares
           B == v.total_b_tokens
           b == underlying_to_b_tokens_up(v, amount)
           s == b_tokens_to_shares_up(v, b)
           w == withdraw(v, user_shares, amount)
<1>0. S \in Nat /\ B \in Nat /\ v.b_rate \in Positive /\ amount * Scalar \in Nat
  BY VaultDataFields, ScalarAssumption
     DEF withdraw, underlying_to_b_tokens_returns, Positive
<1>1. b \in Positive
  <2>1. b = CeilDiv(amount * Scalar, v.b_rate)
    BY DEF underlying_to_b_tokens_up
  <2>2. b \in Int
    BY <1>0, <2>1, CeilDivBounds
  <2>3. b > 0
    BY DEF withdraw
  <2> QED  BY <2>2, <2>3 DEF Positive
<1>2. CASE s > user_shares
  <2>1. /\ w.shares = user_shares
        /\ w.underlying = shares_to_underlying_down(v, user_shares)
        /\ w.b_tokens = underlying_to_b_tokens_up(v, w.underlying)
    BY <1>2 DEF withdraw
  <2>2. user_shares > 0 /\ user_shares <= S /\ w.b_tokens <= B
    BY <1>2 DEF withdraw
  <2>3. w.underlying \in Nat /\ w.b_tokens \in Nat /\ w.b_tokens * S <= user_shares * B
    BY <1>0, <2>1, <2>2, QuoteIsCovered DEF Positive
  <2> QED  BY <1>0, <2>1, <2>2, <2>3 DEF IsProRataExit
<1>3. CASE ~(s > user_shares)
  <2>1. w.shares = s /\ w.underlying = amount /\ w.b_tokens = b
    BY <1>3 DEF withdraw
  <2>2. s > 0 /\ s <= S /\ b <= B
    BY <1>3 DEF withdraw
  <2>3. s \in Int /\ b * S <= s * B
    <3>1. CASE IsUnpriced(v)
      <4>1. s = b
        BY <3>1 DEF b_tokens_to_shares_up
      <4> QED  BY <1>0, <1>1, <2>2, <3>1, <4>1 DEF IsUnpriced, Positive
    <3>2. CASE ~IsUnpriced(v)
      <4>1. B \in Positive /\ s = CeilDiv(b * S, B)
        BY <1>0, <3>2 DEF IsUnpriced, b_tokens_to_shares_up, Positive
      <4>2. s \in Int /\ B * s >= b * S
        <5>1. b * S \in Int
          BY <1>0, <1>1 DEF Positive
        <5> QED  BY <4>1, <5>1, CeilDivBounds
      <4> HIDE DEF S, B, b, s
      <4> QED  BY <1>0, <1>1, <4>1, <4>2 DEF Positive
    <3> QED  BY <3>1, <3>2
  <2> QED  BY <1>0, <1>1, <1>3, <2>1, <2>2, <2>3 DEF IsProRataExit, Positive
<1> QED  BY <1>2, <1>3

\* The same for an accepted redemption.
THEOREM RedeemIsProRata ==
  ASSUME NEW v \in VaultData, NEW user_shares \in Nat, NEW amount \in Positive,
         redeem(v, user_shares, amount).accepted
  PROVE  IsProRataExit(v, user_shares, redeem(v, user_shares, amount))
<1> DEFINE x == redeem(v, user_shares, amount)
<1>1. /\ amount <= user_shares
      /\ amount <= v.total_shares
      /\ x.b_tokens <= v.total_b_tokens
      /\ v.b_rate > 0
  BY DEF redeem, quote_returns, underlying_to_b_tokens_returns
<1>2. /\ x.shares = amount
      /\ x.underlying = shares_to_underlying_down(v, amount)
      /\ x.b_tokens = underlying_to_b_tokens_up(v, x.underlying)
  BY DEF redeem
<1>3. /\ x.underlying \in Nat
      /\ x.b_tokens \in Nat
      /\ x.b_tokens * v.total_shares <= amount * v.total_b_tokens
  BY <1>1, <1>2, VaultDataFields, QuoteIsCovered DEF Positive
<1> QED  BY <1>1, <1>2, <1>3, VaultDataFields DEF IsProRataExit, Positive

\* Neither shares nor bTokens gain by being converted forth and back
\* (share_round_trip_never_gains, underlying_round_trip_never_gains).
THEOREM RoundTripsNeverGain ==
  ASSUME NEW v \in VaultData, NEW n \in Nat
  PROVE  /\ shares_to_b_tokens_down(v, b_tokens_to_shares_down(v, n)) <= n
         /\ v.b_rate > 0
              => b_tokens_to_underlying_down(v, underlying_to_b_tokens_down(v, n)) <= n
<1> DEFINE S == v.total_shares
           B == v.total_b_tokens
           r == v.b_rate
<1>1. S \in Nat /\ B \in Nat /\ r \in Nat /\ Scalar \in Positive
  BY VaultDataFields, ScalarAssumption DEF Positive
<1>2. shares_to_b_tokens_down(v, b_tokens_to_shares_down(v, n)) <= n
  <2>1. CASE S = 0
    BY <2>1 DEF shares_to_b_tokens_down, b_tokens_to_shares_down, IsUnpriced
  <2>2. CASE S # 0 /\ B = 0
    <3>1. shares_to_b_tokens_down(v, b_tokens_to_shares_down(v, n)) = FloorDiv(n * B, S)
      BY <2>2 DEF shares_to_b_tokens_down, b_tokens_to_shares_down, IsUnpriced
    <3> HIDE DEF S, B
    <3>2. S \in Positive /\ n * B = 0
      BY <1>1, <2>2 DEF Positive
    <3>3. FloorDiv(n * B, S) = 0
      BY <3>2 DEF FloorDiv, Positive
    <3> QED  BY <3>1, <3>3
  <2>3. CASE S # 0 /\ B # 0
    <3> DEFINE s == FloorDiv(n * S, B)
               b == FloorDiv(s * B, S)
    <3>1. shares_to_b_tokens_down(v, b_tokens_to_shares_down(v, n)) = b
      BY <2>3 DEF shares_to_b_tokens_down, b_tokens_to_shares_down, IsUnpriced
    <3>2. S \in Positive /\ B \in Positive
      BY <1>1, <2>3 DEF Positive
    <3> HIDE DEF S, B
    <3>3. n * S \in Int
      BY <1>1
    <3>4. s \in Int /\ B * s <= n * S
      BY <3>2, <3>3, FloorDivBounds
    <3> HIDE DEF s
    <3>5. s * B \in Int /\ s * B <= n * S
      BY <1>1, <3>4
    <3>6. b \in Int /\ S * b <= s * B
      BY <3>2, <3>5, FloorDivBounds
    <3> HIDE DEF b
    <3>7. S * b <= S * n
      BY <1>1, <3>3, <3>5, <3>6
    <3> QED  BY <3>1, <3>2, <3>6, <3>7, Cancel
  <2> QED  BY <2>1, <2>2, <2>3
<1>3. ASSUME r > 0
      PROVE  b_tokens_to_underlying_down(v, underlying_to_b_tokens_down(v, n)) <= n
  <2> DEFINE b == FloorDiv(n * Scalar, r)
             paid == FloorDiv(b * r, Scalar)
  <2>1. b_tokens_to_underlying_down(v, underlying_to_b_tokens_down(v, n)) = paid
    BY DEF b_tokens_to_underlying_down, underlying_to_b_tokens_down
  <2> HIDE DEF r
  <2>2. r \in Positive /\ n * Scalar \in Int
    BY <1>1, <1>3 DEF Positive
  <2>3. b \in Int /\ r * b <= n * Scalar
    BY <2>2, FloorDivBounds
  <2> HIDE DEF b
  <2>4. b * r \in Int /\ b * r <= n * Scalar
    BY <1>1, <2>3
  <2>5. paid \in Int /\ Scalar * paid <= b * r
    BY <1>1, <2>4, FloorDivBounds
  <2> HIDE DEF paid
  <2>6. Scalar * paid <= Scalar * n
    BY <1>1, <2>2, <2>4, <2>5 DEF Positive
  <2> QED  BY <1>1, <2>1, <2>5, <2>6, Cancel
<1> QED  BY <1>2, <1>3

\* Once a deposit is booked, the shares it minted are worth no more than it
\* paid, unless dust of former holders was waiting for a first depositor
\* (deposit_then_full_withdraw_never_profits).
THEOREM DepositNeverProfits ==
  ASSUME NEW v \in VaultData, NEW user_shares \in Nat, NEW amount \in Positive,
         v.total_shares = 0 => v.total_b_tokens = 0,
         deposit(v, user_shares, amount).accepted, NEW after \in VaultData,
         after.b_rate = v.b_rate,
         after.total_shares = v.total_shares + deposit(v, user_shares, amount).shares,
         after.total_b_tokens = v.total_b_tokens + deposit(v, user_shares, amount).b_tokens
  PROVE  shares_to_underlying_down(after, deposit(v, user_shares, amount).shares) <= amount
<1> DEFINE S == v.total_shares
           B == v.total_b_tokens
           r == v.b_rate
           s == deposit(v, user_shares, amount).shares
           b == deposit(v, user_shares, amount).b_tokens
           quoted == FloorDiv(s * (B + b), S + s)
           paid == FloorDiv(quoted * r, Scalar)
<1>1. /\ b \in Positive /\ s \in Positive /\ b = FloorDiv(amount * Scalar, r)
      /\ s * B <= b * S \/ S = 0
  BY DepositMintsProRata
<1>2. S \in Nat /\ B \in Nat /\ r \in Positive /\ Scalar \in Positive /\ (S = 0 => B = 0)
  BY VaultDataFields, ScalarAssumption DEF deposit, underlying_to_b_tokens_returns, Positive
<1>3. shares_to_underlying_down(after, s) = paid
  <2>1. S + s # 0
    BY <1>1, <1>2 DEF Positive
  <2> HIDE DEF s, b
  <2> QED
    BY <2>1 DEF shares_to_underlying_down, shares_to_b_tokens_down, b_tokens_to_underlying_down,
                s, b
<1> HIDE DEF S, B, r, s, b
<1>4. r * b <= amount * Scalar
  <2>1. amount * Scalar \in Int
    BY <1>2 DEF Positive
  <2> QED  BY <1>1, <1>2, <2>1, FloorDivBounds
<1>5. s * (B + b) <= (S + s) * b
  <2>1. s * B <= b * S
    BY <1>1, <1>2 DEF Positive
  <2>2. s * (B + b) = s * B + s * b /\ (S + s) * b = b * S + s * b
    BY <1>1, <1>2 DEF Positive
  <2>3. s * B \in Int /\ s * b \in Int /\ b * S \in Int
    BY <1>1, <1>2 DEF Positive
  <2> QED  BY <2>1, <2>2, <2>3
<1>6. quoted \in Int /\ quoted <= b
  <2>1. S + s \in Positive /\ s * (B + b) \in Int /\ b \in Int /\ (S + s) * b \in Int
    BY <1>1, <1>2 DEF Positive
  <2>2. quoted \in Int /\ (S + s) * quoted <= s * (B + b)
    BY <2>1, FloorDivBounds
  <2> HIDE DEF quoted
  <2>3. (S + s) * quoted <= (S + s) * b
    <3>1. (S + s) * quoted \in Int
      BY <2>1, <2>2 DEF Positive
    <3> QED  BY <1>5, <2>1, <2>2, <3>1
  <2> QED  BY <2>1, <2>2, <2>3, Cancel
<1> HIDE DEF quoted
<1>7. paid \in Int /\ Scalar * paid <= quoted * r
  <2>1. quoted * r \in Int
    BY <1>2, <1>6 DEF Positive
  <2> QED  BY <1>2, <2>1, FloorDivBounds
<1> HIDE DEF paid
<1>8. quoted * r <= r * b
  BY <1>1, <1>2, <1>6 DEF Positive
<1>9. Scalar * paid <= Scalar * amount
  <2>1. quoted * r \in Int /\ r * b \in Int /\ Scalar * paid \in Int /\ amount * Scalar \in Int
    BY <1>1, <1>2, <1>6, <1>7 DEF Positive
  <2>2. amount * Scalar = Scalar * amount
    BY <1>2 DEF Positive
  <2> QED  BY <1>4, <1>7, <1>8, <2>1, <2>2
<1>10. paid <= amount
  BY <1>2, <1>7, <1>9, Cancel DEF Positive
<1> QED  BY <1>3, <1>10 DEF s
-----------------------------------------------------------------------------
(***************************************************************************)
(* SumFunction of the community modules on finite sets of holders: what one *)
(* updated balance does to the sum of all of them.  Induction over the     *)
(* holders is by a minimal counterexample.                                 *)
(***************************************************************************)

\* The element the community modules' fold takes off a set first.
Pick(s) == CHOOSE x \in s : TRUE

\* T tabulates the sums of f over all subsets of J.
IsTable(T, f, J) ==
  T = [s \in SUBSET J |-> IF s = {} THEN 0 ELSE f[Pick(s)] + T[s \ {Pick(s)}]]

Table(f, J) == CHOOSE T : IsTable(T, f, J)

\* The library's sum over J is the last entry of a table over the subsets of J.
LEMMA SumIsTabulated ==
  ASSUME NEW f, NEW J
  PROVE  SumFunctionOnSet(f, J) = Table(f, J)[J]
  BY Zenon DEF SumFunctionOnSet, FoldFunctionOnSet, MapThenFoldSet, Table, IsTable, Pick

\* A nonempty set of subsets of a finite set has a minimal member.
LEMMA MinimalSubset ==
  ASSUME NEW J, IsFiniteSet(J), NEW Bad \in SUBSET SUBSET J, Bad # {}
  PROVE  \E K \in Bad : \A L \in Bad : L \subseteq K => L = K
<1>1. IsWellFoundedOn(StrictSubsetOrdering(J), SUBSET J)
  BY FS_StrictSubsetOrderingWellFounded, FS_FiniteSubsetsOfFinite
<1>2. PICK K \in Bad : \A L \in Bad : ~ (<<L, K>> \in StrictSubsetOrdering(J))
  <2> HIDE DEF StrictSubsetOrdering
  <2> QED  BY <1>1, WFMin
<1>3. ASSUME NEW L \in Bad, L \subseteq K
      PROVE  L = K
  BY <1>2, <1>3 DEF StrictSubsetOrdering
<1> QED  BY <1>2, <1>3

\* Pick finds an element.
LEMMA PickInSet == ASSUME NEW s, s # {} PROVE Pick(s) \in s
  BY DEF Pick

\* One entry of a table, in terms of a smaller one.
LEMMA TableEntry ==
  ASSUME NEW f, NEW J, NEW T, IsTable(T, f, J), NEW s \in SUBSET J
  PROVE  T[s] = IF s = {} THEN 0 ELSE f[Pick(s)] + T[s \ {Pick(s)}]
  BY DEF IsTable

\* A finite set has at most one table.
LEMMA TableUnique ==
  ASSUME NEW f, NEW J, IsFiniteSet(J), NEW T, NEW U, IsTable(T, f, J), IsTable(U, f, J)
  PROVE  T = U
<1> DEFINE Bad == {s \in SUBSET J : T[s] # U[s]}
<1>1. Bad = {}
  <2> SUFFICES ASSUME Bad # {} PROVE FALSE
    OBVIOUS
  <2>1. PICK K \in Bad : \A L \in Bad : L \subseteq K => L = K
    <3>1. Bad \in SUBSET SUBSET J
      OBVIOUS
    <3> HIDE DEF Bad
    <3> QED  BY <3>1, MinimalSubset
  <2>2. K # {}
    BY TableEntry
  <2>3. K \ {Pick(K)} \in SUBSET J /\ K \ {Pick(K)} # K
    BY <2>2, PickInSet
  <2>4. T[K \ {Pick(K)}] = U[K \ {Pick(K)}]
    BY <2>1, <2>3
  <2>5. T[K] = U[K]
    BY <2>2, <2>4, TableEntry
  <2> QED  BY <2>1, <2>5
<1>2. \A s \in SUBSET J : T[s] = U[s]
  BY <1>1
<1>3. T = [s \in SUBSET J |-> T[s]] /\ U = [s \in SUBSET J |-> U[s]]
  BY DEF IsTable
<1> QED  BY <1>2, <1>3

\* A table over J, cut down to the subsets of K, is one over K.
LEMMA TableRestricts ==
  ASSUME NEW f, NEW J, NEW T, IsTable(T, f, J), NEW K \in SUBSET J
  PROVE  IsTable([s \in SUBSET K |-> T[s]], f, K)
<1> DEFINE R == [s \in SUBSET K |-> T[s]]
<1>1. ASSUME NEW s \in SUBSET K
      PROVE  R[s] = IF s = {} THEN 0 ELSE f[Pick(s)] + R[s \ {Pick(s)}]
  <2>1. s \in SUBSET J /\ s \ {Pick(s)} \in SUBSET K
    OBVIOUS
  <2>2. R[s] = T[s] /\ R[s \ {Pick(s)}] = T[s \ {Pick(s)}]
    BY <2>1
  <2> QED  BY <2>1, <2>2, TableEntry
<1>2. R = [s \in SUBSET K |-> R[s]]
  OBVIOUS
<1> HIDE DEF R
<1>3. IsTable(R, f, K)
  BY <1>1, <1>2 DEF IsTable
<1> QED  BY <1>3 DEF R

\* Every finite set has a table.
LEMMA TableExists ==
  ASSUME NEW f, NEW J, IsFiniteSet(J)
  PROVE  \E T : IsTable(T, f, J)
<1> DEFINE Bad == {K \in SUBSET J : ~ \E T : IsTable(T, f, K)}
<1> SUFFICES ASSUME Bad # {} PROVE FALSE
  OBVIOUS
<1>1. PICK K \in Bad : \A L \in Bad : L \subseteq K => L = K
  <2>1. Bad \in SUBSET SUBSET J
    OBVIOUS
  <2> HIDE DEF Bad
  <2> QED  BY <2>1, MinimalSubset
<1> DEFINE rest(s) == s \ {Pick(s)}
           T == [s \in SUBSET K |->
                   IF s = {} THEN 0 ELSE f[Pick(s)] + Table(f, rest(s))[rest(s)]]
<1>2. ASSUME NEW r \in SUBSET K, r # K
      PROVE  IsTable(Table(f, r), f, r)
  <2>1. r \in SUBSET J /\ r \notin Bad
    BY <1>1, <1>2
  <2>2. \E U : IsTable(U, f, r)
    BY <2>1
  <2> QED  BY <2>2 DEF Table
<1>3. ASSUME NEW r \in SUBSET K, r # K
      PROVE  T[r] = Table(f, r)[r]
  <2>1. CASE r = {}
    <3>1. Table(f, r)[r] = 0
      BY <1>2, <1>3, <2>1, TableEntry
    <3> QED  BY <2>1, <3>1
  <2>2. CASE r # {}
    <3> DEFINE q == rest(r)
    <3>1. q \in SUBSET r /\ q \in SUBSET K /\ q # K /\ IsFiniteSet(q)
      <4>1. Pick(r) \in r
        BY <2>2, PickInSet
      <4>2. IsFiniteSet(K)
        BY FS_Subset
      <4> QED  BY <4>1, <4>2, FS_Subset
    <3>2. IsTable([s \in SUBSET q |-> Table(f, r)[s]], f, q)
      BY <1>2, <1>3, <3>1, TableRestricts
    <3>3. IsTable(Table(f, q), f, q)
      BY <1>2, <3>1
    <3>4. Table(f, q) = [s \in SUBSET q |-> Table(f, r)[s]]
      BY <3>1, <3>2, <3>3, TableUnique
    <3>5. Table(f, q)[q] = Table(f, r)[q]
      BY <3>4, q \in SUBSET q
    <3>6. Table(f, r)[r] = f[Pick(r)] + Table(f, r)[q]
      BY <1>2, <1>3, <2>2, TableEntry, r \in SUBSET r
    <3> QED  BY <2>2, <3>5, <3>6
  <2> QED  BY <2>1, <2>2
<1>4. ASSUME NEW s \in SUBSET K
      PROVE  T[s] = IF s = {} THEN 0 ELSE f[Pick(s)] + T[rest(s)]
  <2>1. CASE s = {}
    BY <2>1
  <2>2. CASE s # {}
    <3>1. rest(s) \in SUBSET K /\ rest(s) # K
      BY <2>2, PickInSet
    <3>2. T[rest(s)] = Table(f, rest(s))[rest(s)]
      BY <1>3, <3>1
    <3> QED  BY <2>2, <3>2
  <2> QED  BY <2>1, <2>2
<1>5. T = [s \in SUBSET K |-> T[s]]
  OBVIOUS
<1> HIDE DEF T
<1>6. IsTable(T, f, K)
  BY <1>4, <1>5 DEF IsTable
<1> QED  BY <1>1, <1>6
-----------------------------------------------------------------------------
(***************************************************************************)
(* Sums of integer balances over a finite set.                             *)
(***************************************************************************)

\* Nothing sums to 0.
LEMMA SumEmpty == ASSUME NEW f PROVE SumFunctionOnSet(f, {}) = 0
<1>1. IsTable(Table(f, {}), f, {})
  BY TableExists, FS_EmptySet DEF Table
<1> QED  BY <1>1, SumIsTabulated, TableEntry

\* The sum takes off the picked element first.
LEMMA SumPicks ==
  ASSUME NEW f, NEW J, IsFiniteSet(J), J # {}
  PROVE  SumFunctionOnSet(f, J) = f[Pick(J)] + SumFunctionOnSet(f, J \ {Pick(J)})
<1> DEFINE K == J \ {Pick(J)}
<1>1. IsFiniteSet(K) /\ K \in SUBSET J
  BY FS_Subset
<1>2. IsTable(Table(f, J), f, J) /\ IsTable(Table(f, K), f, K)
  BY <1>1, TableExists DEF Table
<1>3. IsTable([s \in SUBSET K |-> Table(f, J)[s]], f, K)
  BY <1>1, <1>2, TableRestricts
<1>4. Table(f, K) = [s \in SUBSET K |-> Table(f, J)[s]]
  BY <1>1, <1>2, <1>3, TableUnique
<1>5. Table(f, K)[K] = Table(f, J)[K]
  BY <1>4, K \in SUBSET K
<1>6. Table(f, J)[J] = f[Pick(J)] + Table(f, J)[K]
  BY <1>2, TableEntry, J \in SUBSET J
<1> QED  BY <1>5, <1>6, SumIsTabulated

\* The sum does not depend on the order: any element may be taken off first.
LEMMA SumTakesOff ==
  ASSUME NEW f, NEW J, IsFiniteSet(J), \A y \in J : f[y] \in Int
  PROVE  /\ SumFunctionOnSet(f, J) \in Int
         /\ \A x \in J : SumFunctionOnSet(f, J) = f[x] + SumFunctionOnSet(f, J \ {x})
<1> DEFINE Sum(s) == SumFunctionOnSet(f, s)
           Good(s) == Sum(s) \in Int /\ \A x \in s : Sum(s) = f[x] + Sum(s \ {x})
           Bad == {s \in SUBSET J : ~ Good(s)}
<1>1. Bad = {}
  <2> SUFFICES ASSUME Bad # {} PROVE FALSE
    OBVIOUS
  <2>1. PICK K \in Bad : \A L \in Bad : L \subseteq K => L = K
    <3>1. Bad \in SUBSET SUBSET J
      OBVIOUS
    <3> HIDE DEF Bad
    <3> QED  BY <3>1, MinimalSubset
  <2>2. \A L \in SUBSET K : L # K => Good(L)
    BY <2>1
  <2> HIDE DEF Good
  <2>3. K # {}
    <3>1. Good({})
      BY SumEmpty DEF Good
    <3> QED  BY <2>1, <3>1
  <2> DEFINE c == Pick(K)
  <2>4. c \in K /\ K \subseteq J /\ IsFiniteSet(K)
    BY <2>1, <2>3, PickInSet, FS_Subset
  <2>5. Sum(K) = f[c] + Sum(K \ {c})
    BY <2>3, <2>4, SumPicks
  <2>6. Good(K \ {c})
    BY <2>2, <2>4
  <2> HIDE DEF c
  <2>7. Sum(K) \in Int
    BY <2>4, <2>5, <2>6 DEF Good
  <2>8. ASSUME NEW x \in K, x # c
        PROVE  Sum(K) = f[x] + Sum(K \ {x})
    <3>1. Good(K \ {x})
      BY <2>2, K \ {x} # K
    <3>2. (K \ {c}) \ {x} = (K \ {x}) \ {c}
      OBVIOUS
    <3>3. Sum(K \ {c}) = f[x] + Sum((K \ {x}) \ {c})
      BY <2>6, <2>8, <3>2 DEF Good
    <3>4. Sum(K \ {x}) = f[c] + Sum((K \ {x}) \ {c})
      BY <2>4, <2>8, <3>1 DEF Good
    <3>5. Good((K \ {x}) \ {c})
      BY <2>2, (K \ {x}) \ {c} # K, (K \ {x}) \ {c} \in SUBSET K
    <3>6. Sum((K \ {x}) \ {c}) \in Int /\ f[x] \in Int /\ f[c] \in Int
      BY <2>4, <3>5 DEF Good
    <3> DEFINE both == Sum((K \ {x}) \ {c})
    <3> HIDE DEF both, Sum
    <3>7. both \in Int /\ Sum(K) = f[c] + (f[x] + both) /\ Sum(K \ {x}) = f[c] + both
      BY <2>5, <3>3, <3>4, <3>6 DEF both, Sum
    <3> QED  BY <3>6, <3>7
  <2>9. Good(K)
    BY <2>5, <2>7, <2>8 DEF Good
  <2> QED  BY <2>1, <2>9
<1>2. Good(J)
  BY <1>1, J \in SUBSET J
<1> QED  BY <1>2

\* Equal balances have equal sums.
LEMMA SumAgrees ==
  ASSUME NEW f, NEW g, NEW J, IsFiniteSet(J), \A x \in J : f[x] = g[x]
  PROVE  SumFunctionOnSet(f, J) = SumFunctionOnSet(g, J)
<1> DEFINE Bad == {s \in SUBSET J : SumFunctionOnSet(f, s) # SumFunctionOnSet(g, s)}
<1>1. Bad = {}
  <2> SUFFICES ASSUME Bad # {} PROVE FALSE
    OBVIOUS
  <2>1. PICK K \in Bad : \A L \in Bad : L \subseteq K => L = K
    <3>1. Bad \in SUBSET SUBSET J
      OBVIOUS
    <3> HIDE DEF Bad
    <3> QED  BY <3>1, MinimalSubset
  <2>2. K # {} /\ IsFiniteSet(K) /\ K \subseteq J
    BY <2>1, SumEmpty, FS_Subset
  <2>3. Pick(K) \in K /\ K \ {Pick(K)} # K
    BY <2>2, PickInSet
  <2>4. SumFunctionOnSet(f, K \ {Pick(K)}) = SumFunctionOnSet(g, K \ {Pick(K)})
    BY <2>1, <2>2, <2>3
  <2> QED  BY <2>1, <2>2, <2>3, <2>4, SumPicks
<1> QED  BY <1>1, J \in SUBSET J

\* Balances that are not negative have a sum that is not, and that bounds each.
LEMMA SumOfNaturals ==
  ASSUME NEW f, NEW J, IsFiniteSet(J), \A x \in J : f[x] \in Nat
  PROVE  SumFunctionOnSet(f, J) \in Nat /\ \A x \in J : f[x] <= SumFunctionOnSet(f, J)
<1> DEFINE Sum(s) == SumFunctionOnSet(f, s)
           Bad == {s \in SUBSET J : Sum(s) \notin Nat}
<1>1. Bad = {}
  <2> SUFFICES ASSUME Bad # {} PROVE FALSE
    OBVIOUS
  <2>1. PICK K \in Bad : \A L \in Bad : L \subseteq K => L = K
    <3>1. Bad \in SUBSET SUBSET J
      OBVIOUS
    <3> HIDE DEF Bad
    <3> QED  BY <3>1, MinimalSubset
  <2>2. K # {} /\ IsFiniteSet(K) /\ K \subseteq J
    <3>1. Sum({}) \in Nat
      BY SumEmpty
    <3> QED  BY <2>1, <3>1, FS_Subset
  <2>3. Pick(K) \in K /\ K \ {Pick(K)} # K
    BY <2>2, PickInSet
  <2>4. Sum(K \ {Pick(K)}) \in Nat /\ f[Pick(K)] \in Nat
    BY <2>1, <2>2, <2>3
  <2>5. Sum(K) \in Nat
    BY <2>2, <2>4, SumPicks
  <2> QED  BY <2>1, <2>5
<1>2. \A s \in SUBSET J : Sum(s) \in Nat
  BY <1>1
<1>3. ASSUME NEW x \in J PROVE f[x] <= Sum(J)
  <2>1. Sum(J) = f[x] + Sum(J \ {x})
    BY SumTakesOff
  <2>2. Sum(J \ {x}) \in Nat
    BY <1>2
  <2> HIDE DEF Sum
  <2> QED  BY <2>1, <2>2
<1> QED  BY <1>2, <1>3, J \in SUBSET J

\* A vault nobody holds shares of has none.
LEMMA SumOfZeros ==
  ASSUME NEW J, IsFiniteSet(J)
  PROVE  SumFunction([x \in J |-> 0]) = 0
<1> DEFINE f == [x \in J |-> 0]
           Bad == {s \in SUBSET J : SumFunctionOnSet(f, s) # 0}
<1>1. Bad = {}
  <2> SUFFICES ASSUME Bad # {} PROVE FALSE
    OBVIOUS
  <2>1. PICK K \in Bad : \A L \in Bad : L \subseteq K => L = K
    <3>1. Bad \in SUBSET SUBSET J
      OBVIOUS
    <3> HIDE DEF Bad
    <3> QED  BY <3>1, MinimalSubset
  <2>2. K # {} /\ IsFiniteSet(K) /\ K \subseteq J
    BY <2>1, SumEmpty, FS_Subset
  <2>3. Pick(K) \in K /\ K \ {Pick(K)} # K
    BY <2>2, PickInSet
  <2>4. SumFunctionOnSet(f, K \ {Pick(K)}) = 0 /\ f[Pick(K)] = 0
    BY <2>1, <2>2, <2>3
  <2> HIDE DEF f
  <2>5. SumFunctionOnSet(f, K) = 0
    BY <2>2, <2>4, SumPicks
  <2> QED  BY <2>1, <2>5
<1>2. SumFunctionOnSet(f, J) = 0
  BY <1>1, J \in SUBSET J
<1>3. DOMAIN f = J
  OBVIOUS
<1> QED  BY <1>2, <1>3 DEF SumFunction

\* Writing one balance changes the sum by as much as that balance.
LEMMA SumAfterUpdate ==
  ASSUME NEW J, IsFiniteSet(J), NEW f \in [J -> Int], NEW x \in J, NEW n \in Int
  PROVE  /\ SumFunction(f) \in Int
         /\ SumFunction([f EXCEPT ![x] = n]) = SumFunction(f) - f[x] + n
<1> DEFINE g == [f EXCEPT ![x] = n]
           K == J \ {x}
<1>1. g \in [J -> Int] /\ g[x] = n /\ (\A y \in K : f[y] = g[y]) /\ IsFiniteSet(K)
  BY FS_Subset
<1>2. SumFunctionOnSet(f, K) = SumFunctionOnSet(g, K)
  BY <1>1, SumAgrees
<1>3. /\ SumFunctionOnSet(f, J) \in Int
      /\ SumFunctionOnSet(f, J) = f[x] + SumFunctionOnSet(f, K)
  BY SumTakesOff
<1>4. SumFunctionOnSet(g, J) = n + SumFunctionOnSet(g, K)
  BY <1>1, SumTakesOff
<1>5. SumFunctionOnSet(f, K) \in Int
  BY <1>1, SumTakesOff
<1>6. SumFunction(f) = SumFunctionOnSet(f, J) /\ SumFunction(g) = SumFunctionOnSet(g, J)
  BY <1>1, DOMAIN f = J, DOMAIN g = J DEF SumFunction
<1> HIDE DEF g, K
<1>7. SumFunction(g) = SumFunction(f) - f[x] + n
  BY <1>2, <1>3, <1>4, <1>5, <1>6
<1> QED  BY <1>3, <1>6, <1>7 DEF g

\* A balance that changes by n changes the sum by n.
THEOREM SumAfterChange ==
  ASSUME NEW J, IsFiniteSet(J), NEW f \in [J -> Int], NEW x \in J, NEW n \in Int
  PROVE  SumFunction([f EXCEPT ![x] = f[x] + n]) = SumFunction(f) + n
<1> DEFINE m == f[x] + n
<1>1. f[x] \in Int /\ m \in Int /\ m - f[x] = n
  OBVIOUS
<1> HIDE DEF m
<1>2. /\ SumFunction(f) \in Int
      /\ SumFunction([f EXCEPT ![x] = m]) = SumFunction(f) - f[x] + m
  BY <1>1, SumAfterUpdate
<1>3. SumFunction(f) - f[x] + m = SumFunction(f) + n
  BY <1>1, <1>2
<1>4. SumFunction([f EXCEPT ![x] = m]) = SumFunction(f) + n
  BY Zenon, <1>2, <1>3
<1> QED  BY <1>4 DEF m

\* What moves from one balance to another leaves the sum alone.
THEOREM SumAfterMove ==
  ASSUME NEW J, IsFiniteSet(J), NEW f \in [J -> Int], NEW g \in [J -> Int],
         NEW x \in J, NEW y \in J, x # y,
         g[x] + g[y] = f[x] + f[y], \A z \in J : z # x /\ z # y => g[z] = f[z]
  PROVE  SumFunction(g) = SumFunction(f)
<1> DEFINE K == J \ {x}
           L == K \ {y}
           Sum(h, s) == SumFunctionOnSet(h, s)
<1>1. IsFiniteSet(K) /\ IsFiniteSet(L) /\ y \in K
  BY FS_Subset
<1>2. /\ Sum(f, J) = f[x] + Sum(f, K) /\ Sum(f, K) = f[y] + Sum(f, L) /\ Sum(f, L) \in Int
      /\ Sum(g, J) = g[x] + Sum(g, K) /\ Sum(g, K) = g[y] + Sum(g, L)
  BY <1>1, SumTakesOff
<1>3. Sum(f, L) = Sum(g, L)
  BY <1>1, SumAgrees
<1>4. SumFunction(f) = Sum(f, J) /\ SumFunction(g) = Sum(g, J)
  BY DOMAIN f = J, DOMAIN g = J DEF SumFunction
<1> HIDE DEF Sum, K, L
<1>5. f[x] \in Int /\ f[y] \in Int /\ g[x] \in Int /\ g[y] \in Int
  OBVIOUS
<1> QED  BY <1>2, <1>3, <1>4, <1>5

\* If each g[x] * a is at most f[x] * b, so are their sums.
LEMMA SumScales ==
  ASSUME NEW f, NEW g, NEW J, IsFiniteSet(J), NEW a \in Int, NEW b \in Int,
         \A x \in J : f[x] \in Int /\ g[x] \in Int /\ g[x] * a <= f[x] * b
  PROVE  /\ SumFunctionOnSet(f, J) \in Int
         /\ SumFunctionOnSet(g, J) \in Int
         /\ SumFunctionOnSet(g, J) * a <= SumFunctionOnSet(f, J) * b
<1> DEFINE F(s) == SumFunctionOnSet(f, s)
           G(s) == SumFunctionOnSet(g, s)
           Good(s) == F(s) \in Int /\ G(s) \in Int /\ G(s) * a <= F(s) * b
           Bad == {s \in SUBSET J : ~ Good(s)}
<1>1. Bad = {}
  <2> SUFFICES ASSUME Bad # {} PROVE FALSE
    OBVIOUS
  <2>1. PICK K \in Bad : \A L \in Bad : L \subseteq K => L = K
    <3>1. Bad \in SUBSET SUBSET J
      OBVIOUS
    <3> HIDE DEF Bad
    <3> QED  BY <3>1, MinimalSubset
  <2>2. \A L \in SUBSET K : L # K => Good(L)
    BY <2>1
  <2>3. K # {} /\ IsFiniteSet(K) /\ K \subseteq J
    <3>1. Good({})
      BY SumEmpty
    <3> HIDE DEF Good
    <3> QED  BY <2>1, <3>1, FS_Subset
  <2> DEFINE c == Pick(K)
             R == K \ {Pick(K)}
  <2>4. c \in J /\ Good(R)
    <3>1. Pick(K) \in K /\ R \in SUBSET K /\ R # K
      BY <2>3, PickInSet
    <3> HIDE DEF Good
    <3> QED  BY <2>2, <2>3, <3>1
  <2>5. F(K) = f[c] + F(R) /\ G(K) = g[c] + G(R)
    BY <2>3, SumPicks
  <2>6. \E x, y, u, w \in Int :
          /\ F(K) = x + y /\ G(K) = u + w
          /\ u * a <= x * b /\ w * a <= y * b
    BY <2>4, <2>5
  <2>7. Good(K)
    <3>1. PICK x, y, u, w \in Int :
            /\ F(K) = x + y /\ G(K) = u + w
            /\ u * a <= x * b /\ w * a <= y * b
      BY <2>6
    <3> HIDE DEF F, G
    <3>2. (u + w) * a <= (x + y) * b
      BY <3>1
    <3> QED  BY <3>1, <3>2
  <2> QED  BY <2>1, <2>7
<1> QED  BY <1>1, J \in SUBSET J

\* A sum of which no term rises does not rise.
LEMMA SumIsMonotone ==
  ASSUME NEW J, IsFiniteSet(J), NEW f, NEW g,
         \A y \in J : f[y] \in Int /\ g[y] \in Int /\ g[y] <= f[y]
  PROVE  /\ SumFunctionOnSet(f, J) \in Int /\ SumFunctionOnSet(g, J) \in Int
         /\ SumFunctionOnSet(g, J) <= SumFunctionOnSet(f, J)
<1>1. PICK one \in Int : one = 1
  OBVIOUS
<1>2. \A y \in J : f[y] \in Int /\ g[y] \in Int /\ g[y] * one <= f[y] * one
  BY <1>1
<1>3. /\ SumFunctionOnSet(f, J) \in Int /\ SumFunctionOnSet(g, J) \in Int
      /\ SumFunctionOnSet(g, J) * one <= SumFunctionOnSet(f, J) * one
  BY ONLY IsFiniteSet(J), one \in Int, <1>2, SumScales
<1> DEFINE F == SumFunctionOnSet(f, J)
           G == SumFunctionOnSet(g, J)
<1> HIDE DEF F, G
<1>4. F \in Int /\ G \in Int /\ G * one <= F * one
  BY <1>3 DEF F, G
<1>5. G <= F
  BY <1>1, <1>4
<1> QED  BY <1>4, <1>5 DEF F, G

\* Balances of which none rises and one falls by n sum to n less at least.
LEMMA SumFallsBy ==
  ASSUME NEW J, IsFiniteSet(J), NEW f \in [J -> Int], NEW g \in [J -> Int],
         NEW x \in J, NEW n \in Int, g[x] <= f[x] - n, \A y \in J : g[y] <= f[y]
  PROVE  /\ SumFunction(f) \in Int /\ SumFunction(g) \in Int
         /\ SumFunction(g) <= SumFunction(f) - n
<1> DEFINE h == [f EXCEPT ![x] = f[x] + (-n)]
<1>1. -n \in Int /\ f[x] - n = f[x] + (-n)
  OBVIOUS
<1>2. SumFunction(h) = SumFunction(f) + (-n) /\ SumFunction(f) \in Int
  <2>1. PICK m \in Int : m = -n
    BY <1>1
  <2>2. SumFunction([f EXCEPT ![x] = f[x] + m]) = SumFunction(f) + m
    BY ONLY IsFiniteSet(J), f \in [J -> Int], x \in J, m \in Int, SumAfterChange
  <2>3. SumFunction(f) \in Int
    BY SumAfterUpdate
  <2> QED  BY <2>1, <2>2, <2>3
<1>3. h \in [J -> Int] /\ \A y \in J : g[y] <= h[y]
  BY <1>1
<1> HIDE DEF h
<1>4. \A y \in J : h[y] \in Int /\ g[y] \in Int /\ g[y] <= h[y]
  BY <1>3
<1>5. /\ SumFunctionOnSet(h, J) \in Int /\ SumFunctionOnSet(g, J) \in Int
      /\ SumFunctionOnSet(g, J) <= SumFunctionOnSet(h, J)
  <2>1. PICK k : k = h
    OBVIOUS
  <2>2. \A y \in J : k[y] \in Int /\ g[y] \in Int /\ g[y] <= k[y]
    BY <1>4, <2>1
  <2>3. /\ SumFunctionOnSet(k, J) \in Int /\ SumFunctionOnSet(g, J) \in Int
        /\ SumFunctionOnSet(g, J) <= SumFunctionOnSet(k, J)
    BY ONLY IsFiniteSet(J), <2>2, SumIsMonotone
  <2> QED  BY <2>1, <2>3
<1>6. SumFunction(g) = SumFunctionOnSet(g, J) /\ SumFunction(h) = SumFunctionOnSet(h, J)
  BY <1>3, DOMAIN g = J, DOMAIN h = J DEF SumFunction
<1> QED
  <2> DEFINE a == SumFunction(f)
             b == SumFunction(g)
             c == SumFunction(h)
  <2>1. /\ a \in Int /\ b \in Int /\ c \in Int /\ c = a + (-n)
        /\ b <= c
    BY <1>2, <1>5, <1>6
  <2> HIDE DEF a, b, c
  <2>2. b <= a - n
    BY <2>1
  <2> QED  BY <2>1, <2>2 DEF a, b
=============================================================================
