---------------------------- MODULE VaultSummary ----------------------------
(***************************************************************************)
(* The estimated APR of get_vault_summary (summary.rs), computed from the  *)
(* reserve data and configuration the pool reports, while the pool's       *)
(* lenders and borrowers (external) move the reserve.                      *)
(*                                                                         *)
(* The other fields of the summary are copies of what is stored.           *)
(***************************************************************************)
EXTENDS VaultMath

CONSTANTS
  SCALAR_7,   \* 1 with 7 decimal places
  Kink,       \* 0_9500000, where the third slope begins
  Configs,    \* reserve configurations the pool's admin may choose
  IrMods,     \* values of the pool's interest rate modifier
  PoolRates,  \* values of the reserve's b_rate and d_rate
  MaxSupply   \* bound on bTokens and dTokens

ReserveConfig ==
  [r_base : Nat, r_one : Nat, r_two : Nat, r_three : Nat, util : Nat, bstop_rate : Nat]

ASSUME CurveAssumption == SCALAR_7 \in Nat /\ Kink \in 1..(SCALAR_7 - 1)
ASSUME ConfigsAssumption ==
  /\ Configs \subseteq ReserveConfig
  /\ \A c \in Configs : c.util <= Kink /\ c.bstop_rate <= SCALAR_7
ASSUME ReserveAssumption == IrMods \subseteq Nat /\ PoolRates \subseteq Nat /\ MaxSupply \in Nat

VARIABLES
  config,  \* the reserve's configuration and the pool's backstop rate
  reserve  \* the reserve's data

summaryVars == <<config, reserve>>

ReserveData == [b_supply : Nat, b_rate : Nat, d_supply : Nat, d_rate : Nat, ir_mod : Nat]
-----------------------------------------------------------------------------
(***************************************************************************)
(* VaultSummary::load.                                                     *)
(***************************************************************************)
liabilities == CeilDiv(reserve.d_supply * reserve.d_rate, Scalar)

supply == FloorDiv(reserve.b_supply * reserve.b_rate, Scalar)

cur_util ==
  IF liabilities = 0 THEN 0
  ELSE IF liabilities >= supply THEN SCALAR_7
  ELSE CeilDiv(liabilities * SCALAR_7, supply)

\* The first slope divides by the target, also when it is zero.
summary_returns == config.util = 0 => cur_util > 0

Mul7(a, b) == CeilDiv(a * b, SCALAR_7)

\* `rate` times the fraction part/whole.
Slope(part, whole, rate) == Mul7(CeilDiv(part * SCALAR_7, whole), rate)

\* Mutant: the first slope is forgotten beyond the target.
cur_ir_losing_first_slope ==
  LET r == config
  IN  IF cur_util <= r.util
      THEN Mul7(Slope(cur_util, r.util, r.r_one) + r.r_base, reserve.ir_mod)
      ELSE IF cur_util <= Kink
      THEN Mul7(Slope(cur_util - r.util, Kink - r.util, r.r_two) + r.r_base, reserve.ir_mod)
      ELSE Slope(cur_util - Kink, SCALAR_7 - Kink, r.r_three)
             + Mul7(reserve.ir_mod, r.r_two + r.r_one + r.r_base)

\* Mutant: the modifier is applied to the third slope too.
cur_ir_modifying_all ==
  LET r == config
  IN  IF cur_util <= r.util
      THEN Mul7(Slope(cur_util, r.util, r.r_one) + r.r_base, reserve.ir_mod)
      ELSE IF cur_util <= Kink
      THEN Mul7(Slope(cur_util - r.util, Kink - r.util, r.r_two) + r.r_one + r.r_base,
                reserve.ir_mod)
      ELSE Mul7(Slope(cur_util - Kink, SCALAR_7 - Kink, r.r_three)
                  + r.r_two + r.r_one + r.r_base, reserve.ir_mod)

\* What borrowers pay.
cur_ir ==
  LET r == config
  IN  IF cur_util <= r.util
      THEN Mul7(Slope(cur_util, r.util, r.r_one) + r.r_base, reserve.ir_mod)
      ELSE IF cur_util <= Kink
      THEN Mul7(Slope(cur_util - r.util, Kink - r.util, r.r_two) + r.r_one + r.r_base,
                reserve.ir_mod)
      ELSE Slope(cur_util - Kink, SCALAR_7 - Kink, r.r_three)
             + Mul7(reserve.ir_mod, r.r_two + r.r_one + r.r_base)

\* Mutant: the backstop's part is not taken off.
est_apr_gross == FloorDiv(cur_ir * cur_util, SCALAR_7)

\* What lenders earn: the interest on the part lent out, less the backstop's.
est_apr ==
  FloorDiv(FloorDiv(cur_ir * cur_util, SCALAR_7) * (SCALAR_7 - config.bstop_rate), SCALAR_7)
-----------------------------------------------------------------------------
(***************************************************************************)
(* The reserve (external).                                                 *)
(***************************************************************************)
SummaryInit ==
  /\ config \in Configs
  /\ reserve \in [b_supply : {0}, b_rate : PoolRates, d_supply : {0}, d_rate : PoolRates,
                  ir_mod : IrMods]

Lend == reserve.b_supply < MaxSupply /\ reserve' = [reserve EXCEPT !.b_supply = @ + 1]
Leave == reserve.b_supply > 0 /\ reserve' = [reserve EXCEPT !.b_supply = @ - 1]
Borrow == reserve.d_supply < MaxSupply /\ reserve' = [reserve EXCEPT !.d_supply = @ + 1]
Repay == reserve.d_supply > 0 /\ reserve' = [reserve EXCEPT !.d_supply = @ - 1]

\* Interest or a default moves the rates, and the modifier reacts.
Accrue ==
  \E b_rate, d_rate \in PoolRates, ir_mod \in IrMods :
    reserve' = [reserve EXCEPT !.b_rate = b_rate, !.d_rate = d_rate, !.ir_mod = ir_mod]

SummaryNext == (Lend \/ Leave \/ Borrow \/ Repay \/ Accrue) /\ UNCHANGED config

SummarySpec == SummaryInit /\ [][SummaryNext]_summaryVars
-----------------------------------------------------------------------------
(***************************************************************************)
(* Properties.                                                             *)
(***************************************************************************)

\* More debt or less supply, all else equal, never lowers the estimate: the
\* three slopes meet at the target and at 95%, for every rounding.
AprRisesWithUtilization ==
  [][/\ summary_returns /\ summary_returns'
     /\ reserve'.d_supply >= reserve.d_supply
     /\ reserve'.b_supply <= reserve.b_supply
     /\ \A part \in {"b_rate", "d_rate", "ir_mod"} : reserve'[part] = reserve[part]
     => est_apr' >= est_apr]_summaryVars

\* The interest curve the three branches stand for, as one exact fraction
\* Curve / Denominator: r_one is reached at the target, r_two at 95%, both
\* times the modifier, and r_three at full utilization.
AtLeastOne(n) == IF n = 0 THEN 1 ELSE n

Denominator ==
  SCALAR_7 * AtLeastOne(config.util) * AtLeastOne(Kink - config.util) * (SCALAR_7 - Kink)

Curve ==
  LET first == AtLeastOne(config.util)
      second == AtLeastOne(Kink - config.util)
      Part(low, high, whole) ==
        IF cur_util > high THEN whole ELSE IF cur_util > low THEN cur_util - low ELSE 0
      rise == config.r_base * first * second
                + Part(0, config.util, first) * config.r_one * second
                + Part(config.util, Kink, second) * config.r_two * first
      extra == Part(Kink, SCALAR_7, SCALAR_7 - Kink) * config.r_three
  IN  rise * reserve.ir_mod * (SCALAR_7 - Kink) + extra * SCALAR_7 * first * second

\* What the ceilings may add: one unit each, carried through a slope.
Slack ==
  LET steepest == config.r_one + config.r_two + config.r_three + SCALAR_7
  IN  1 + CeilDiv(steepest * (reserve.ir_mod + SCALAR_7), SCALAR_7 * SCALAR_7)

\* Whatever branch is taken, the borrowers' rate is the curve rounded up, by no
\* more than the roundings explain.
RateFollowsCurve ==
  summary_returns => cur_ir * Denominator - Curve \in 0..(Slack * Denominator)

\* Lenders are not promised more than borrowers pay: the estimate earned on
\* the whole supply is covered by the interest on the debt, less the
\* backstop's part, with utilization rounded up by less than a unit.
PromisesAreCovered ==
  summary_returns =>
    est_apr * supply * SCALAR_7 * SCALAR_7
      <= cur_ir * (liabilities * SCALAR_7 + supply) * (SCALAR_7 - config.bstop_rate)
-----------------------------------------------------------------------------
(***************************************************************************)
(* What the repository says of the summary and the code does not do.       *)
(***************************************************************************)

\* README.md:125: "You can display general vault information, including the
\* Blend pool, supported asset, rewards info, and the estimated APR users will
\* earn using the get_vault_summary function."
SummaryAlwaysLoads == summary_returns
=============================================================================
