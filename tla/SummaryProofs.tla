--------------------------- MODULE SummaryProofs ---------------------------
(***************************************************************************)
(* The estimated APR for every reserve and every configuration: it rises   *)
(* with utilization, follows the interest curve up to its roundings, and   *)
(* never promises lenders more than borrowers pay.                         *)
(***************************************************************************)
EXTENDS VaultSummary, VaultMathProofs

\* 1, 95% and the widths of the two outer slopes.
LEMMA CurveConstants ==
  /\ SCALAR_7 \in Positive /\ Kink \in Positive /\ SCALAR_7 - Kink \in Positive
  /\ Scalar \in Positive
  BY CurveAssumption, ScalarAssumption DEF Positive

\* A factor that is not negative keeps an order.
LEMMA TimesKeepsOrder ==
  ASSUME NEW a \in Int, NEW b \in Int, a <= b, NEW c \in Nat
  PROVE  a * c <= b * c /\ c * a <= c * b
  OBVIOUS

\* Products of naturals are natural.
LEMMA TimesIsNatural ==
  ASSUME NEW a \in Nat, NEW b \in Nat
  PROVE  a * b \in Nat
  OBVIOUS

\* A larger ratio is rounded up to no less.
LEMMA CeilOfLargerRatio ==
  ASSUME NEW a \in Nat, NEW b \in Nat, NEW d \in Positive, NEW e \in Positive,
         a * e <= b * d
  PROVE  CeilDiv(a, d) <= CeilDiv(b, e)
<1> DEFINE m == CeilDiv(a, d)
           n == CeilDiv(b, e)
<1>1. /\ m \in Nat /\ a > d * m - d
      /\ n \in Nat /\ e * n >= b
  BY CeilDivBounds, DivSign
<1> HIDE DEF m, n
<1>2. b * d <= (e * n) * d
  BY <1>1, TimesKeepsOrder DEF Positive
<1>3. e * a <= e * (d * n)
  BY <1>1, <1>2 DEF Positive
<1>4. a <= d * n
  <2>1. d * n \in Int
    BY <1>1 DEF Positive
  <2> QED  BY <1>3, <2>1, Cancel
<1>5. d * m < d * n + d
  BY <1>1, <1>4 DEF Positive
<1> QED  BY <1>1, <1>5, Cancel DEF m, n

\* A product of two fractions of 7 decimals.
LEMMA Mul7Bounds ==
  ASSUME NEW a \in Nat, NEW b \in Nat
  PROVE  /\ Mul7(a, b) \in Nat
         /\ a * b <= SCALAR_7 * Mul7(a, b)
         /\ SCALAR_7 * Mul7(a, b) < a * b + SCALAR_7
         /\ Mul7(a, b) = Mul7(b, a)
         /\ a <= SCALAR_7 => Mul7(a, b) <= b
<1> DEFINE m == Mul7(a, b)
<1>1. a * b \in Nat /\ SCALAR_7 \in Positive /\ a * b = b * a
  BY CurveConstants
<1>2. m \in Nat /\ SCALAR_7 * m >= a * b /\ a * b > SCALAR_7 * m - SCALAR_7
  BY <1>1, CeilDivBounds, DivSign DEF Mul7
<1>3. Mul7(a, b) = Mul7(b, a)
  BY <1>1 DEF Mul7
<1> HIDE DEF m
<1>4. SCALAR_7 * m \in Nat
  BY <1>1, <1>2 DEF Positive
<1>5. SCALAR_7 * m < a * b + SCALAR_7
  BY <1>1, <1>2, <1>4 DEF Positive
<1>6. ASSUME a <= SCALAR_7
      PROVE  m <= b
  <2>1. a * b <= SCALAR_7 * b
    BY <1>1, <1>6, TimesKeepsOrder DEF Positive
  <2>2. SCALAR_7 * m < SCALAR_7 * b + SCALAR_7
    BY <1>1, <1>4, <1>5, <2>1 DEF Positive
  <2> QED  BY <1>1, <1>2, <2>2, Cancel
<1>7. m = Mul7(a, b)
  BY DEF m
<1> QED  BY <1>2, <1>3, <1>5, <1>6, <1>7

\* A product rises with each of its factors.
LEMMA Mul7Monotonic ==
  ASSUME NEW a \in Nat, NEW b \in Nat, a <= b, NEW c \in Nat
  PROVE  Mul7(a, c) <= Mul7(b, c) /\ Mul7(c, a) <= Mul7(c, b)
<1>1. /\ a * c \in Int /\ b * c \in Int /\ a * c <= b * c
      /\ c * a \in Int /\ c * b \in Int /\ c * a <= c * b
  BY TimesKeepsOrder
<1> QED  BY <1>1, CurveConstants, DivMonotonic DEF Mul7

\* A slope is the exact part of the rate, plus less than the two ceilings add,
\* and no more than the whole rate.
LEMMA SlopeBounds ==
  ASSUME NEW part \in Nat, NEW whole \in Positive, NEW rate \in Nat
  PROVE  LET x == Slope(part, whole, rate)
         IN  /\ x \in Nat
             /\ part * rate <= whole * x
             /\ SCALAR_7 * (whole * x)
                  <= SCALAR_7 * (part * rate) + whole * (rate + SCALAR_7)
             /\ part <= whole => x <= rate
<1> DEFINE y == CeilDiv(part * SCALAR_7, whole)
           x == Slope(part, whole, rate)
<1>1. SCALAR_7 \in Positive /\ part * SCALAR_7 \in Nat
  BY CurveConstants DEF Positive
<1>2. /\ y \in Nat /\ part * SCALAR_7 <= whole * y
      /\ part * SCALAR_7 > whole * y - whole
  BY <1>1, CeilDivBounds, DivSign
<1>3. /\ x \in Nat /\ y * rate <= SCALAR_7 * x /\ SCALAR_7 * x < y * rate + SCALAR_7
      /\ y <= SCALAR_7 => x <= rate
  BY <1>2, Mul7Bounds DEF Slope
<1> HIDE DEF x, y
<1>4. whole * y \in Nat /\ y * rate \in Nat /\ SCALAR_7 * x \in Nat /\ whole * x \in Nat
  BY <1>1, <1>2, <1>3 DEF Positive
<1>5. part * rate <= whole * x
  <2>1. (part * SCALAR_7) * rate <= (whole * y) * rate
    BY <1>1, <1>2, <1>4, TimesKeepsOrder
  <2>2. whole * (y * rate) <= whole * (SCALAR_7 * x)
    BY <1>3, <1>4, TimesKeepsOrder DEF Positive
  <2>3. SCALAR_7 * (part * rate) <= SCALAR_7 * (whole * x)
    BY <1>1, <1>2, <1>3, <2>1, <2>2 DEF Positive
  <2>4. part * rate \in Int /\ whole * x \in Int
    BY <1>4
  <2> QED  BY <1>1, <2>3, <2>4, Cancel
<1>6. SCALAR_7 * (whole * x) <= SCALAR_7 * (part * rate) + whole * (rate + SCALAR_7)
  <2>1. whole * (SCALAR_7 * x) <= whole * (y * rate + SCALAR_7)
    BY <1>1, <1>3, <1>4, TimesKeepsOrder DEF Positive
  <2>2. (whole * y) * rate <= (part * SCALAR_7 + whole) * rate
    BY <1>1, <1>2, <1>4, TimesKeepsOrder DEF Positive
  <2>3. whole * (SCALAR_7 * x) = SCALAR_7 * (whole * x)
    BY <1>1, <1>3 DEF Positive
  <2>4. whole * (y * rate + SCALAR_7) = (whole * y) * rate + whole * SCALAR_7
    BY <1>1, <1>2 DEF Positive
  <2>5. (part * SCALAR_7 + whole) * rate = SCALAR_7 * (part * rate) + whole * rate
    BY <1>1 DEF Positive
  <2>6. whole * (rate + SCALAR_7) = whole * rate + whole * SCALAR_7
    BY <1>1 DEF Positive
  <2>7. /\ SCALAR_7 * (whole * x) \in Int /\ (whole * y) * rate \in Int
        /\ whole * SCALAR_7 \in Int /\ whole * rate \in Int /\ SCALAR_7 * (part * rate) \in Int
    BY <1>1, <1>2, <1>3 DEF Positive
  <2> QED  BY <2>1, <2>2, <2>3, <2>4, <2>5, <2>6, <2>7
<1>7. ASSUME part <= whole
      PROVE  x <= rate
  <2>1. part * SCALAR_7 <= whole * SCALAR_7
    BY <1>1, <1>7, TimesKeepsOrder DEF Positive
  <2>2. whole * y < whole * SCALAR_7 + whole
    BY <1>1, <1>2, <1>4, <2>1 DEF Positive
  <2>3. y <= SCALAR_7
    <3>1. SCALAR_7 \in Int
      BY <1>1 DEF Positive
    <3> QED  BY <1>2, <2>2, <3>1, Cancel
  <2> QED  BY <1>3, <2>3
<1>8. x = Slope(part, whole, rate)
  BY DEF x
<1> QED  BY <1>3, <1>5, <1>6, <1>7, <1>8

\* A slope rises with the part of it that is climbed.
LEMMA SlopeMonotonic ==
  ASSUME NEW part \in Nat, NEW more \in Nat, part <= more, NEW whole \in Positive,
         NEW rate \in Nat
  PROVE  Slope(part, whole, rate) <= Slope(more, whole, rate)
<1>1. SCALAR_7 \in Nat
  BY CurveConstants DEF Positive
<1>2. part * SCALAR_7 \in Nat /\ more * SCALAR_7 \in Nat /\ part * SCALAR_7 <= more * SCALAR_7
  BY <1>1, TimesKeepsOrder
<1>3. /\ CeilDiv(part * SCALAR_7, whole) \in Nat /\ CeilDiv(more * SCALAR_7, whole) \in Nat
      /\ CeilDiv(part * SCALAR_7, whole) <= CeilDiv(more * SCALAR_7, whole)
  BY <1>2, DivSign, DivMonotonic
<1> QED  BY <1>3, Mul7Monotonic DEF Slope
-----------------------------------------------------------------------------
(***************************************************************************)
(* VaultSummary::load as functions of what it reads, to compare two states. *)
(***************************************************************************)
UtilAt(owed, lent) ==
  IF owed = 0 THEN 0 ELSE IF owed >= lent THEN SCALAR_7 ELSE CeilDiv(owed * SCALAR_7, lent)

IrAt(r, mod, util) ==
  IF util <= r.util
  THEN Mul7(Slope(util, r.util, r.r_one) + r.r_base, mod)
  ELSE IF util <= Kink
  THEN Mul7(Slope(util - r.util, Kink - r.util, r.r_two) + r.r_one + r.r_base, mod)
  ELSE Slope(util - Kink, SCALAR_7 - Kink, r.r_three) + Mul7(mod, r.r_two + r.r_one + r.r_base)

AprAt(ir, util, bstop_rate) ==
  FloorDiv(FloorDiv(ir * util, SCALAR_7) * (SCALAR_7 - bstop_rate), SCALAR_7)

\* They are what the model computes.
LEMMA SummaryIsComputed ==
  /\ cur_util = UtilAt(liabilities, supply)
  /\ cur_ir = IrAt(config, reserve.ir_mod, cur_util)
  /\ est_apr = AprAt(cur_ir, cur_util, config.bstop_rate)
<1>1. cur_util = UtilAt(liabilities, supply)
  BY DEF cur_util, UtilAt
<1>2. cur_ir = IrAt(config, reserve.ir_mod, cur_util)
  BY DEF cur_ir, IrAt
<1>3. est_apr = AprAt(cur_ir, cur_util, config.bstop_rate)
  BY DEF est_apr, AprAt
<1> QED  BY <1>1, <1>2, <1>3

\* Utilization is a fraction of 7 decimals, rounded up by less than a unit.
LEMMA UtilBounds ==
  ASSUME NEW owed \in Nat, NEW lent \in Nat
  PROVE  /\ UtilAt(owed, lent) \in 0..SCALAR_7
         /\ UtilAt(owed, lent) * lent <= owed * SCALAR_7 + lent
<1> DEFINE u == UtilAt(owed, lent)
<1>1. SCALAR_7 \in Nat /\ SCALAR_7 \in Positive /\ owed * SCALAR_7 \in Nat
  BY CurveConstants DEF Positive
<1>2. CASE owed = 0
  <2>1. u = 0
    BY <1>2 DEF UtilAt
  <2> QED  BY <1>1, <1>2, <2>1
<1>3. CASE owed # 0 /\ owed >= lent
  <2>1. u = SCALAR_7
    BY <1>3 DEF UtilAt
  <2>2. SCALAR_7 * lent <= SCALAR_7 * owed
    BY <1>1, <1>3, TimesKeepsOrder
  <2>3. SCALAR_7 * lent \in Nat /\ SCALAR_7 * owed = owed * SCALAR_7
    BY <1>1
  <2>4. SCALAR_7 * lent <= owed * SCALAR_7 + lent
    BY <1>1, <2>2, <2>3
  <2> QED  BY <1>1, <2>1, <2>4
<1>4. CASE owed # 0 /\ ~(owed >= lent)
  <2>1. u = CeilDiv(owed * SCALAR_7, lent) /\ lent \in Positive
    BY <1>4 DEF UtilAt, Positive
  <2>2. u \in Nat /\ owed * SCALAR_7 > lent * u - lent
    BY <1>1, <2>1, CeilDivBounds, DivSign
  <2> HIDE DEF u
  <2>3. owed * SCALAR_7 <= lent * SCALAR_7
    BY <1>1, <1>4, TimesKeepsOrder
  <2>4. lent * u \in Nat /\ lent * SCALAR_7 \in Nat /\ u * lent = lent * u
    BY <1>1, <2>2
  <2>5. lent * u < lent * SCALAR_7 + lent
    BY <1>1, <2>2, <2>3, <2>4
  <2>6. u <= SCALAR_7
    BY <1>1, <2>1, <2>2, <2>5, Cancel
  <2>7. u * lent <= owed * SCALAR_7 + lent
    BY <1>1, <2>2, <2>4
  <2> QED  BY <1>1, <2>2, <2>6, <2>7 DEF u
<1> QED  BY <1>2, <1>3, <1>4

\* More debt, less supply: no less utilization.
LEMMA UtilMonotonic ==
  ASSUME NEW owed \in Nat, NEW lent \in Nat, NEW owed2 \in Nat, NEW lent2 \in Nat,
         owed <= owed2, lent2 <= lent
  PROVE  UtilAt(owed, lent) <= UtilAt(owed2, lent2)
<1>1. SCALAR_7 \in Nat
  BY CurveConstants DEF Positive
<1>2. UtilAt(owed, lent) \in 0..SCALAR_7 /\ UtilAt(owed2, lent2) \in 0..SCALAR_7
  BY UtilBounds
<1>3. CASE owed = 0
  BY <1>2, <1>3 DEF UtilAt
<1>4. CASE owed2 # 0 /\ owed2 >= lent2
  <2>1. UtilAt(owed2, lent2) = SCALAR_7
    BY <1>4 DEF UtilAt
  <2> QED  BY <1>1, <1>2, <2>1
<1>5. CASE owed # 0 /\ ~(owed2 >= lent2)
  <2>1. /\ UtilAt(owed, lent) = CeilDiv(owed * SCALAR_7, lent)
        /\ UtilAt(owed2, lent2) = CeilDiv(owed2 * SCALAR_7, lent2)
        /\ lent \in Positive /\ lent2 \in Positive
    BY <1>5 DEF UtilAt, Positive
  <2>2. owed * SCALAR_7 \in Nat /\ owed2 * SCALAR_7 \in Nat
    BY <1>1, TimesIsNatural
  <2>3. (owed * SCALAR_7) * lent2 <= (owed2 * SCALAR_7) * lent2
    <3>1. owed * SCALAR_7 <= owed2 * SCALAR_7
      BY <1>1, TimesKeepsOrder
    <3> QED  BY <2>2, <3>1, TimesKeepsOrder
  <2>4. (owed2 * SCALAR_7) * lent2 <= (owed2 * SCALAR_7) * lent
    BY <2>2, TimesKeepsOrder
  <2>5. /\ (owed * SCALAR_7) * lent2 \in Nat /\ (owed2 * SCALAR_7) * lent2 \in Nat
        /\ (owed2 * SCALAR_7) * lent \in Nat
    BY <2>2, TimesIsNatural
  <2>6. (owed * SCALAR_7) * lent2 <= (owed2 * SCALAR_7) * lent
    BY <2>3, <2>4, <2>5
  <2>7. CeilDiv(owed * SCALAR_7, lent) <= CeilDiv(owed2 * SCALAR_7, lent2)
    BY <2>1, <2>2, <2>6, CeilOfLargerRatio
  <2> QED  BY <2>1, <2>7
<1> QED  BY <1>3, <1>4, <1>5

\* What the configurations say.
LEMMA ConfigFields ==
  ASSUME NEW r \in Configs
  PROVE  /\ r.r_base \in Nat /\ r.r_one \in Nat /\ r.r_two \in Nat /\ r.r_three \in Nat
         /\ r.util \in Nat /\ r.util <= Kink
         /\ r.bstop_rate \in Nat /\ SCALAR_7 - r.bstop_rate \in Nat
<1>1. r \in ReserveConfig /\ r.util <= Kink /\ r.bstop_rate <= SCALAR_7
  BY ConfigsAssumption
<1>2. /\ r.r_base \in Nat /\ r.r_one \in Nat /\ r.r_two \in Nat /\ r.r_three \in Nat
      /\ r.util \in Nat /\ r.bstop_rate \in Nat
  BY <1>1 DEF ReserveConfig
<1> QED  BY <1>1, <1>2, CurveAssumption

\* Which slope applies, with a positive width to divide by.
LEMMA SlopeIsWide ==
  ASSUME NEW r \in Configs, NEW util \in 0..SCALAR_7, r.util = 0 => util > 0
  PROVE  \/ util <= r.util /\ r.util \in Positive /\ util \in Nat
         \/ /\ util > r.util /\ util <= Kink /\ Kink - r.util \in Positive
            /\ util - r.util \in Nat /\ util - r.util <= Kink - r.util
         \/ /\ util > r.util /\ util > Kink /\ SCALAR_7 - Kink \in Positive
            /\ util - Kink \in Nat /\ util - Kink <= SCALAR_7 - Kink
  BY ConfigFields, CurveAssumption DEF Positive

\* The rate lies between those at the ends of its slope.
LEMMA IrBounds ==
  ASSUME NEW r \in Configs, NEW mod \in Nat, NEW util \in 0..SCALAR_7,
         r.util = 0 => util > 0
  PROVE  /\ IrAt(r, mod, util) \in Nat
         /\ util <= r.util => IrAt(r, mod, util) <= Mul7(r.r_one + r.r_base, mod)
         /\ util > r.util /\ util <= Kink
              => /\ Mul7(r.r_one + r.r_base, mod) <= IrAt(r, mod, util)
                 /\ IrAt(r, mod, util) <= Mul7(r.r_two + r.r_one + r.r_base, mod)
         /\ util > r.util /\ util > Kink
              => Mul7(r.r_two + r.r_one + r.r_base, mod) <= IrAt(r, mod, util)
<1> DEFINE low == r.r_one + r.r_base
           high == r.r_two + r.r_one + r.r_base
<1>1. /\ r.r_base \in Nat /\ r.r_one \in Nat /\ r.r_two \in Nat /\ r.r_three \in Nat
      /\ r.util \in Nat /\ r.util <= Kink /\ low \in Nat /\ high \in Nat
      /\ Kink \in Int /\ util \in Int
  BY ConfigFields, CurveConstants DEF Positive
<1>2. CASE util <= r.util /\ r.util \in Positive /\ util \in Nat
  <2> DEFINE x == Slope(util, r.util, r.r_one)
  <2>1. x \in Nat /\ x <= r.r_one
    BY <1>1, <1>2, SlopeBounds
  <2>2. IrAt(r, mod, util) = Mul7(x + r.r_base, mod)
    BY <1>2 DEF IrAt
  <2> HIDE DEF x
  <2>3. x + r.r_base \in Nat /\ x + r.r_base <= low
    BY <1>1, <2>1
  <2> HIDE DEF low
  <2>4. Mul7(x + r.r_base, mod) \in Nat /\ Mul7(x + r.r_base, mod) <= Mul7(low, mod)
    BY <1>1, <2>3, Mul7Bounds, Mul7Monotonic
  <2> QED  BY <1>1, <1>2, <2>2, <2>4 DEF low
<1>3. CASE /\ util > r.util /\ util <= Kink /\ Kink - r.util \in Positive
           /\ util - r.util \in Nat /\ util - r.util <= Kink - r.util
  <2> DEFINE x == Slope(util - r.util, Kink - r.util, r.r_two)
             rate == x + r.r_one + r.r_base
  <2>1. x \in Nat /\ x <= r.r_two
    <3>1. PICK part \in Nat, whole \in Positive :
            part = util - r.util /\ whole = Kink - r.util
      BY <1>3
    <3>2. Slope(part, whole, r.r_two) \in Nat /\ Slope(part, whole, r.r_two) <= r.r_two
      BY <1>1, <1>3, <3>1, SlopeBounds
    <3> QED  BY <3>1, <3>2
  <2>2. IrAt(r, mod, util) = Mul7(rate, mod)
    BY <1>1, <1>3 DEF IrAt
  <2> HIDE DEF x
  <2>3. rate \in Nat /\ low <= rate /\ rate <= high
    BY <1>1, <2>1
  <2> HIDE DEF low, high, rate
  <2>4. /\ Mul7(rate, mod) \in Nat /\ Mul7(low, mod) <= Mul7(rate, mod)
        /\ Mul7(rate, mod) <= Mul7(high, mod)
    BY <1>1, <2>3, Mul7Bounds, Mul7Monotonic
  <2> QED  BY <1>1, <1>3, <2>2, <2>4 DEF low, high
<1>4. CASE /\ util > r.util /\ util > Kink /\ SCALAR_7 - Kink \in Positive
           /\ util - Kink \in Nat /\ util - Kink <= SCALAR_7 - Kink
  <2> DEFINE x == Slope(util - Kink, SCALAR_7 - Kink, r.r_three)
  <2>1. x \in Nat
    BY <1>1, <1>4, SlopeBounds
  <2>2. IrAt(r, mod, util) = x + Mul7(mod, high)
    BY <1>1, <1>4 DEF IrAt
  <2> HIDE DEF x, high
  <2>3. Mul7(mod, high) \in Nat /\ Mul7(mod, high) = Mul7(high, mod)
    BY <1>1, Mul7Bounds
  <2> QED  BY <1>1, <1>4, <2>1, <2>2, <2>3 DEF high
<1> HIDE DEF low, high
<1> QED  BY <1>2, <1>3, <1>4, SlopeIsWide

\* The three slopes meet: more utilization, no less interest.
LEMMA IrMonotonic ==
  ASSUME NEW r \in Configs, NEW mod \in Nat,
         NEW util \in 0..SCALAR_7, NEW more \in 0..SCALAR_7, util <= more,
         r.util = 0 => util > 0
  PROVE  IrAt(r, mod, util) <= IrAt(r, mod, more)
<1> DEFINE low == Mul7(r.r_one + r.r_base, mod)
           high == Mul7(r.r_two + r.r_one + r.r_base, mod)
<1>1. /\ r.r_base \in Nat /\ r.r_one \in Nat /\ r.r_two \in Nat /\ r.r_three \in Nat
      /\ r.util \in Nat /\ r.util <= Kink /\ Kink \in Int /\ util \in Int /\ more \in Int
      /\ r.util = 0 => more > 0
  BY ConfigFields, CurveConstants DEF Positive
<1>2. low \in Nat /\ high \in Nat
  <2>1. r.r_one + r.r_base \in Nat /\ r.r_two + r.r_one + r.r_base \in Nat
    BY <1>1
  <2> QED  BY <2>1, Mul7Bounds
<1>3. low <= high
  <2>1. /\ r.r_one + r.r_base \in Nat /\ r.r_two + r.r_one + r.r_base \in Nat
        /\ r.r_one + r.r_base <= r.r_two + r.r_one + r.r_base
    BY <1>1
  <2> QED  BY <2>1, Mul7Monotonic
<1>4. /\ IrAt(r, mod, util) \in Nat /\ IrAt(r, mod, more) \in Nat
      /\ util <= r.util => IrAt(r, mod, util) <= low
      /\ util > r.util /\ util <= Kink => IrAt(r, mod, util) <= high
      /\ more > r.util /\ more <= Kink => low <= IrAt(r, mod, more)
      /\ more > r.util /\ more > Kink => high <= IrAt(r, mod, more)
  BY <1>1, IrBounds
<1> HIDE DEF low, high
<1>5. CASE more <= r.util
  <2>1. util <= r.util /\ r.util \in Positive /\ util \in Nat /\ more \in Nat
    BY <1>1, <1>5 DEF Positive
  <2>2. /\ Slope(util, r.util, r.r_one) \in Nat /\ Slope(more, r.util, r.r_one) \in Nat
        /\ Slope(util, r.util, r.r_one) <= Slope(more, r.util, r.r_one)
    BY <1>1, <2>1, SlopeBounds, SlopeMonotonic
  <2>3. /\ IrAt(r, mod, util) = Mul7(Slope(util, r.util, r.r_one) + r.r_base, mod)
        /\ IrAt(r, mod, more) = Mul7(Slope(more, r.util, r.r_one) + r.r_base, mod)
    BY <1>5, <2>1 DEF IrAt
  <2>4. /\ Slope(util, r.util, r.r_one) + r.r_base \in Nat
        /\ Slope(more, r.util, r.r_one) + r.r_base \in Nat
        /\ Slope(util, r.util, r.r_one) + r.r_base <= Slope(more, r.util, r.r_one) + r.r_base
    BY <1>1, <2>2
  <2> QED  BY <2>3, <2>4, Mul7Monotonic
<1>6. CASE util > r.util /\ more <= Kink
  <2> DEFINE x == Slope(util - r.util, Kink - r.util, r.r_two)
             y == Slope(more - r.util, Kink - r.util, r.r_two)
  <2>1. /\ util - r.util \in Nat /\ more - r.util \in Nat /\ Kink - r.util \in Positive
        /\ util - r.util <= more - r.util /\ util <= Kink /\ more > r.util
    BY <1>1, <1>6 DEF Positive
  <2>2. x \in Nat /\ y \in Nat /\ x <= y
    <3>1. PICK part \in Nat, larger \in Nat, whole \in Positive :
            part = util - r.util /\ larger = more - r.util /\ whole = Kink - r.util
      BY <2>1
    <3>2. /\ Slope(part, whole, r.r_two) \in Nat /\ Slope(larger, whole, r.r_two) \in Nat
          /\ Slope(part, whole, r.r_two) <= Slope(larger, whole, r.r_two)
      <4>1. part <= larger /\ r.r_two \in Nat
        BY <1>1, <2>1, <3>1
      <4>2. Slope(part, whole, r.r_two) <= Slope(larger, whole, r.r_two)
        BY <4>1, SlopeMonotonic
      <4> QED  BY <4>1, <4>2, SlopeBounds
    <3>3. x = Slope(part, whole, r.r_two) /\ y = Slope(larger, whole, r.r_two)
      BY <3>1
    <3> HIDE DEF x, y
    <3> QED  BY <3>2, <3>3
  <2>3. /\ IrAt(r, mod, util) = Mul7(x + r.r_one + r.r_base, mod)
        /\ IrAt(r, mod, more) = Mul7(y + r.r_one + r.r_base, mod)
    BY <1>1, <1>6, <2>1 DEF IrAt
  <2> HIDE DEF x, y
  <2>4. /\ x + r.r_one + r.r_base \in Nat /\ y + r.r_one + r.r_base \in Nat
        /\ x + r.r_one + r.r_base <= y + r.r_one + r.r_base
    BY <1>1, <2>2
  <2> QED  BY <2>3, <2>4, Mul7Monotonic
<1>7. CASE util > Kink
  <2> DEFINE x == Slope(util - Kink, SCALAR_7 - Kink, r.r_three)
             y == Slope(more - Kink, SCALAR_7 - Kink, r.r_three)
             base == Mul7(mod, r.r_two + r.r_one + r.r_base)
  <2>1. /\ util - Kink \in Nat /\ more - Kink \in Nat /\ SCALAR_7 - Kink \in Positive
        /\ util - Kink <= more - Kink /\ util > r.util /\ more > r.util /\ more > Kink
    BY <1>1, <1>7, CurveConstants DEF Positive
  <2>2. x \in Nat /\ y \in Nat /\ x <= y
    BY <1>1, <2>1, SlopeBounds, SlopeMonotonic
  <2>3. r.r_two + r.r_one + r.r_base \in Nat
    BY <1>1
  <2>4. base \in Nat
    BY <2>3, Mul7Bounds
  <2>5. IrAt(r, mod, util) = x + base /\ IrAt(r, mod, more) = y + base
    BY <1>1, <1>7, <2>1 DEF IrAt
  <2> HIDE DEF x, y, base
  <2> QED  BY <2>2, <2>4, <2>5
<1>8. CASE util <= r.util /\ more > r.util
  BY <1>1, <1>2, <1>3, <1>4, <1>8
<1>9. CASE util > r.util /\ util <= Kink /\ more > Kink
  BY <1>1, <1>2, <1>4, <1>9
<1> QED  BY <1>1, <1>5, <1>6, <1>7, <1>8, <1>9
-----------------------------------------------------------------------------
(***************************************************************************)
(* The reserve's behaviours.                                               *)
(***************************************************************************)

\* The types; a configuration is never changed once the pool has it.
SummaryInv == config \in Configs /\ reserve \in ReserveData

\* What the reserve data say.
LEMMA ReserveFields ==
  ASSUME SummaryInv
  PROVE  /\ reserve.b_supply \in Nat /\ reserve.b_rate \in Nat /\ reserve.d_supply \in Nat
         /\ reserve.d_rate \in Nat /\ reserve.ir_mod \in Nat
  BY DEF SummaryInv, ReserveData

\* The reserve starts empty, with a configuration of the pool.
LEMMA SummaryInitTyped == ASSUME SummaryInit PROVE SummaryInv
<1>1. PICK b_rate \in PoolRates, d_rate \in PoolRates, ir_mod \in IrMods :
        reserve = [b_supply |-> 0, b_rate |-> b_rate, d_supply |-> 0, d_rate |-> d_rate,
                   ir_mod |-> ir_mod]
  BY DEF SummaryInit
<1>2. b_rate \in Nat /\ d_rate \in Nat /\ ir_mod \in Nat
  BY ReserveAssumption
<1> QED  BY <1>1, <1>2 DEF SummaryInit, SummaryInv, ReserveData

\* Lending, borrowing and accruing leave the configuration alone.
LEMMA SummaryNextTyped ==
  ASSUME SummaryInv, [SummaryNext]_summaryVars
  PROVE  SummaryInv' /\ config' = config
<1>1. config' = config
  BY DEF SummaryNext, summaryVars
<1>2. reserve \in ReserveData
  BY DEF SummaryInv
<1>3. Lend => reserve' \in ReserveData
  BY <1>2 DEF Lend, ReserveData
<1>4. Leave => reserve' \in ReserveData
  BY <1>2 DEF Leave, ReserveData
<1>5. Borrow => reserve' \in ReserveData
  BY <1>2 DEF Borrow, ReserveData
<1>6. Repay => reserve' \in ReserveData
  BY <1>2 DEF Repay, ReserveData
<1>7. Accrue => reserve' \in ReserveData
  BY <1>2, ReserveAssumption DEF Accrue, ReserveData
<1>8. UNCHANGED summaryVars => reserve' \in ReserveData
  BY <1>2 DEF summaryVars
<1>9. reserve' \in ReserveData
  BY <1>3, <1>4, <1>5, <1>6, <1>7, <1>8 DEF SummaryNext
<1> QED  BY <1>1, <1>9 DEF SummaryInv

\* SummaryInv holds in every reachable state.
THEOREM SummaryInvariant == SummarySpec => []SummaryInv
<1>1. SummaryInit => SummaryInv
  BY SummaryInitTyped
<1>2. SummaryInv /\ [SummaryNext]_summaryVars => SummaryInv'
  BY SummaryNextTyped
<1> QED  BY <1>1, <1>2, PTL DEF SummarySpec

\* The numbers of one summary.
LEMMA SummaryNumbers ==
  ASSUME SummaryInv
  PROVE  /\ liabilities \in Nat /\ supply \in Nat /\ cur_util \in 0..SCALAR_7
         /\ cur_util * supply <= liabilities * SCALAR_7 + supply
         /\ summary_returns => cur_ir \in Nat
<1>1. /\ reserve.d_supply * reserve.d_rate \in Nat /\ reserve.b_supply * reserve.b_rate \in Nat
  BY ReserveFields, TimesIsNatural
<1>2. liabilities \in Nat /\ supply \in Nat
  BY <1>1, CurveConstants, DivSign DEF liabilities, supply
<1>3. cur_util \in 0..SCALAR_7 /\ cur_util * supply <= liabilities * SCALAR_7 + supply
  BY <1>2, SummaryIsComputed, UtilBounds
<1>4. summary_returns => cur_ir \in Nat
  BY <1>3, SummaryIsComputed, IrBounds, ReserveFields DEF SummaryInv, summary_returns
<1> QED  BY <1>2, <1>3, <1>4

\* What lenders are promised, in terms of the two floors it is computed with.
LEMMA AprBounds ==
  ASSUME NEW ir \in Nat, NEW util \in Nat, NEW bstop_rate \in Int,
         SCALAR_7 - bstop_rate \in Nat
  PROVE  /\ AprAt(ir, util, bstop_rate) \in Nat
         /\ (AprAt(ir, util, bstop_rate) * SCALAR_7) * SCALAR_7
              <= (ir * util) * (SCALAR_7 - bstop_rate)
<1> DEFINE kept == SCALAR_7 - bstop_rate
           gross == FloorDiv(ir * util, SCALAR_7)
           apr == FloorDiv(gross * kept, SCALAR_7)
<1>1. SCALAR_7 \in Positive /\ SCALAR_7 \in Nat /\ ir * util \in Nat /\ kept \in Nat
  BY CurveConstants, TimesIsNatural DEF Positive
<1>2. gross \in Nat /\ SCALAR_7 * gross <= ir * util
  BY <1>1, FloorDivBounds, DivSign
<1> HIDE DEF gross, kept
<1>3. gross * kept \in Nat
  BY <1>1, <1>2, TimesIsNatural
<1>4. apr \in Nat /\ SCALAR_7 * apr <= gross * kept
  BY <1>1, <1>3, FloorDivBounds, DivSign
<1> HIDE DEF apr
<1>5. SCALAR_7 * (SCALAR_7 * apr) <= SCALAR_7 * (gross * kept)
  <2>1. SCALAR_7 * apr \in Nat
    BY <1>1, <1>4, TimesIsNatural
  <2> QED  BY <1>1, <1>3, <1>4, <2>1, TimesKeepsOrder
<1>6. (SCALAR_7 * gross) * kept <= (ir * util) * kept
  <2>1. SCALAR_7 * gross \in Nat
    BY <1>1, <1>2, TimesIsNatural
  <2> QED  BY <1>1, <1>2, <2>1, TimesKeepsOrder
<1>7. (apr * SCALAR_7) * SCALAR_7 <= (ir * util) * kept
  <2>1. /\ (apr * SCALAR_7) * SCALAR_7 = SCALAR_7 * (SCALAR_7 * apr)
        /\ SCALAR_7 * (gross * kept) = (SCALAR_7 * gross) * kept
    BY <1>1, <1>2, <1>4
  <2>2. /\ SCALAR_7 * (SCALAR_7 * apr) \in Nat /\ SCALAR_7 * (gross * kept) \in Nat
        /\ (ir * util) * kept \in Nat
    BY <1>1, <1>2, <1>3, <1>4, TimesIsNatural
  <2> QED  BY <1>5, <1>6, <2>1, <2>2
<1>8. apr = AprAt(ir, util, bstop_rate)
  BY DEF apr, gross, kept, AprAt
<1> QED  BY <1>4, <1>7, <1>8 DEF kept

\* Higher utilization and a higher rate promise lenders no less.
LEMMA AprMonotonic ==
  ASSUME NEW ir \in Nat, NEW ir2 \in Nat, NEW util \in Nat, NEW util2 \in Nat,
         ir <= ir2, util <= util2, NEW bstop_rate \in Int, SCALAR_7 - bstop_rate \in Nat
  PROVE  AprAt(ir, util, bstop_rate) <= AprAt(ir2, util2, bstop_rate)
<1> DEFINE kept == SCALAR_7 - bstop_rate
           gross == FloorDiv(ir * util, SCALAR_7)
           gross2 == FloorDiv(ir2 * util2, SCALAR_7)
<1>1. /\ SCALAR_7 \in Positive /\ kept \in Nat
      /\ ir * util \in Nat /\ ir * util2 \in Nat /\ ir2 * util2 \in Nat
  BY CurveConstants, TimesIsNatural
<1>2. ir * util <= ir2 * util2
  <2>1. ir * util <= ir * util2 /\ ir * util2 <= ir2 * util2
    BY TimesKeepsOrder
  <2> QED  BY <1>1, <2>1
<1>3. gross \in Nat /\ gross2 \in Nat /\ gross <= gross2
  BY <1>1, <1>2, DivSign, DivMonotonic
<1> HIDE DEF gross, gross2, kept
<1>4. gross * kept \in Nat /\ gross2 * kept \in Nat /\ gross * kept <= gross2 * kept
  BY <1>1, <1>3, TimesIsNatural, TimesKeepsOrder
<1>5. FloorDiv(gross * kept, SCALAR_7) <= FloorDiv(gross2 * kept, SCALAR_7)
  BY <1>1, <1>4, DivMonotonic
<1> QED  BY <1>5 DEF AprAt, gross, gross2, kept

\* Lenders are not promised more than borrowers pay, less the backstop's part.
LEMMA EstimateIsCovered == ASSUME SummaryInv PROVE PromisesAreCovered
<1> SUFFICES ASSUME summary_returns
             PROVE  est_apr * supply * SCALAR_7 * SCALAR_7
                      <= cur_ir * (liabilities * SCALAR_7 + supply)
                           * (SCALAR_7 - config.bstop_rate)
  BY DEF PromisesAreCovered
<1> DEFINE kept == SCALAR_7 - config.bstop_rate
           apr == est_apr
           ir == cur_ir
           owed == liabilities * SCALAR_7 + supply
           lent == supply
           util == cur_util
<1>1. /\ SCALAR_7 \in Nat /\ kept \in Nat /\ lent \in Nat /\ util \in Nat /\ ir \in Nat
      /\ util * lent <= owed
  BY SummaryNumbers, ConfigFields, CurveConstants DEF SummaryInv, Positive
<1>2. owed \in Nat
  BY SummaryNumbers, CurveConstants DEF Positive
<1>3. config.bstop_rate \in Int
  BY ConfigFields DEF SummaryInv
<1>4. apr \in Nat /\ (apr * SCALAR_7) * SCALAR_7 <= (ir * util) * kept
  BY <1>1, <1>3, AprBounds, SummaryIsComputed
<1> HIDE DEF kept, apr, ir, owed, lent, util
<1>5. ((apr * SCALAR_7) * SCALAR_7) * lent <= ((ir * util) * kept) * lent
  <2>1. (apr * SCALAR_7) * SCALAR_7 \in Nat /\ (ir * util) * kept \in Nat
    BY <1>1, <1>4, TimesIsNatural
  <2> QED  BY <1>1, <1>4, <2>1, TimesKeepsOrder
<1>6. (ir * kept) * (util * lent) <= (ir * kept) * owed
  <2>1. ir * kept \in Nat /\ util * lent \in Nat
    BY <1>1, TimesIsNatural
  <2> QED  BY <1>1, <1>2, <2>1, TimesKeepsOrder
<1>7. apr * lent * SCALAR_7 * SCALAR_7 <= ir * owed * kept
  <2>1. apr * lent * SCALAR_7 * SCALAR_7 = ((apr * SCALAR_7) * SCALAR_7) * lent
    BY <1>1, <1>4
  <2>2. ((ir * util) * kept) * lent = (ir * kept) * (util * lent)
    BY <1>1
  <2>3. (ir * kept) * owed = ir * owed * kept
    BY <1>1, <1>2
  <2>4. /\ ((apr * SCALAR_7) * SCALAR_7) * lent \in Nat /\ ((ir * util) * kept) * lent \in Nat
        /\ (ir * kept) * owed \in Nat
    BY <1>1, <1>2, <1>4, TimesIsNatural
  <2> QED  BY <1>5, <1>6, <2>1, <2>2, <2>3, <2>4
<1> QED  BY <1>7 DEF kept, apr, ir, owed, lent

\* What AprRisesWithUtilization says of one step.
AprRises ==
  /\ summary_returns /\ summary_returns'
  /\ reserve'.d_supply >= reserve.d_supply
  /\ reserve'.b_supply <= reserve.b_supply
  /\ \A part \in {"b_rate", "d_rate", "ir_mod"} : reserve'[part] = reserve[part]
  => est_apr' >= est_apr

\* With more debt or less supply utilization rises, the rate with it, and the
\* estimate with both.
LEMMA EstimateRises ==
  ASSUME SummaryInv, SummaryInv', config' = config
  PROVE  AprRises
<1> SUFFICES ASSUME summary_returns, summary_returns',
                    reserve'.d_supply >= reserve.d_supply,
                    reserve'.b_supply <= reserve.b_supply,
                    \A part \in {"b_rate", "d_rate", "ir_mod"} : reserve'[part] = reserve[part]
             PROVE  est_apr' >= est_apr
  BY DEF AprRises
<1>1. /\ reserve'.b_rate = reserve.b_rate /\ reserve'.d_rate = reserve.d_rate
      /\ reserve'.ir_mod = reserve.ir_mod
      /\ reserve.b_supply \in Nat /\ reserve.b_rate \in Nat /\ reserve.d_supply \in Nat
      /\ reserve.d_rate \in Nat /\ reserve.ir_mod \in Nat
      /\ reserve'.b_supply \in Nat /\ reserve'.d_supply \in Nat
  BY DEF SummaryInv, ReserveData
<1>2. /\ liabilities \in Nat /\ supply \in Nat /\ cur_util \in 0..SCALAR_7 /\ cur_ir \in Nat
  BY SummaryNumbers
<1>3. /\ liabilities' \in Nat /\ supply' \in Nat /\ cur_util' \in 0..SCALAR_7
      /\ cur_ir' \in Nat
  <2>1. (SummaryInv => /\ liabilities \in Nat /\ supply \in Nat /\ cur_util \in 0..SCALAR_7
                       /\ summary_returns => cur_ir \in Nat)'
    BY SummaryNumbers, PTL
  <2> QED  BY <2>1
<1>4. liabilities <= liabilities' /\ supply' <= supply
  <2>1. /\ reserve.d_supply * reserve.d_rate \in Nat
        /\ reserve'.d_supply * reserve'.d_rate \in Nat
        /\ reserve.d_supply * reserve.d_rate <= reserve'.d_supply * reserve'.d_rate
    BY <1>1, TimesIsNatural, TimesKeepsOrder
  <2>2. /\ reserve.b_supply * reserve.b_rate \in Nat
        /\ reserve'.b_supply * reserve'.b_rate \in Nat
        /\ reserve'.b_supply * reserve'.b_rate <= reserve.b_supply * reserve.b_rate
    BY <1>1, TimesIsNatural, TimesKeepsOrder
  <2>3. CeilDiv(reserve.d_supply * reserve.d_rate, Scalar)
          <= CeilDiv(reserve'.d_supply * reserve'.d_rate, Scalar)
    BY <2>1, CurveConstants, DivMonotonic
  <2>4. FloorDiv(reserve'.b_supply * reserve'.b_rate, Scalar)
          <= FloorDiv(reserve.b_supply * reserve.b_rate, Scalar)
    BY <2>2, CurveConstants, DivMonotonic
  <2> QED  BY <2>3, <2>4 DEF liabilities, supply
<1>5. /\ cur_util = UtilAt(liabilities, supply)
      /\ cur_ir = IrAt(config, reserve.ir_mod, cur_util)
      /\ est_apr = AprAt(cur_ir, cur_util, config.bstop_rate)
  BY SummaryIsComputed
<1>6. /\ cur_util' = UtilAt(liabilities', supply')
      /\ cur_ir' = IrAt(config, reserve.ir_mod, cur_util')
      /\ est_apr' = AprAt(cur_ir', cur_util', config.bstop_rate)
  <2>1. cur_util' = UtilAt(liabilities', supply')
    BY DEF cur_util, UtilAt
  <2>2. cur_ir' = IrAt(config', reserve'.ir_mod, cur_util')
    BY DEF cur_ir, IrAt
  <2>3. est_apr' = AprAt(cur_ir', cur_util', config'.bstop_rate)
    BY DEF est_apr, AprAt
  <2> QED  BY <1>1, <2>1, <2>2, <2>3
<1>7. cur_util <= cur_util'
  BY <1>2, <1>3, <1>4, <1>5, <1>6, UtilMonotonic
<1>8. config \in Configs /\ (config.util = 0 => cur_util > 0)
  BY DEF SummaryInv, summary_returns
<1>9. cur_ir <= cur_ir'
  BY <1>1, <1>2, <1>3, <1>5, <1>6, <1>7, <1>8, IrMonotonic
<1>10. /\ cur_util \in Nat /\ cur_util' \in Nat
       /\ config.bstop_rate \in Int /\ SCALAR_7 - config.bstop_rate \in Nat
  BY <1>2, <1>3, <1>8, ConfigFields, CurveConstants DEF Positive
<1>11. est_apr <= est_apr'
  BY <1>2, <1>3, <1>5, <1>6, <1>7, <1>9, <1>10, AprMonotonic
<1>12. est_apr \in Nat /\ est_apr' \in Nat
  BY <1>2, <1>3, <1>5, <1>6, <1>10, AprBounds
<1> QED  BY <1>11, <1>12
-----------------------------------------------------------------------------
(***************************************************************************)
(* The interest curve.                                                     *)
(***************************************************************************)

\* Z is slack enough for a rate that rises by `rate` under the modifier mod.
Covers(Z, mod, rate) ==
  /\ SCALAR_7 * SCALAR_7 + mod * (rate + SCALAR_7) <= (SCALAR_7 * SCALAR_7) * Z
  /\ rate + 2 * SCALAR_7 <= SCALAR_7 * Z

\* The slack stated is slack enough for each of the three slopes.
LEMMA SlackCovers ==
  ASSUME SummaryInv
  PROVE  /\ Slack \in Nat
         /\ Covers(Slack, reserve.ir_mod, config.r_one)
         /\ Covers(Slack, reserve.ir_mod, config.r_two)
         /\ Covers(Slack, reserve.ir_mod, config.r_three)
<1> DEFINE S == SCALAR_7
           mod == reserve.ir_mod
           steepest == config.r_one + config.r_two + config.r_three + S
           z == CeilDiv(steepest * (mod + S), S * S)
<1>1. /\ S \in Nat /\ S > 0 /\ mod \in Nat /\ steepest \in Nat /\ mod + S \in Nat
      /\ config.r_one \in Nat /\ config.r_two \in Nat /\ config.r_three \in Nat
  BY CurveConstants, ReserveFields, ConfigFields DEF SummaryInv, Positive
<1>2. /\ config.r_one + S <= steepest /\ config.r_two + S <= steepest
      /\ config.r_three + S <= steepest
  BY <1>1
<1>3. Slack = 1 + z
  BY DEF Slack
<1> HIDE DEF S, mod, steepest
<1>4. steepest * (mod + S) \in Nat /\ S * S \in Positive
  BY <1>1 DEF Positive
<1>5. z \in Nat /\ steepest * (mod + S) <= (S * S) * z
  BY <1>4, CeilDivBounds, DivSign
<1> HIDE DEF z
<1>6. ASSUME NEW rate \in Nat, rate + S <= steepest
      PROVE  Covers(1 + z, mod, rate)
  <2>1. (rate + S) * (mod + S) <= steepest * (mod + S)
    BY <1>1, <1>6, TimesKeepsOrder
  <2>2. (rate + S) * (mod + S) = mod * (rate + S) + S * (rate + S)
    BY <1>1
  <2>3. mod * (rate + S) \in Nat /\ S * (rate + S) \in Nat /\ S * (S * z) \in Nat
    BY <1>1, <1>5
  <2>4. (S * S) * z = S * (S * z)
    BY <1>1, <1>5
  <2>5. S * (rate + S) <= S * (S * z) /\ mod * (rate + S) <= (S * S) * z
    BY <1>4, <1>5, <2>1, <2>2, <2>3, <2>4
  <2>6. rate + S <= S * z
    <3>1. S \in Positive /\ rate + S \in Int /\ S * z \in Int
      BY <1>1, <1>5 DEF Positive
    <3> QED  BY <2>5, <3>1, Cancel
  <2>7. (S * S) * (1 + z) = S * S + (S * S) * z /\ S * (1 + z) = S + S * z
    BY <1>1, <1>5
  <2>8. /\ S * S + mod * (rate + S) <= (S * S) * (1 + z)
        /\ rate + 2 * S <= S * (1 + z)
    BY <1>1, <1>4, <1>5, <2>3, <2>4, <2>5, <2>6, <2>7
  <2> QED  BY <2>8 DEF Covers, S
<1>7. 1 + z \in Nat
  BY <1>5
<1> QED  BY <1>1, <1>2, <1>3, <1>6, <1>7 DEF mod

\* A slope with what it stands on, under the modifier: at least the exact rate,
\* and no more than the slack above it.
LEMMA ModifiedSlope ==
  ASSUME NEW part \in Nat, NEW whole \in Positive, NEW rate \in Nat, NEW flat \in Nat,
         NEW mod \in Nat, NEW Z \in Nat, Covers(Z, mod, rate)
  PROVE  LET ir == Mul7(Slope(part, whole, rate) + flat, mod)
             exact == (part * rate + flat * whole) * mod
         IN  /\ exact <= SCALAR_7 * (whole * ir)
             /\ SCALAR_7 * (whole * ir) <= exact + SCALAR_7 * (whole * Z)
<1> DEFINE S == SCALAR_7
           x == Slope(part, whole, rate)
           ir == Mul7(x + flat, mod)
           p == part * rate
           exact == (p + flat * whole) * mod
<1>1. /\ S \in Nat /\ S \in Positive /\ whole \in Nat /\ p \in Nat
      /\ S * S + mod * (rate + S) <= (S * S) * Z
  BY CurveConstants, TimesIsNatural DEF Positive, Covers
<1>2. /\ x \in Nat /\ p <= whole * x
      /\ S * (whole * x) <= S * p + whole * (rate + S)
  BY SlopeBounds
<1> HIDE DEF x
<1>3. /\ ir \in Nat /\ (x + flat) * mod <= S * ir /\ S * ir <= (x + flat) * mod + S
  <2>1. x + flat \in Nat
    BY <1>2
  <2> HIDE DEF S
  <2>2. /\ ir \in Nat /\ (x + flat) * mod <= S * ir /\ S * ir < (x + flat) * mod + S
    BY <2>1, Mul7Bounds DEF S
  <2>3. (x + flat) * mod \in Nat /\ S * ir \in Nat
    BY <1>1, <2>1, <2>2, TimesIsNatural
  <2> QED  BY <1>1, <2>2, <2>3
<1> HIDE DEF S, ir, p
<1>4. /\ whole * x \in Nat /\ flat * whole \in Nat /\ (x + flat) * mod \in Nat
      /\ S * ir \in Nat /\ p + flat * whole \in Nat /\ exact \in Nat
      /\ whole * x + flat * whole \in Nat
  BY <1>1, <1>2, <1>3, TimesIsNatural
<1>5. whole * ((x + flat) * mod) <= whole * (S * ir)
  BY <1>1, <1>3, <1>4, TimesKeepsOrder
<1>6. /\ whole * ((x + flat) * mod) = (whole * x + flat * whole) * mod
      /\ whole * (S * ir) = S * (whole * ir)
  BY <1>1, <1>2, <1>3
<1>7. exact <= S * (whole * ir)
  <2>1. (p + flat * whole) * mod <= (whole * x + flat * whole) * mod
    <3>1. p + flat * whole <= whole * x + flat * whole
      BY <1>1, <1>2, <1>4
    <3>2. p + flat * whole \in Int /\ whole * x + flat * whole \in Int /\ mod \in Nat
      BY <1>4
    <3> QED  BY <3>1, <3>2, TimesKeepsOrder
  <2>2. (whole * x + flat * whole) * mod \in Nat /\ S * (whole * ir) \in Nat
    BY <1>1, <1>3, <1>4, TimesIsNatural
  <2> QED  BY <1>4, <1>5, <1>6, <2>1, <2>2
<1>8. S * (S * (whole * ir)) <= S * (exact + S * (whole * Z))
  <2>1. whole * (S * ir) <= whole * ((x + flat) * mod + S)
    BY <1>1, <1>3, <1>4, TimesKeepsOrder
  <2>2. whole * ((x + flat) * mod + S) = (whole * x) * mod + (flat * whole) * mod + whole * S
    BY <1>1, <1>2
  <2>3. S * (S * (whole * ir))
          <= S * ((whole * x) * mod + (flat * whole) * mod + whole * S)
    <3>1. /\ whole * (S * ir) \in Int
          /\ (whole * x) * mod + (flat * whole) * mod + whole * S \in Int
      BY <1>1, <1>2, <1>3
    <3>2. S * (whole * (S * ir)) <= S * ((whole * x) * mod + (flat * whole) * mod + whole * S)
      BY <1>1, <2>1, <2>2, <3>1, TimesKeepsOrder
    <3> QED  BY <1>6, <3>2
  <2>4. (S * (whole * x)) * mod <= (S * p + whole * (rate + S)) * mod
    <3>1. S * (whole * x) \in Int /\ S * p + whole * (rate + S) \in Int
      BY <1>1, <1>2
    <3> QED  BY <1>2, <3>1, TimesKeepsOrder
  <2>5. whole * (S * S + mod * (rate + S)) <= whole * ((S * S) * Z)
    <3>1. S * S + mod * (rate + S) \in Int /\ (S * S) * Z \in Int
      BY <1>1
    <3> QED  BY <1>1, <3>1, TimesKeepsOrder
  <2>6. S * ((whole * x) * mod + (flat * whole) * mod + whole * S)
          = (S * (whole * x)) * mod + S * ((flat * whole) * mod) + whole * (S * S)
    BY <1>1, <1>2
  <2>7. (S * p + whole * (rate + S)) * mod
          = S * (p * mod) + whole * (mod * (rate + S))
    BY <1>1
  <2>8. whole * (S * S + mod * (rate + S)) = whole * (S * S) + whole * (mod * (rate + S))
    BY <1>1
  <2>9. S * (exact + S * (whole * Z))
          = S * (p * mod) + S * ((flat * whole) * mod) + whole * ((S * S) * Z)
    <3>1. exact = p * mod + (flat * whole) * mod
      BY <1>1
    <3>2. p * mod \in Int /\ (flat * whole) * mod \in Int /\ S * (whole * Z) \in Int
      BY <1>1
    <3>3. S * (p * mod + (flat * whole) * mod + S * (whole * Z))
            = S * (p * mod) + S * ((flat * whole) * mod) + S * (S * (whole * Z))
      BY <1>1, <3>2
    <3>4. S * (S * (whole * Z)) = whole * ((S * S) * Z)
      BY <1>1
    <3> QED  BY <3>1, <3>3, <3>4
  <2>10. /\ (S * (whole * x)) * mod \in Int /\ S * ((flat * whole) * mod) \in Int
         /\ whole * (S * S) \in Int /\ whole * (mod * (rate + S)) \in Int
         /\ S * (p * mod) \in Int /\ whole * ((S * S) * Z) \in Int
         /\ S * (S * (whole * ir)) \in Int
    BY <1>1, <1>2, <1>3
  <2> QED  BY <2>3, <2>4, <2>5, <2>6, <2>7, <2>8, <2>9, <2>10
<1>9. S * (whole * ir) <= exact + S * (whole * Z)
  <2>1. S * (whole * ir) \in Int /\ exact + S * (whole * Z) \in Int
    BY <1>1, <1>3, <1>4
  <2> QED  BY <1>1, <1>8, <2>1, Cancel
<1> QED  BY <1>7, <1>9 DEF S, ir, x, p

\* What lies within c above a still does, both times k.
LEMMA TimesKeepsDistance ==
  ASSUME NEW a \in Int, NEW b \in Int, NEW c \in Int, a <= b, b <= a + c, NEW k \in Nat
  PROVE  b * k - a * k \in 0..(c * k)
<1>1. a * k <= b * k /\ b * k <= (a + c) * k
  <2>1. a + c \in Int
    OBVIOUS
  <2> QED  BY <2>1, TimesKeepsOrder
<1>2. (a + c) * k = a * k + c * k
  OBVIOUS
<1>3. a * k \in Int /\ b * k \in Int /\ c * k \in Int
  OBVIOUS
<1> QED  BY <1>1, <1>2, <1>3

\* The first two branches, on the denominator they share with the others.
LEMMA FollowsOnSlope ==
  ASSUME NEW part \in Nat, NEW whole \in Positive, NEW rate \in Nat, NEW flat \in Nat,
         NEW mod \in Nat, NEW Z \in Nat, Covers(Z, mod, rate), NEW rest \in Nat
  PROVE  LET ir == Mul7(Slope(part, whole, rate) + flat, mod)
             exact == (part * rate + flat * whole) * mod
         IN  /\ ir \in Nat
             /\ (SCALAR_7 * (whole * ir)) * rest - exact * rest
                  \in 0..((SCALAR_7 * (whole * Z)) * rest)
<1> DEFINE S == SCALAR_7
           ir == Mul7(Slope(part, whole, rate) + flat, mod)
           exact == (part * rate + flat * whole) * mod
<1>1. exact <= S * (whole * ir) /\ S * (whole * ir) <= exact + S * (whole * Z)
  BY ModifiedSlope
<1>2. ir \in Nat
  <2>1. Slope(part, whole, rate) \in Nat
    BY SlopeBounds
  <2>2. Slope(part, whole, rate) + flat \in Nat
    BY <2>1
  <2> QED  BY <2>2, Mul7Bounds
<1> HIDE DEF ir
<1>3. exact \in Int /\ S * (whole * ir) \in Int /\ S * (whole * Z) \in Int
  BY <1>2, CurveConstants DEF Positive
<1> HIDE DEF S, exact
<1>4. (S * (whole * ir)) * rest - exact * rest \in 0..((S * (whole * Z)) * rest)
  BY <1>1, <1>3, TimesKeepsDistance
<1> QED  BY <1>2, <1>4 DEF S, ir, exact

\* The third branch adds a slope to a rate that was modified alone.
LEMMA FollowsBeyondKink ==
  ASSUME NEW part \in Nat, NEW whole \in Positive, NEW rate \in Nat, NEW flat \in Nat,
         NEW mod \in Nat, NEW Z \in Nat, Covers(Z, mod, rate), NEW rest \in Nat
  PROVE  LET ir == Slope(part, whole, rate) + Mul7(mod, flat)
             exact == (flat * mod) * whole + SCALAR_7 * (part * rate)
         IN  /\ ir \in Nat
             /\ (SCALAR_7 * (whole * ir)) * rest - exact * rest
                  \in 0..((SCALAR_7 * (whole * Z)) * rest)
<1> DEFINE S == SCALAR_7
           x == Slope(part, whole, rate)
           m == Mul7(mod, flat)
           p == part * rate
           q == flat * mod
           exact == q * whole + S * p
<1>1. /\ S \in Nat /\ whole \in Nat /\ p \in Nat /\ q \in Nat /\ q = mod * flat
      /\ rate + 2 * S <= S * Z
  BY CurveConstants DEF Positive, Covers
<1>2. /\ x \in Nat /\ p <= whole * x
      /\ S * (whole * x) <= S * p + whole * (rate + S)
  BY SlopeBounds
<1>3. m \in Nat /\ mod * flat <= S * m /\ S * m < mod * flat + S
  BY Mul7Bounds
<1> HIDE DEF S, x, m, p, q
<1>4. /\ whole * x \in Nat /\ S * m \in Nat /\ S * (whole * x) \in Nat
      /\ whole * (S * m) \in Nat /\ S * p \in Nat /\ q * whole \in Nat
      /\ whole * S \in Nat /\ whole * rate \in Nat /\ whole * (S * Z) \in Nat
  <2>1. whole * x \in Nat /\ S * m \in Nat /\ S * Z \in Nat
    BY <1>1, <1>2, <1>3, TimesIsNatural
  <2> QED  BY <1>1, <2>1, TimesIsNatural
<1>5. S * p <= S * (whole * x)
  BY <1>1, <1>2, <1>4, TimesKeepsOrder
<1>6. q * whole <= whole * (S * m) /\ whole * (S * m) <= q * whole + whole * S
  <2>1. q <= S * m /\ S * m <= q + S /\ q + S \in Nat
    BY <1>1, <1>3, <1>4
  <2>2. whole * q <= whole * (S * m) /\ whole * (S * m) <= whole * (q + S)
    BY <1>1, <1>4, <2>1, TimesKeepsOrder
  <2>3. whole * q = q * whole /\ whole * (q + S) = q * whole + whole * S
    BY <1>1
  <2> QED  BY <2>2, <2>3
<1>7. whole * rate + 2 * (whole * S) <= whole * (S * Z)
  <2>1. rate + 2 * S \in Int /\ S * Z \in Int
    BY <1>1
  <2>2. whole * (rate + 2 * S) <= whole * (S * Z)
    BY <1>1, <2>1, TimesKeepsOrder
  <2>3. whole * (rate + 2 * S) = whole * rate + 2 * (whole * S)
    BY <1>1
  <2> QED  BY <2>2, <2>3
<1>8. /\ S * (whole * (x + m)) = S * (whole * x) + whole * (S * m)
      /\ whole * (rate + S) = whole * rate + whole * S
      /\ S * (whole * Z) = whole * (S * Z)
  BY <1>1, <1>2, <1>3
<1>9. /\ exact <= S * (whole * (x + m))
      /\ S * (whole * (x + m)) <= exact + S * (whole * Z)
  BY <1>2, <1>4, <1>5, <1>6, <1>7, <1>8
<1>10. exact \in Int /\ S * (whole * (x + m)) \in Int /\ S * (whole * Z) \in Int
  BY <1>4, <1>8
<1> HIDE DEF exact
<1>11. (S * (whole * (x + m))) * rest - exact * rest \in 0..((S * (whole * Z)) * rest)
  BY <1>9, <1>10, TimesKeepsDistance
<1>12. x + m \in Nat
  BY <1>2, <1>3
<1> QED  BY <1>11, <1>12 DEF S, x, m, p, q, exact

\* The curve with so much of its three slopes climbed.
CurveWith(a, b, c) ==
  LET first == AtLeastOne(config.util)
      second == AtLeastOne(Kink - config.util)
      rise == config.r_base * first * second + a * config.r_one * second
                + b * config.r_two * first
  IN  rise * reserve.ir_mod * (SCALAR_7 - Kink) + c * config.r_three * SCALAR_7 * first * second

\* Each branch of the rate has climbed the slopes below it, and a part of its own.
LEMMA CurveOfBranch ==
  ASSUME config.util \in Nat, config.util <= Kink, cur_util \in 0..SCALAR_7
  PROVE  /\ cur_util <= config.util => Curve = CurveWith(cur_util, 0, 0)
         /\ cur_util > config.util /\ cur_util <= Kink
              => Curve = CurveWith(AtLeastOne(config.util), cur_util - config.util, 0)
         /\ cur_util > config.util /\ cur_util > Kink
              => Curve = CurveWith(AtLeastOne(config.util), AtLeastOne(Kink - config.util),
                                   cur_util - Kink)
<1>1. SCALAR_7 \in Int /\ Kink \in Int /\ Kink < SCALAR_7 /\ Kink > 0
  BY CurveAssumption
<1>2. /\ ~(cur_util > SCALAR_7) /\ cur_util \in Int
      /\ (IF cur_util > 0 THEN cur_util - 0 ELSE 0) = cur_util
  BY <1>1
<1>3. ASSUME cur_util <= config.util
      PROVE  Curve = CurveWith(cur_util, 0, 0)
  <2>1. ~(cur_util > config.util) /\ ~(cur_util > Kink)
    BY <1>1, <1>2, <1>3
  <2> QED  BY <1>2, <2>1, Zenon DEF Curve, CurveWith
<1>4. ASSUME cur_util > config.util, cur_util <= Kink
      PROVE  Curve = CurveWith(AtLeastOne(config.util), cur_util - config.util, 0)
  <2>1. cur_util > config.util /\ ~(cur_util > Kink)
    BY <1>1, <1>2, <1>4
  <2> QED  BY <1>2, <2>1, Zenon DEF Curve, CurveWith
<1>5. ASSUME cur_util > config.util, cur_util > Kink
      PROVE  Curve = CurveWith(AtLeastOne(config.util), AtLeastOne(Kink - config.util),
                               cur_util - Kink)
  BY <1>2, <1>5, Zenon DEF Curve, CurveWith
<1> QED  BY <1>3, <1>4, <1>5

\* The borrowers' rate is the interest curve, rounded up.
LEMMA RateIsOnCurve == ASSUME SummaryInv PROVE RateFollowsCurve
<1> SUFFICES ASSUME summary_returns
             PROVE  cur_ir * Denominator - Curve \in 0..(Slack * Denominator)
  BY DEF RateFollowsCurve
<1>1. PICK S \in Nat, U \in Nat, T \in Nat, K \in Nat, base \in Nat, one \in Nat, two \in Nat,
           three \in Nat, mod \in Nat, Z \in Nat :
        /\ S = SCALAR_7 /\ U = cur_util /\ T = config.util /\ K = Kink
        /\ base = config.r_base /\ one = config.r_one /\ two = config.r_two
        /\ three = config.r_three /\ mod = reserve.ir_mod /\ Z = Slack
  <2>1. cur_util \in Nat
    BY SummaryNumbers, CurveConstants DEF Positive
  <2>2. Slack \in Nat
    BY SlackCovers
  <2> QED  BY <2>1, <2>2, ConfigFields, ReserveFields, CurveConstants DEF SummaryInv, Positive
<1>2. PICK f \in Positive, s \in Positive, t \in Positive :
        f = AtLeastOne(T) /\ s = AtLeastOne(K - T) /\ t = S - K
  <2>1. K - T \in Nat
    BY <1>1, ConfigFields DEF SummaryInv
  <2> QED  BY <1>1, <2>1, CurveConstants DEF Positive, AtLeastOne
<1>3. Denominator = S * f * s * t
  BY <1>1, <1>2 DEF Denominator
<1>4. /\ cur_ir = IrAt(config, mod, U)
      /\ T <= K /\ U \in 0..S /\ (T = 0 => U > 0)
      /\ config \in Configs
  BY <1>1, SummaryIsComputed, SummaryNumbers, ConfigFields DEF SummaryInv, summary_returns
<1>5. Covers(Z, mod, one) /\ Covers(Z, mod, two) /\ Covers(Z, mod, three)
  BY <1>1, SlackCovers
<1>6. /\ S * f * s * t \in Int /\ f \in Nat /\ s \in Nat /\ t \in Nat
      /\ one + base \in Nat /\ two + one + base \in Nat
      /\ s * t \in Nat /\ f * t \in Nat /\ f * s \in Nat
  BY <1>1, <1>2, TimesIsNatural DEF Positive
<1>7. ASSUME NEW ir \in Nat, cur_ir = ir, NEW exact \in Int, Curve = exact,
             ir * (S * f * s * t) - exact \in 0..(Z * (S * f * s * t))
      PROVE  cur_ir * Denominator - Curve \in 0..(Slack * Denominator)
  BY <1>1, <1>3, <1>7
<1>8. CASE U <= T /\ T \in Positive
  <2>1. f = T
    BY <1>2, <1>8 DEF AtLeastOne, Positive
  <2> DEFINE ir == Mul7(Slope(U, f, one) + base, mod)
             exact == (U * one + base * f) * mod
  <2>2. cur_ir = ir
    BY <1>1, <1>4, <1>8, <2>1 DEF IrAt
  <2>3. /\ ir \in Nat
        /\ (S * (f * ir)) * (s * t) - exact * (s * t) \in 0..((S * (f * Z)) * (s * t))
    <3>1. PICK rest \in Nat : rest = s * t
      BY <1>6
    <3>2. /\ ir \in Nat
          /\ (SCALAR_7 * (f * ir)) * rest - exact * rest \in 0..((SCALAR_7 * (f * Z)) * rest)
      BY <1>5, FollowsOnSlope, Zenon
    <3> QED  BY <1>1, <3>1, <3>2
  <2> HIDE DEF ir
  <2>4. Curve = exact * (s * t)
    <3>1. Curve = (base * f * s + U * one * s + 0 * two * f) * mod * t + 0 * three * S * f * s
      BY <1>1, <1>2, <1>4, <1>8, CurveOfBranch DEF CurveWith
    <3>2. 0 * two * f = 0 /\ 0 * three * S * f * s = 0
      BY <1>1, <1>6
    <3>3. base * f * s + U * one * s + 0 = (U * one + base * f) * s
      <4>1. (U * one + base * f) * s = U * one * s + base * f * s
        BY <1>1, <1>6
      <4>2. U * one * s \in Int /\ base * f * s \in Int
        BY <1>1, <1>6
      <4> QED  BY <4>1, <4>2
    <3>4. ((U * one + base * f) * s) * mod * t = exact * (s * t)
      BY <1>1, <1>6
    <3>5. exact * (s * t) \in Int
      BY <1>1, <1>6
    <3> HIDE DEF exact
    <3> QED  BY <3>1, <3>2, <3>3, <3>4, <3>5
  <2>5. /\ (S * (f * ir)) * (s * t) = ir * (S * f * s * t)
        /\ (S * (f * Z)) * (s * t) = Z * (S * f * s * t)
        /\ exact * (s * t) \in Int
    BY <1>1, <1>6, <2>3
  <2> QED  BY <1>7, <2>2, <2>3, <2>4, <2>5
<1>9. CASE U > T /\ U <= K /\ K - T \in Positive /\ U - T \in Nat
  <2>1. PICK part \in Nat, flat \in Nat : part = U - T /\ flat = one + base
    BY <1>6, <1>9
  <2>2. s = K - T
    BY <1>2, <1>9 DEF AtLeastOne, Positive
  <2> DEFINE ir == Mul7(Slope(part, s, two) + flat, mod)
             exact == (part * two + flat * s) * mod
  <2>3. cur_ir = ir
    <3>1. cur_ir = Mul7(Slope(part, s, two) + one + base, mod)
      BY <1>1, <1>4, <1>9, <2>1, <2>2 DEF IrAt
    <3>2. Slope(part, s, two) \in Nat
      BY <1>2, SlopeBounds
    <3>3. Slope(part, s, two) + one + base = Slope(part, s, two) + flat
      BY <2>1, <3>2
    <3> QED  BY <3>1, <3>3
  <2>4. /\ ir \in Nat
        /\ (S * (s * ir)) * (f * t) - exact * (f * t) \in 0..((S * (s * Z)) * (f * t))
    <3>1. PICK rest \in Nat : rest = f * t
      BY <1>6
    <3>2. /\ ir \in Nat
          /\ (SCALAR_7 * (s * ir)) * rest - exact * rest \in 0..((SCALAR_7 * (s * Z)) * rest)
      BY <1>5, FollowsOnSlope, Zenon
    <3> QED  BY <1>1, <3>1, <3>2
  <2> HIDE DEF ir
  <2>5. Curve = exact * (f * t)
    <3>1. Curve = (base * f * s + f * one * s + part * two * f) * mod * t
                    + 0 * three * S * f * s
      BY <1>1, <1>2, <1>4, <1>9, <2>1, CurveOfBranch DEF CurveWith
    <3>2. 0 * three * S * f * s = 0
      BY <1>1, <1>6
    <3>3. base * f * s + f * one * s + part * two * f = (part * two + flat * s) * f
      <4>1. (part * two + flat * s) * f = part * two * f + flat * s * f
        BY <1>1, <1>6
      <4>2. (one + base) * s * f = f * one * s + base * f * s
        BY <1>1, <1>6
      <4>3. /\ part * two * f \in Int /\ flat * s * f \in Int /\ f * one * s \in Int
            /\ base * f * s \in Int
        BY <1>1, <1>6
      <4> QED  BY <2>1, <4>1, <4>2, <4>3
    <3>4. ((part * two + flat * s) * f) * mod * t = exact * (f * t)
      BY <1>1, <1>6
    <3>5. exact * (f * t) \in Int
      BY <1>1, <1>6
    <3> HIDE DEF exact
    <3> QED  BY <3>1, <3>2, <3>3, <3>4, <3>5
  <2>6. /\ (S * (s * ir)) * (f * t) = ir * (S * f * s * t)
        /\ (S * (s * Z)) * (f * t) = Z * (S * f * s * t)
        /\ exact * (f * t) \in Int
    BY <1>1, <1>6, <2>4
  <2> QED  BY <1>7, <2>3, <2>4, <2>5, <2>6
<1>10. CASE U > T /\ U > K /\ U - K \in Nat
  <2>1. PICK part \in Nat, flat \in Nat : part = U - K /\ flat = two + one + base
    BY <1>6, <1>10
  <2> DEFINE ir == Slope(part, t, three) + Mul7(mod, flat)
             exact == (flat * mod) * t + SCALAR_7 * (part * three)
  <2>2. cur_ir = ir
    BY <1>1, <1>2, <1>4, <1>10, <2>1 DEF IrAt
  <2>3. /\ ir \in Nat
        /\ (S * (t * ir)) * (f * s) - exact * (f * s) \in 0..((S * (t * Z)) * (f * s))
    <3>1. PICK rest \in Nat : rest = f * s
      BY <1>6
    <3>2. /\ ir \in Nat
          /\ (SCALAR_7 * (t * ir)) * rest - exact * rest \in 0..((SCALAR_7 * (t * Z)) * rest)
      BY <1>5, FollowsBeyondKink, Zenon
    <3> QED  BY <1>1, <3>1, <3>2
  <2> HIDE DEF ir
  <2>4. Curve = exact * (f * s)
    <3>1. Curve = (base * f * s + f * one * s + s * two * f) * mod * t
                    + part * three * S * f * s
      BY <1>1, <1>2, <1>4, <1>10, <2>1, CurveOfBranch DEF CurveWith
    <3>2. base * f * s + f * one * s + s * two * f = flat * (f * s)
      BY <1>1, <1>6, <2>1
    <3>3. (flat * (f * s)) * mod * t = ((flat * mod) * t) * (f * s)
      BY <1>1, <1>6
    <3>4. part * three * S * f * s = (S * (part * three)) * (f * s)
      BY <1>1, <1>6
    <3>5. ((flat * mod) * t + S * (part * three)) * (f * s)
            = ((flat * mod) * t) * (f * s) + (S * (part * three)) * (f * s)
      BY <1>1, <1>6
    <3> QED  BY <1>1, <3>1, <3>2, <3>3, <3>4, <3>5
  <2>5. /\ (S * (t * ir)) * (f * s) = ir * (S * f * s * t)
        /\ (S * (t * Z)) * (f * s) = Z * (S * f * s * t)
        /\ exact * (f * s) \in Int
    BY <1>1, <1>6, <2>3
  <2> QED  BY <1>7, <2>2, <2>3, <2>4, <2>5
<1> QED
  <2>1. \/ U <= T /\ T \in Positive
        \/ U > T /\ U <= K /\ K - T \in Positive /\ U - T \in Nat
        \/ U > T /\ U > K /\ U - K \in Nat
    BY <1>1, <1>4, SlopeIsWide
  <2> QED  BY <2>1, <1>8, <1>9, <1>10
-----------------------------------------------------------------------------
(***************************************************************************)
(* What holds of every behaviour of the reserve.                           *)
(***************************************************************************)

\* Whatever branch of the rate is taken, it is the curve up to its roundings.
THEOREM RateAlwaysFollowsCurve == SummarySpec => []RateFollowsCurve
  BY SummaryInvariant, RateIsOnCurve, PTL

\* The interest promised to the lenders is always paid by the borrowers.
THEOREM PromisesAreAlwaysCovered == SummarySpec => []PromisesAreCovered
  BY SummaryInvariant, EstimateIsCovered, PTL

\* No step that adds debt or takes supply lowers the estimate.
THEOREM EstimatesRiseWithUtilization == SummarySpec => AprRisesWithUtilization
<1>1. SummaryInv /\ [SummaryNext]_summaryVars => [AprRises]_summaryVars
  BY SummaryNextTyped, EstimateRises
<1> QED  BY <1>1, SummaryInvariant, PTL DEF SummarySpec, AprRisesWithUtilization, AprRises
=============================================================================
