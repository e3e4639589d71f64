SPECIFICATION SummarySpec
CONSTANTS
  Scalar = 2
  MaxI128 = 2147483647
  SCALAR_7 = 40
  Kink = 38
  Configs <- MCConfigs
  IrMods = {20, 100}
  PoolRates = {2, 3}
  MaxSupply = 40
INVARIANTS RateFollowsCurve PromisesAreCovered
PROPERTY AprRisesWithUtilization
