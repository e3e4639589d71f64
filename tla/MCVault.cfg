SPECIFICATION VaultSpec
CONSTANTS
  Scalar = 2
  MaxI128 = 10
  Users = {alice, bob}
  Rates = {1, 2, 3}
  Amounts = {0, 1, 2}
  SwapOuts = {1, 2}
  InitialWallet = 2
  MinBTokens = 0
  MaxLedger = 1
SYMMETRY Symmetry
INVARIANTS TypeOK PositionMatchesPool SharesAreBacked NoShareIsLost
PROPERTY SharePriceNeverFalls
CHECK_DEADLOCK FALSE
