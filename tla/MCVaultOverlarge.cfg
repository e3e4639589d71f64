SPECIFICATION TwoPartySpec
CONSTANTS
  Scalar = 2
  MaxI128 = 16
  Users = {alice, bob}
  Rates = {1, 2, 3}
  Amounts = {0, 1, 3, 9}
  SwapOuts = {2}
  InitialWallet = 4
  MinBTokens = 1
  MaxLedger = 1
SYMMETRY Symmetry
INVARIANT OverlargeWithdrawClamps
CHECK_DEADLOCK FALSE
