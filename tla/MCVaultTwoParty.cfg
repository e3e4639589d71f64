SPECIFICATION TwoPartySpec
CONSTANTS
  Scalar = 2
  MaxI128 = 1000
  Users = {alice, bob}
  Rates = {1, 2, 3}
  Amounts = {0, 1, 3, 9}
  SwapOuts = {2}
  InitialWallet = 4
  MinBTokens = 0
  MaxLedger = 1
SYMMETRY Symmetry
INVARIANTS SharesConserved ExitIsOpen QuotesAreCovered OverlargeWithdrawTakesAll
PROPERTIES HoldersStayWhole QuotesAreFair OnlyDustIsStranded ImplementsIdealVault
CHECK_DEADLOCK FALSE
