SPECIFICATION BlendSpec
CONSTANTS
  alice = alice
  bob = bob
  carol = carol
  dan = dan
  Scalar = 1
  MaxI128 = 2
  Users <- MCUsers
  Rates = {1}
  Amounts = {1, 2}
  SwapOuts = {1}
  InitialWallet = 1
  MinBTokens = 0
  MaxLedger = 1
  Delegations <- MCDelegations
  Admins = {carol, dan}
  Signers = {bob}
  ApproveAmounts = {1}
  Expirations = {0}
  NoSigner = NoSigner
VIEW KeysView
INVARIANT NoKeyBlocksExit
PROPERTIES KeysNeedConsent DelegatesKeepToTheirBudget
