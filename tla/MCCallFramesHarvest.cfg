SPECIFICATION FrameSpec
CONSTANTS
  alice = alice
  bob = bob
  carol = carol
  Scalar = 2
  MaxI128 = 20
  Users <- MCOneUser
  Rates = {1, 3}
  Amounts = {1}
  SwapOuts = {1, 2}
  SlippageFloors = {0, 2, 3}
  InitialWallet = 1
  MinBTokens = 0
  MaxLedger = 1
  Delegations = {}
  Admins = {carol}
  Signers = {}
  ApproveAmounts = {}
  Expirations = {}
  NoSigner = NoSigner
INVARIANT NothingIsLeftBehind
PROPERTY AllOrNothing
