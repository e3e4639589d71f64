SPECIFICATION FrameSpec
CONSTANTS
  alice = alice
  bob = bob
  carol = carol
  Scalar = 2
  MaxI128 = 4
  Users <- MCUsers
  Rates = {1}
  Amounts = {1}
  SwapOuts = {}
  SlippageFloors = {}
  InitialWallet = 1
  MinBTokens = 0
  MaxLedger = 0
  Delegations <- MCDelegations
  Admins = {carol}
  Signers = {}
  ApproveAmounts = {2}
  Expirations = {0}
  NoSigner = NoSigner
INVARIANT BooksNeverLead
PROPERTY AllOrNothing
