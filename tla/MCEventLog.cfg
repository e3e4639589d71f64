SPECIFICATION LogSpec
CONSTANTS
  alice = alice
  bob = bob
  carol = carol
  Scalar = 2
  MaxI128 = 6
  Users <- MCUsers
  Rates = {1}
  Amounts = {1, 2}
  SwapOuts = {2}
  InitialWallet = 1
  MinBTokens = 0
  MaxLedger = 1
  Delegations <- MCDelegations
  Admins = {carol}
  Signers = {}
  ApproveAmounts = {2}
  Expirations = {0, 1}
  NoSigner = NoSigner
VIEW LogView
INVARIANTS BlendTypeOK LogTellsTotals
PROPERTIES NobodyIsDebitedUnasked OnlyTheHolderDelegates DebitsAreAnnounced OnlyFullExitsAreOverstated
