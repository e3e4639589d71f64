SPECIFICATION StorageSpec
CONSTANTS
  alice = alice
  bob = bob
  carol = carol
  Scalar = 2
  MaxI128 = 2
  Users <- MCUsers
  Rates = {2}
  Amounts = {1}
  SwapOuts = {1}
  InitialWallet = 1
  MinBTokens = 0
  MaxLedger = 3
  Delegations <- MCDelegations
  Admins = {carol}
  Signers = {}
  ApproveAmounts = {2}
  Expirations = {1, 4}
  NoSigner = NoSigner
  SharedThreshold = 0
  SharedBump = 1
  UserThreshold = 1
  UserBump = 2
  MinTemporaryTtl = 1
  MinPersistentTtl = 1
  MaxEntryTtl = 4
INVARIANTS StorageTypeOK AllowanceOutlivesExpiration
PROPERTY BumpingOnWriteSuffices
