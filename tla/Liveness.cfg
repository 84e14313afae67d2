SPECIFICATION FairSyncSpec
CONSTANTS
  w1 = w1
  w2 = w2
  NoWallet = NoWallet
  MaxHeight = 3
  Limit = 4
  BatchCap = 1
  CallsDedup = FALSE
  EagerRequests = FALSE
  MaxRequests = 3
  MaxRestarts = 1
  MaxPosition = 9
CONSTANTS
  Wallets <- TwoWallets
  Involves <- Disjoint
  Rejected <- NoneRejected
  Disturbances <- KillAndCancel
INVARIANTS QueuedOnce SignaturesInserted
PROPERTIES SyncCompletes ShutdownCompletes
CHECK_DEADLOCK FALSE
