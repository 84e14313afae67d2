SPECIFICATION FairSyncSpec
CONSTANTS
  w1 = w1
  w2 = w2
  NoWallet = NoWallet
  MaxHeight = 3
  Limit = 3
  BatchCap = 1
  CallsDedup = TRUE
  EagerRequests = TRUE
  MaxRequests = 3
  MaxRestarts = 2
  MaxPosition = 4
CONSTANTS
  Wallets <- TwoWallets
  Involves <- SharedTransaction
  Rejected <- LastIsRejected
  Disturbances <- KillAndCancel
INVARIANTS LinksAreOwn CountMatchesLinks CursorCovers
PROPERTIES ImplementsLedger ShutdownAsRun
CHECK_DEADLOCK FALSE
