SPECIFICATION SyncSpec
CONSTANTS
  w1 = w1
  w2 = w2
  NoWallet = NoWallet
  MaxHeight = 3
  Limit = 4
  BatchCap = 1
  CallsDedup = FALSE
  EagerRequests = TRUE
  MaxRequests = 3
  MaxRestarts = 1
  MaxPosition = 7
CONSTANTS
  Wallets <- TwoWallets
  Involves <- SharedTransaction
  Rejected <- NoneRejected
  Disturbances <- KillOnly
INVARIANTS TypeOK BatchBounded NothingSkipped
PROPERTIES CursorMovesForward NoCursorDropped WalksTheQueue
CHECK_DEADLOCK FALSE
