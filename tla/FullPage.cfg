SPECIFICATION SyncSpec
CONSTANTS
  w1 = w1
  w2 = w2
  NoWallet = NoWallet
  MaxHeight = 3
  Limit = 3
  BatchCap = 1
  CallsDedup = TRUE
  EagerRequests = FALSE
  MaxRequests = 1
  MaxRestarts = 0
  MaxPosition = 9
CONSTANTS
  Wallets <- OneWallet
  Involves <- Own
  Rejected <- NoneRejected
  Disturbances <- Calm
INVARIANTS QueuedOnce
CHECK_DEADLOCK FALSE
