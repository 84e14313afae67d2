SPECIFICATION FairSyncSpec
CONSTANTS
  w1 = w1
  w2 = w2
  NoWallet = NoWallet
  MaxHeight = 3
  Limit = 4
  BatchCap = 1
  CallsDedup = FALSE
  EagerRequests = FALSE
  MaxRequests = 1
  MaxRestarts = 0
  MaxPosition = 9
CONSTANTS
  Wallets <- OneWallet
  Involves <- Own
  Rejected <- NoneRejected
  Disturbances <- Calm
PROPERTIES RequestReachesDone
CHECK_DEADLOCK FALSE
