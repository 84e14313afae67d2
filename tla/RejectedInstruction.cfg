SPECIFICATION SyncSpec
CONSTANTS
  w1 = w1
  w2 = w2
  NoWallet = NoWallet
  MaxHeight = 3
  Limit = 4
  BatchCap = 1
  CallsDedup = TRUE
  EagerRequests = FALSE
  MaxRequests = 1
  MaxRestarts = 0
  MaxPosition = 9
CONSTANTS
  Wallets <- OneWallet
  Involves <- Own
  Rejected <- LastIsRejected
  Disturbances <- Calm
INVARIANTS InstructionsInserted
CHECK_DEADLOCK FALSE
