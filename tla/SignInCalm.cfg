\* One tab each of three browsers, any accounts; nothing is lost.
SPECIFICATION FairSpec

CONSTANTS
  t1 = t1
  t2 = t2
  t3 = t3
  b1 = b1
  b2 = b2
  b3 = b3
  a1 = a1
  a2 = a2
  Tabs <- TwoTabs
  Browsers <- ThreeBrowsers
  BrowserOf <- OneTabEach
  Accounts <- TwoAccounts
  Nobody = Nobody
  Disturbances <- Calm
  MaxRequests = 4

PROPERTY
  SignInCompletes

CHECK_DEADLOCK FALSE
