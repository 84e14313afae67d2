\* Two tabs of one browser and one of another; everything may go wrong.
SPECIFICATION Spec

CONSTANTS
  t1 = t1
  t2 = t2
  t3 = t3
  b1 = b1
  b2 = b2
  b3 = b3
  a1 = a1
  a2 = a2
  Tabs <- TwoTabs
  Browsers <- TwoBrowsers
  BrowserOf <- TabsOfBrowsers
  Accounts <- TwoAccounts
  Nobody = Nobody
  Disturbances <- AllDisturbances
  MaxRequests = 4

INVARIANTS
  TypeOK
  SessionsResolve
  CookieAsAnswered

PROPERTY
  HeldUntilLost

SYMMETRY Alike

CHECK_DEADLOCK FALSE
