SPECIFICATION FairSpec
CONSTANTS
  Jobs = {j1}
  Hooks = {h1, h2}
  Uninstalls = {h2}
  Nobody = nobody
  Pool = 1
  Life = 4
  FirstExpiry = 3
  LibWindow = 1
  HookWindow = 2
  Patience = 1
  CallTimeout = 1
  Margin = 1
  MaxAttempts = 2
  Faults = {"agent", "crash", "give up", "lost reply", "max wait", "refuse", "store", "throttle", "timeout"}
  MaxFaults = 1
  MaxTime = 3
  MaxTokens = 5
INVARIANT TypeOK
INVARIANT ChainKept
INVARIANT HealthyShopNeverFlagged
INVARIANT NeverPresentsExpired
PROPERTY LibraryNeverRotates
PROPERTY RotatedOnlyWhenDue
CHECK_DEADLOCK FALSE
PROPERTY ImplementsChain
INVARIANT NobodyWaitsInACircle
PROPERTY EveryCallerAnswered
