SPECIFICATION FairSpec
CONSTANTS
  Fixes = {2, 3, 5}
  Products = {1, 2}
  ProductOf <- TwoProducts
  TypeOf <- TwoBodiesOneCategory
  BlockOf <- Distinct
  Blocks = {b1, b2}
  Copies = {plain}
  WordsOf <- Words
  NoCategory = nocat
  Categories = {nocat, coffee}
  OurCategory = coffee
  Others = {v1}
  NoProduct = noproduct
  Deciders = {d1, d2}
  Free = free
  SerialDecisions = TRUE
  Runs = {1}
  Cleared = TRUE
  SerialRuns = TRUE
  Faults = {"crash", "error", "refuse"}
  MaxCrashes = 1
  MaxEdits = 0
  b1 = b1
  b2 = b2
  plain = plain
  rich = rich
  empty = empty
INVARIANT AtMostOneApproved
PROPERTY ImplementsLifecycle
PROPERTY RunTerminates
PROPERTY RunAdvances
PROPERTY CategoryIsLast
INVARIANT RunIsNeverStuck
CHECK_DEADLOCK FALSE
