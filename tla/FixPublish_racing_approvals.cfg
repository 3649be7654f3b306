SPECIFICATION Spec
CONSTANTS
  Fixes = {1, 2}
  Products = {1}
  ProductOf <- AllOnOne
  TypeOf <- TwoBodiesOneCategory
  BlockOf <- Distinct
  Blocks = {b1, b2}
  Copies = {plain}
  WordsOf <- Words
  NoCategory = nocat
  Categories = {nocat, coffee}
  OurCategory = coffee
  Others = {v1}
  NoProduct = noproduct
  Deciders = {d1, d2}
  Free = free
  SerialDecisions = FALSE
  Runs = {}
  Cleared = TRUE
  SerialRuns = TRUE
  Faults = {}
  MaxCrashes = 0
  MaxEdits = 0
  b1 = b1
  b2 = b2
  plain = plain
  rich = rich
  empty = empty
INVARIANT AtMostOneApproved
CHECK_DEADLOCK FALSE
