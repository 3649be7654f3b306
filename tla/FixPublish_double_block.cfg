SPECIFICATION Spec
CONSTANTS
  Fixes = {1, 2}
  Products = {1}
  ProductOf <- AllOnOne
  TypeOf <- TwoBodiesOneCategory
  BlockOf <- SameBlock
  Blocks = {b1, b2}
  Copies = {plain}
  WordsOf <- Words
  NoCategory = nocat
  Categories = {nocat, coffee}
  OurCategory = coffee
  Others = {v1}
  NoProduct = noproduct
  Deciders = {d1}
  Free = free
  SerialDecisions = TRUE
  Runs = {1, 2}
  Cleared = TRUE
  SerialRuns = TRUE
  Faults = {}
  MaxCrashes = 0
  MaxEdits = 0
  b1 = b1
  b2 = b2
  plain = plain
  rich = rich
  empty = empty
INVARIANT OneDetailsBlock
CHECK_DEADLOCK FALSE
