SPECIFICATION Spec
CONSTANTS
  Fixes = {1, 3}
  Products = {1}
  ProductOf <- AllOnOne
  TypeOf <- TwoBodiesOneCategory
  BlockOf <- Distinct
  Blocks = {b1, b2}
  Copies = {plain, rich}
  WordsOf <- Words
  NoCategory = nocat
  Categories = {nocat, coffee, tea}
  OurCategory = coffee
  Others = {v1}
  NoProduct = noproduct
  Deciders = {d1}
  Free = free
  SerialDecisions = TRUE
  Runs = {1, 2}
  Cleared = TRUE
  SerialRuns = TRUE
  Faults = {"crash", "ignored", "lost reply", "normalise", "refuse"}
  MaxCrashes = 1
  MaxEdits = 1
  b1 = b1
  b2 = b2
  plain = plain
  rich = rich
  empty = empty
INVARIANT TypeOK
PROPERTY WriteReplacesItsBasis
PROPERTY NoSilentSkip
CHECK_DEADLOCK FALSE
