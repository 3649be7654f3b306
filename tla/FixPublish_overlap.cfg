SPECIFICATION Spec
CONSTANTS
  Fixes = {1, 2}
  Products = {1}
  ProductOf <- AllOnOne
  TypeOf <- TwoBodiesOneCategory
  BlockOf <- Distinct
  Blocks = {b1, b2}
  Copies = {plain}
  WordsOf <- Words
  NoCategory = nocat
  Categories = {nocat, coffee}
  OurCategory = coffee
  Others = {v1}
  NoProduct = noproduct
  Deciders = {d1, d2}
  Free = free
  SerialDecisions = FALSE
  Runs = {1, 2}
  Cleared = TRUE
  SerialRuns = FALSE
  Faults = {"enqueue", "error", "ignored", "refuse", "timeout", "token"}
  MaxCrashes = 0
  MaxEdits = 0
  b1 = b1
  b2 = b2
  plain = plain
  rich = rich
  empty = empty
INVARIANT OnlyConsentedIsPublished
INVARIANT VerifiedWasLive
CHECK_DEADLOCK FALSE
