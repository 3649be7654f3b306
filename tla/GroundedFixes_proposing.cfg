SPECIFICATION FairSpec
CONSTANTS
  Families <- Vocab
  Home = {"roast_level", "origin", "decaffeination_method"}
  Open = {"tasting_notes"}
  Conditional = {"decaffeination_method"}
  Condition <- DecafOnly
  Phrases <- Text
  Within <- Parts
  Detects <- DetectPhrases
  Values <- ValuePhrases
  Labels <- LabelPhrases
  Canonical <- TaxonomyPhrases
  Concentrate = {}
  Products = {1}
  Contents <- Shop
  Runs = {1}
  Answers <- AnyOfThem
  Lines <- LinePhrases
  NULL = null
  null = null
  Faults = {"crash", "enqueue", "error", "timeout"}
  MaxFaults = 1
  MaxChanges = 2
INVARIANT TypeOK
INVARIANT EveryTargetAccounted
INVARIANT FillIsGrounded
INVARIANT AbsenceIsTrue
INVARIANT MissNeverHidesAValue
PROPERTY RunEnds
CHECK_DEADLOCK FALSE
