SPECIFICATION Spec
CONSTANTS
  Families <- Vocab
  Home = {"roast_level", "origin", "decaffeination_method"}
  Open = {"tasting_notes"}
  Conditional = {"decaffeination_method"}
  Condition <- DecafOnly
  Phrases <- Text
  Within <- Parts
  Detects <- DetectPhrases
  Values <- ValuePhrases
  Labels <- LabelPhrases
  Canonical <- TaxonomyPhrases
  Concentrate = {}
  Products = {1}
  Contents <- Shop
  Runs = {1, 2}
  Answers <- AnyOfThem
  Lines <- LinePhrases
  NULL = null
  null = null
  Faults = {}
  MaxFaults = 0
  MaxChanges = 1
INVARIANT PublishedIsNotAbsent
CHECK_DEADLOCK FALSE
