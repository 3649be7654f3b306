SPECIFICATION Spec
CONSTANTS
  Scans = {1, 2}
  Verifications = {3}
  Generated <- ThreeReleases
  MaxQueries = 2
  Us = us
  Rivals = {rival}
  Answers <- TwoAnswers
  Claims <- Everyone
  NULL = NULL
  Scale = 2
  MaxJobs = 1
  MaxTime = 3
  Faults = {"crash", "engine", "enqueue", "error", "extract", "timeout"}
  MaxFaults = 1
  Fixes = {1, 2}
  Settle = 1
  Pins = {0, 1}
  us = us
  rival = rival
INVARIANT TypeOK
PROPERTY ImplementsSurvey
INVARIANT ReportableIsSound
INVARIANT NoFabricatedDelta
INVARIANT EndIsRecorded
INVARIANT ManifestIsTheSnapshot
PROPERTY AbortedOnlyAtTheBoundary
PROPERTY PrimaryTierDropsNothing
CHECK_DEADLOCK FALSE
