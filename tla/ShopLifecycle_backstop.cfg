SPECIFICATION FairSpec
CONSTANTS
  Reqs = {q1}
  Nobody = nobody
  LastPage = 1
  MaxUninstalls = 1
  MaxInstalls = 1
  Faults = {}
  MaxFaults = 0
PROPERTY RedactIsTheBackstop
CHECK_DEADLOCK FALSE
