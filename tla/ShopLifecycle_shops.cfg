SPECIFICATION Spec
CONSTANTS
  Reqs = {q1, q2}
  Nobody = nobody
  LastPage = 2
  MaxUninstalls = 1
  MaxInstalls = 2
  Faults = {"agent", "crash", "duplicate", "enqueue", "notify", "page", "stop", "timeout", "ttl", "worker"}
  MaxFaults = 1
INVARIANT TypeOK
INVARIANT CompleteMeansWholeCatalog
INVARIANT LockHasAReleaser
INVARIANT EndIsRecorded
INVARIANT ErasureHonoured
PROPERTY ActiveShopKeepsItsRows
CHECK_DEADLOCK FALSE
