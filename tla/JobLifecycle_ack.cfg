\* No fault and no crash: the interleaving alone.
SPECIFICATION Spec
CONSTANTS
  Jobs = {j1}
  NoJob = NoJob
  Retries = 2
  MaxFaults = 0
  MaxCrashes = 0
INVARIANTS
  AckedCancelStands
CHECK_DEADLOCK FALSE
