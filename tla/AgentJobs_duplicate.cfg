\* One lost answer.
SPECIFICATION Spec
CONSTANTS
  NJobs = 1
  NoJob = NoJob
  Attempts = 2
  MaxLosses = 1
  MaxFaults = 0
  MaxCrashes = 0
  MaxRevokes = 0
INVARIANTS
  PublishedIsOnDisk
