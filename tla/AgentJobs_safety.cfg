\* Two jobs: a spooled result is flushed while the other job is polled for.
SPECIFICATION Spec
CONSTANTS
  NJobs = 2
  NoJob = NoJob
  Attempts = 2
  MaxLosses = 1
  MaxFaults = 1
  MaxCrashes = 1
  MaxRevokes = 1
INVARIANTS
  WipedOnce
  CancelledMeansStopped
  RunningIsOwned
PROPERTIES
  ImplementsWipeJob
