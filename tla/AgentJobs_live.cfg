\* Lost messages only; more of them than attempts, so that the spool is used.
SPECIFICATION FairSpec
CONSTANTS
  NJobs = 1
  NoJob = NoJob
  Attempts = 2
  MaxLosses = 3
  MaxFaults = 0
  MaxCrashes = 0
  MaxRevokes = 0
PROPERTIES
  ResultRecorded
  CompletedIsCertified
