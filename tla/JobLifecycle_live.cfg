\* One job: liveness needs no symmetry and the jobs share nothing but the
\* event loop.  Fewer faults than attempts, and no crash.
SPECIFICATION FairSpec
CONSTANTS
  Jobs = {j1}
  NoJob = NoJob
  Retries = 3
  MaxFaults = 2
  MaxCrashes = 0
PROPERTIES
  ClaimedJobEnds
  CompletedGetsCertificate
CHECK_DEADLOCK FALSE
