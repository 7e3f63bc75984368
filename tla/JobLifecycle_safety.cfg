\* Two jobs, so that routes for one interleave with the thread of the other.
SPECIFICATION Spec
CONSTANTS
  Jobs = {j1, j2}
  NoJob = NoJob
  Retries = 2
  MaxFaults = 2
  MaxCrashes = 1
SYMMETRY JobSymmetry
INVARIANTS
  ApprovalGate
  StuckOnlyAfterFailure
  CancelHonoured
  PublishedIsOnDisk
PROPERTIES
  ImplementsWipeJob
CONSTRAINT FewFailures
CHECK_DEADLOCK FALSE
