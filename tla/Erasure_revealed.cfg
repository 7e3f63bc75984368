\* A drive whose hidden area begins in the middle of a block; the rest as in Erasure.cfg.
SPECIFICATION MCSpec
CONSTANTS
  Drives <- MCRevealed
  Jobs <- MCJobs
  Hosts <- MCHosts
  CHUNK = 2
  BLOCK = 2
  COUNT = 3
  IDLE_LIMIT = 2
  MaxFaults = 3
  FileUnits <- MCFileUnits
  FileStuck <- MCFileStuck
  Selections <- MCSelections
  FileCount = 2
  MaxFileFaults = 2
  Volume = {1, 2, 3, 4, 5, 6}
  Volumes <- MCVolumes
  FillPasses = 2
  FILL_CHUNK = 2
  RESERVE = 1
  MIN_FREE = 2
  MaxChanges = 2
INVARIANT
  ChangedMeansChanged
CHECK_DEADLOCK FALSE
