\* Eleven drives of three to seven units, in chunks and blocks of two (the last ones
\* partial); five files; a volume of six blocks of which one is the reserve.
SPECIFICATION MCSpec
CONSTANTS
  Drives <- MCDrives
  Jobs <- MCJobs
  Hosts <- MCHosts
  CHUNK = 2
  BLOCK = 2
  COUNT = 3
  IDLE_LIMIT = 2
  MaxFaults = 3
  FileUnits <- MCFileUnits
  FileStuck <- MCFileStuck
  Selections <- MCSelections
  FileCount = 2
  MaxFileFaults = 2
  Volume = {1, 2, 3, 4, 5, 6}
  Volumes <- MCVolumes
  FillPasses = 2
  FILL_CHUNK = 2
  RESERVE = 1
  MIN_FREE = 2
  MaxChanges = 3
INVARIANTS
  ErasureTypeOK
  ErasedWhenComplete
  HonestVerdict
  NoSecretLeft
  PurgeIsFirmware
  DestroyedWasOverwritten
  CompleteMeansAllGone
  FilledWhenComplete
PROPERTIES
  Ends
  DriveKeepsPromise
  FilesKeepPromise
CHECK_DEADLOCK FALSE
