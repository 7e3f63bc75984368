SPECIFICATION MCSpec
CONSTANTS
  Jobs = {"j1", "j2"}
  serial_of <- MCSerials
  Far <- MCFar
  WINDOW = 2
  LIMIT = 2
  MaxTime = 2
  MaxLogins = 4
  MaxRows = 4
  MaxFaults = 1
  MaxAcks = 2
  MaxClock = 5
  Emails = {"ann", "bob"}
  Users = {"ann"}
  Addresses = {"home", "abroad"}
  Snapshots <- MCSnapshots
  MAX_RPM = 2
  MAX_ERR_RPM = 1
  BLOCK_SECS = 3
  WINDOW_SECS = 2
  MaxRequests = 7
  Watched = {"a", "b"}
  Drives = {"disk"}
  TICKET_TTL = 1
  PAIR_TTL = 2
  MaxCodes = 2
  MaxAgents = 3
  MaxBroken = 1
  Readers = {r1, r2}
  Tolerance = 1
  Metrics = {1, 3}
  MaxModels = 3
  MaxStops = 1
INVARIANTS
  OneOpenPerIssue
  RaisedAgain
  AdmissionBounded
  SpentOnce
  ServedIsCurrent
CHECK_DEADLOCK FALSE
