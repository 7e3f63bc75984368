\* Two threads of one process and one of another on two chains; two rounds, so
\* that contention can exhaust them.
SPECIFICATION FairSpec
CONSTANTS
  p1 = p1
  p2 = p2
  t1 = t1
  t2 = t2
  t3 = t3
  Processes = {p1, p2}
  Writers = {t1, t2, t3}
  Process <- MCProcess
  Chains = {global, org}
  Genesis = Genesis
  Hash <- MCHash
  Attempts = 2
  MaxEvents = 1
  MaxFaults = 2
INVARIANTS
  AlwaysIntact
  InsertedInIdOrder
PROPERTIES
  ImplementsLedger
  LogEventReturns
CHECK_DEADLOCK FALSE
