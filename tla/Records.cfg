\* Three requests over two connections, one of which dies half way; two may be resets.
SPECIFICATION FairSpec
CONSTANTS
  Requests = {p1, p2, p3}
  Admins = {p1, p2}
  Ops <- AllOps
  PoolSize = 2
  MaxRecords = 2
  MaxFailures = 1
CHECK_DEADLOCK FALSE
INVARIANTS TypeOK LiveRecordsBounded OrphansOnlyFromInsideReset
PROPERTY ResetsEnd
