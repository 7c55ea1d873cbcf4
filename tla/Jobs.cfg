\* Three servers of two connections; the schedule comes due three times.
SPECIFICATION Spec
CONSTANTS
  Servers = {s1, s2, s3}
  Connections = {c1, c2}
  MaxTicks = 3
  MaxFailures = 2
SYMMETRY Symmetry
CHECK_DEADLOCK FALSE
INVARIANTS TypeOK OncePerTick RunnerHoldsLock TickNotMissed
