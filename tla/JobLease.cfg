CONSTANTS
  r1 = r1
  r2 = r2
  r3 = r3
  worker = worker
  other = other
  Runs <- ThreeRuns
  Owners <- TwoWorkers
  Owner <- TwoAndOne
  Nobody = Nobody
  Duration = 2
  Interval = 1
  FixedClock = TRUE
  MaxBeats = 2
  Faults = {"CRASH", "STALL", "LONG_RUN"}
  MaxTime = 3
  MaxVersion = 4
SPECIFICATION Spec
INVARIANT TypeOK
INVARIANT NoFreshOverlap
INVARIANT LossIsReal
CHECK_DEADLOCK FALSE
