CONSTANTS
  r1 = r1
  r2 = r2
  r3 = r3
  worker = worker
  other = other
  Runs <- TwoRuns
  Owners <- OneWorker
  Owner <- SameProcess
  Nobody = Nobody
  Duration = 2
  Interval = 1
  FixedClock = TRUE
  MaxBeats = 1
  Faults = {"LONG_RUN"}
  MaxTime = 6
  MaxVersion = 4
SPECIFICATION Spec
INVARIANT NoOverlap
CHECK_DEADLOCK FALSE
