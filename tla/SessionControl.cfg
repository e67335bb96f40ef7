CONSTANTS
  c1 = c1
  c2 = c2
  profileDeviation = profileDeviation
  otherFinding = otherFinding
  Callers <- MCCallers
  Findings <- MCFindings
  ProfileFinding = profileDeviation
  Prerequisites <- MCPrerequisites
  Ops <- AllOps
  MayCrash = TRUE
  MaxVersion = 5
SPECIFICATION Spec
SYMMETRY CallerSymmetry
INVARIANT TypeOK
INVARIANT ReadIsCurrent
INVARIANT LockIsComplete
INVARIANT TradesOnlyWhenPrepared
PROPERTY ImplementsMachine
PROPERTY EntriesResumeByActivation
