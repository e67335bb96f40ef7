CONSTANTS
  c1 = c1
  c2 = c2
  profileDeviation = profileDeviation
  otherFinding = otherFinding
  Callers <- MCCallers
  Findings <- MCFindings
  ProfileFinding = profileDeviation
  Prerequisites <- MCPrerequisites
  Ops <- RelockOps
  MayCrash = FALSE
  MaxVersion = 6
SPECIFICATION Spec
PROPERTY ProfileLockLocks
