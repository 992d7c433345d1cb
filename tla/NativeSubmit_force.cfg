CONSTANTS
  Commands = {c1}
  Plans <- MCForcedPlans
  n1 = n1
  n2 = n2
  a1 = a1
  a2 = a2
  a4 = a4
  Artifacts = {a1, a2, a4}
  Len <- MCLen
  MaxSource = 2
  Int32Max = 3
  MayForce = TRUE
  Retries = TRUE
  PowerMayFail = TRUE
  None = None
SPECIFICATION Spec
INVARIANT TypeOK
INVARIANT DurabilityBoundary
INVARIANT UploadsNotifiable
