CONSTANTS
  Commands = {c1}
  Plans <- MCOnePlan
  n1 = n1
  n2 = n2
  a1 = a1
  a2 = a2
  a4 = a4
  Artifacts = {a2}
  Len <- MCLen
  MaxSource = 2
  Int32Max = 3
  MayForce = FALSE
  Retries = FALSE
  PowerMayFail = TRUE
  None = None
SPECIFICATION Spec
INVARIANT ArtifactOutlivesUpload
