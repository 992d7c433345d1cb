CONSTANTS
  Commands = {c1, c2}
  Plans <- MCPlans
  n1 = n1
  n2 = n2
  a1 = a1
  a2 = a2
  a4 = a4
  Artifacts = {a1, a2}
  Len <- MCLen
  MaxSource = 2
  Int32Max = 3
  MayForce = FALSE
  Retries = FALSE
  PowerMayFail = FALSE
  None = None
SPECIFICATION Spec
INVARIANT QueuedWhole
INVARIANT ReportsTrue
INVARIANT ArtifactOutlivesUpload
SYMMETRY Symmetry
