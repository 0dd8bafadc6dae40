CONSTANTS
  Xs <- MCXs
  Mids <- MCMids
  Steepness <- MCSteepness
  Bounds <- MCBounds
  Starts <- MCStarts
  Places = {0, 1, 2}
  Powers = {0, 1, 2, 3}
  None = None
SPECIFICATION Spec
INVARIANTS
  TypeOK
  ShapeWithinRange
  ShapeDecreasing
  SigmoidSymmetric
  ConcaveEndpoints
