CONSTANTS
  Xs <- MCXs
  Mids <- MCMids
  Steepness <- MCSteepnessOverflow
  Bounds <- MCBounds
  Starts <- MCStartsOverflow
  Places = {0, 1, 2}
  Powers = {0, 1, 2, 3}
  None = None
SPECIFICATION Spec
INVARIANTS
  ShapeWithinRange
