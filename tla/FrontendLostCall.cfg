\* A call as a statement, after a pointer into an array.
SPECIFICATION Spec
CONSTANTS
  NoInit = NoInit
  ASTs = {}
  Sources <- MCLostCall
  Inputs <- MCInputs
  Extent = 2
  w = 3
INVARIANT MeansTheSame
CHECK_DEADLOCK FALSE
