\* C programs, and normalized programs that write to a local variable.
SPECIFICATION Spec
CONSTANTS
  NoInit = NoInit
  ASTs <- MCASTs
  Sources <- MCSources
  Inputs <- MCInputs
  Extent = 2
  w = 3
INVARIANTS MeansTheSame StraightLine InSSA SameMeaning NothingInVain
CHECK_DEADLOCK FALSE
