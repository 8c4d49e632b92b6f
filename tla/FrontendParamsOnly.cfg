\* A program that writes only to its first parameter.
SPECIFICATION Spec
CONSTANTS
  NoInit = NoInit
  ASTs = {}
  Sources <- MCParamsOnly
  Inputs <- MCInputs
  Extent = 2
  w = 3
INVARIANT InSSA
CHECK_DEADLOCK FALSE
