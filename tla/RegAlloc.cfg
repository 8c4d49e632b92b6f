\* Every snippet whose outputs are not read in it.
SPECIFICATION ASpec
CONSTANTS
  r = 5
  l_out = 2
  Snippets <- MCSnippets
INVARIANTS OperandsInPlace OutputsInPlace RefusesByCount
CHECK_DEADLOCK FALSE
