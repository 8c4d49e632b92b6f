\* A snippet that reads one of its outputs.
SPECIFICATION ASpec
CONSTANTS
  r = 4
  l_out = 2
  Snippets <- MCOutputRead
INVARIANT OutputsInPlace
CHECK_DEADLOCK FALSE
