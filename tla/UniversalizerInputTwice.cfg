\* A program whose output is handed on by a snippet that reads it.
SPECIFICATION USpec
CONSTANTS
  r = 8
  l_in = 2
  l_out = 2
  s = 6
  Compilations <- MCInputTwice
  Network <- MCNetwork
  Pick <- MCPick
INVARIANT InputRegistersKept
