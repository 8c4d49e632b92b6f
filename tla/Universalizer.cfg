\* Programs clusterized with every option, and universalized.
SPECIFICATION USpec
CONSTANTS
  r = 4
  l_in = 2
  l_out = 2
  s = 3
  Compilations <- MCCompilations
  Network <- MCNetwork
  Pick <- MCPick
INVARIANTS Integrity LowersProgram FitsElement KeepsMeaning NoEdgeSkips
  EdgesExact RevealedLast SnippetsFit HidesDataFlow
PROPERTY Compiles
