\* Two runs of each program, on every pair of command lines.
SPECIFICATION Spec
CONSTANTS
  l_out = 2
  r = 4
  LLS_MAX_LENGTH = 2
  w = 1
  MaxArgs = 3
  MaxOutCount = 2
  MaxRuns = 2
  NotInt = NotInt
  CmdItems <- MCItems
  Cells <- MCCells
  Words <- WordSet
  Opcodes <- ALUOpcodes
  Alu <- instruction_execute
  Programs <- MCPrograms
INVARIANTS TypeOK Accepted DictMatchesMemory OutputsInClear NonceOnce
PROPERTIES ImplementsPlain Terminates
CHECK_DEADLOCK FALSE
