\* Any calls, in any order, over two executions of one program.
SPECIFICATION PSpec
CONSTANTS
  l_out = 2
  r = 4
  LLS_MAX_LENGTH = 2
  w = 1
  MaxExecs = 2
  Cells = {0}
  Words <- WordSet
  Opcodes <- ALUOpcodes
  Alu <- instruction_execute
  Header <- MCHeader
  AELLSs <- MCAELLSs
  Hashes <- MCHashes
  Snippet <- MCSnippet
INVARIANTS TypeOK TicketBinding WordBinding FirstBatchClosesChain
CHECK_DEADLOCK FALSE
