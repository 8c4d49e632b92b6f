\* Every kind of operand, and memories around the powers of 256.
SPECIFICATION BSpec
CONSTANTS
  Configs <- MCConfigs
  Programs <- MCPrograms
  RoundsDown <- MCRoundsDown
INVARIANTS ReadBack NeverRefused
CHECK_DEADLOCK FALSE
