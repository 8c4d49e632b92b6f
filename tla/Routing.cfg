\* Functions on four and on eight wires.
SPECIFICATION RSpec
CONSTANT Tasks <- MCTasks
INVARIANTS RoutesFunction WiringIsPublic MLMIsFit
CHECK_DEADLOCK FALSE
