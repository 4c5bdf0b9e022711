SPECIFICATION Spec
CONSTANTS
  MaxTick = 3
  MaxFault = 0
INVARIANT WholeBatch
CHECK_DEADLOCK FALSE
