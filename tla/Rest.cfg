SPECIFICATION LiveSpec
CONSTANTS
  MaxTick = 3
  MaxFault = 1
INVARIANTS TypeOK OneAhead
PROPERTIES AllSent
CHECK_DEADLOCK FALSE
