SPECIFICATION Spec
CONSTANTS
  Devices = {1, 2, 3}
  Founder = 1
  MaxTarget = 3
  MaxFaultyTarget = 3
  MaxFaults = 1
INVARIANT NeverHalted
CHECK_DEADLOCK FALSE
