SPECIFICATION Spec
CONSTANTS
  a = a
  b = b
  NumTasks = 3
  Dest <- Files
  DestOf <- SharedFirst
  Limit = 2
  MaxRetries = 1
  Pieces = 2
  Checked <- LastTwo
  MaxFaults = 2
INVARIANTS BatchInv
PROPERTIES BatchReturns
