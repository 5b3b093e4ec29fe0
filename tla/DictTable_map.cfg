SPECIFICATION Spec

CONSTANTS
  Keys <- FiveKeys
  Vals = {"v", "w"}
  None = None
  Hash <- Identity
  InitialSize = 1
  Limit = 4
  Sizes = {1, 2, 4}
  UInt = 256
  MinSlots = 2
  MinFill = 30

INVARIANT TypeOK
INVARIANT WellFormed
INVARIANT IterationComplete
PROPERTY ImplementsMap

CHECK_DEADLOCK FALSE
