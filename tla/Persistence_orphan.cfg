SPECIFICATION Spec

CONSTANTS
  p1 = p1
  p2 = p2
  Main = m0
  Pids <- OnePid
  Blocks = 2
  SaveParams <- NoSavePoints
  Commands = {"bgsave", "shutdown"}
  Faults = {"overlap"}
  MaxWrites = 2
  MaxDraws = 1
  MaxRuns = 1
  MaxFaults = 0
  MaxSince = 0

INVARIANT ShutdownLosesNothing
