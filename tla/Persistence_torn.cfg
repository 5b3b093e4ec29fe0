SPECIFICATION Spec

CONSTANTS
  p1 = p1
  p2 = p2
  Main = m0
  Pids <- OnePid
  Blocks = 2
  SaveParams <- NoSavePoints
  Commands = {"save", "bgsave"}
  Faults = {"write_fails"}
  MaxWrites = 2
  MaxDraws = 1
  MaxRuns = 1
  MaxFaults = 1
  MaxSince = 0

INVARIANT DumpIntact
