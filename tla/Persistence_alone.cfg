SPECIFICATION FairSpec

CONSTANTS
  p1 = p1
  p2 = p2
  Main = m0
  Pids <- OnePid
  Blocks = 2
  SaveParams <- SavePoints
  Commands = {"save", "bgsave", "shutdown"}
  Faults = {"write_fails", "flush_fails", "rename_fails", "fork_fails", "child_killed", "server_killed"}
  MaxWrites = 2
  MaxDraws = 1
  MaxRuns = 2
  MaxFaults = 1
  MaxSince = 2

INVARIANT TypeOK
INVARIANT LastSaveHonest
INVARIANT ShutdownLosesNothing
PROPERTY DumpNeverOlder
PROPERTY BgsaveEnds
PROPERTY AutoSave
