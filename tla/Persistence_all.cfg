SPECIFICATION Spec

CONSTANTS
  p1 = p1
  p2 = p2
  Main = m0
  Pids <- MCPids
  Blocks = 2
  SaveParams <- NoSavePoints
  Commands = {"bgsave", "shutdown"}
  Faults = {"write_fails", "flush_fails", "rename_fails", "fork_fails", "child_killed", "server_killed", "interrupt", "quick_restart", "overlap", "same_second"}
  MaxWrites = 1
  MaxDraws = 1
  MaxRuns = 2
  MaxFaults = 1
  MaxSince = 0

SYMMETRY PidSymmetry
VIEW Course

INVARIANT AtMostOneChild
INVARIANT DumpWhole
PROPERTY ImplementsStore
