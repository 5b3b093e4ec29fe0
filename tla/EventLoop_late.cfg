SPECIFICATION Spec

CONSTANTS
  a1 = a1
  a2 = a2
  Listen = 3
  Fds <- OneFd
  Addrs <- TwoAddrs
  None = None
  Period = 1
  MaxReplies = 2


CHECK_DEADLOCK FALSE
INVARIANT SleepsUntilDue
