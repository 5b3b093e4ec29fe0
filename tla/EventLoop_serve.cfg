SPECIFICATION FairSpec

CONSTANTS
  a1 = a1
  a2 = a2
  Listen = 3
  Fds <- TwoFds
  Addrs <- TwoAddrs
  None = None
  Period = 1
  MaxReplies = 2

INVARIANT TypeOK
INVARIANT EventsMatchClients
INVARIANT FreshNotServed

CHECK_DEADLOCK FALSE
PROPERTY EveryoneServed
PROPERTY TimerFires
PROPERTY StopObeyed
