SPECIFICATION FairSpec
CONSTANTS
  a1 = a1  a2 = a2  c1 = c1  c2 = c2  m1 = m1  w1 = w1  w2 = w2
  None = none  Free = free
  Apps <- OneApp
  Callbacks <- TwoCallbacks
  Workers <- TwoWorkers
  Clients <- Nothing
  Owner = none
  Fds <- OneFarFd
  MayClose <- Nothing
  Signals <- JustRead
  InitSize = 2
  MaxGen = 1
  Budget <- TwoCalls
  Kinds <- AddOrTake
  QueueCap = 1
  LoadCap = 2
PROPERTIES CallbackRuns StopReturns
