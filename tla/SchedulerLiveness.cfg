SPECIFICATION FairSpec
CONSTANTS
  c1 = c1  f1 = f1  f2 = f2  f3 = f3
  MainFiber = main  NoTask = none  Free = free  Alloc = alloc
  Fibers <- TwoFibers
  Clients <- OneClient
  Workers <- OneWorker
  Threads <- ClientAndWorkers
  Submitters <- OneClient
  ThreadCount = 1
  MaxStarts = 1
  TaskCap = 1
  WorkerCap = 2
  Batch = 2
  Priority <- SamePriority
  Lasttime <- SameTime
  NotifyOps <- AfterYieldOrHold
  ResumeOps <- Anything
  Naps <- OnlyZero
  MaxClock = 1
PROPERTIES Served StopFinishesDealt StopReturns
