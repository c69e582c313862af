SPECIFICATION Spec
CONSTANTS
  c1 = c1  f1 = f1  f2 = f2  f3 = f3
  MainFiber = main  NoTask = none  Free = free  Alloc = alloc
  Fibers <- OneFiber
  Clients <- OneClient
  Workers <- OneWorker
  Threads <- ClientAndWorkers
  Submitters <- OneClient
  ThreadCount = 1
  MaxStarts = 1
  TaskCap = 2
  WorkerCap = 2
  Batch = 2
  Priority <- SamePriority
  Lasttime <- SameTime
  NotifyOps <- YieldOrStop
  ResumeOps <- HoldOrStop
  Naps <- OnlyZero
  MaxClock = 0
INVARIANT LoopAssertsHold
