SPECIFICATION Spec
CONSTANTS
  c1 = c1  f1 = f1  f2 = f2  f3 = f3
  MainFiber = main  NoTask = none  Free = free  Alloc = alloc
  Fibers <- ThreeFibers
  Clients <- OneClient
  Workers <- FourWorkers
  Threads <- ClientAndWorkers
  Submitters <- ClientAndWorkers
  ThreadCount = 2
  MaxStarts = 2
  TaskCap = 2
  WorkerCap = 1
  Batch = 2
  Priority <- SamePriority
  Lasttime <- SameTime
  NotifyOps <- AfterYieldOrHold
  ResumeOps <- HoldOrSleep
  Naps <- OnlyZero
  MaxClock = 1
SYMMETRY Symmetry
INVARIANTS TypeOK PlacedOnce Accounting Bounded ExitedClean StateMatchesQueue AssertionsHold
PROPERTY KeepsContract
