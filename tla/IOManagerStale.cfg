SPECIFICATION Spec
CONSTANTS
  a1 = a1  a2 = a2  c1 = c1  c2 = c2  m1 = m1  w1 = w1  w2 = w2
  None = none  Free = free
  Apps <- OneApp
  Callbacks <- TwoCallbacks
  Workers <- TwoWorkers
  Clients <- Nothing
  Owner = none
  Fds <- OneFd
  MayClose <- Nothing
  Signals <- ReadOrWrite
  InitSize = 2
  MaxGen = 1
  Budget <- TwoCalls
  Kinds <- OnlyAdd
  QueueCap = 2
  LoadCap = 2
INVARIANT TriggersOnlyArmed
