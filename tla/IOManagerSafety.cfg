SPECIFICATION Spec
CONSTANTS
  a1 = a1  a2 = a2  c1 = c1  c2 = c2  m1 = m1  w1 = w1  w2 = w2
  None = none  Free = free
  Apps <- OneApp
  Callbacks <- TwoCallbacks
  Workers <- TwoWorkers
  Clients <- OneClient
  Owner = m1
  Fds <- OneFd
  MayClose <- OneFd
  Signals <- ReadOrError
  InitSize = 2
  MaxGen = 1
  Budget <- ThreeAndOne
  Kinds <- AddOrCancel
  QueueCap = 1
  LoadCap = 2
SYMMETRY Symmetry
INVARIANTS TypeOK PendingExact KernelAgrees StopWaits
PROPERTY KeepsContract
