\* A loader and a thread of the program; the file is saved once more.
CONSTANTS
  a = a
  b = b
  Threads = {t1, t2}
  Loaders = {t1}
  Names <- TwoNames
  TypeOf <- OneType
  Listeners = {l1, l2}
  Values <- ZeroOne
  Default = 0
  Bad = Bad
  Broken = Broken
  Contents <- ThreeFiles
  MaxCalls = 6
  MaxEdits = 1
  None = None
  Words <- FourWords
  Numerals = {"1"}
  Number <- OneIsOne
  Dressed = {"x: 1"}
  ReadAs <- AMap
  Legal = {"x", "1"}
  Types <- AllTypes
  Documents <- AllDocuments
SPECIFICATION FairSpec
\* Calls and edits are bounded.
CHECK_DEADLOCK FALSE
INVARIANTS
  CalledIsRegistered
  KeysHold
  FileWins
  DocumentsHold
PROPERTY
  CallsReturn
