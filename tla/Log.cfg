\* A loader and a thread that logs and changes loggers.
CONSTANTS
  root = root  sys = sys  f0 = f0  f1 = f1   bad = bad
  Threads = {t1, t2, t3}
  Loaders = {t1}
  Names <- TwoNames
  Root = root
  Appenders = {o1, a1, a2, a3, a4, a5, a6}
  Own = {o1}
  OutRoot = a1
  ErrRoot = a2
  Formatters <- TwoPatterns
  DefaultFormatter = f0
  Invalid = bad
  NoText = NoText
  PatternOf <- Patterns
  Alpha <- Letters
  Signs <- Dashes
  Registered <- NamesKnown
  MaxPattern = 5
  Levels = {2, 4}
  Documents <- Texts
  MaxCalls = 4
  Free = Free
SPECIFICATION Spec
\* Calls are bounded.
CHECK_DEADLOCK FALSE
INVARIANTS
  LockOrder
  FormattersHold
  LinesHold
  ReloadApplies
  ExportsItself
  PatternsHold
