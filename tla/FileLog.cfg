\* Two loggers with one appender; a file moved and a directory removed, a disk that fails once.
CONSTANTS
  Threads = {t1, t2}
  LogDir <- TwoDirs
  Paths <- FivePaths
  None = None
  MaxLines = 3
  MaxClock = 7
  MaxMoves = 2
  MaxFaults = 1
SPECIFICATION Spec
\* Lines and seconds are bounded.
CHECK_DEADLOCK FALSE
INVARIANTS
  LinesWhole
  MovedFileIsLeft
  AnswersHold
PROPERTY
  LossIsFault
SYMMETRY Alike
