\* Two users, two pollers, two timers; the clock may be set back once.
CONSTANTS
  Timers <- MCTimers
  Users = {u1, u2}
  Pollers = {p1, p2}
  Periods <- MCPeriods
  Hour = 1
  Start = 2
  MaxClock = 3
  MaxCalls = 3
  MaxJumps = 1
  Earlier <- MCEarlier
  Never = Never
  None = None
SYMMETRY MCSymmetry
SPECIFICATION Spec
\* Calls and clock are bounded.
CHECK_DEADLOCK FALSE
INVARIANTS
  NoOversleep
  TypeOK
  QueuedIffCallback
  OneShotOnce
