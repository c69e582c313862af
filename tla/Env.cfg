\* Two threads and four calls of Env or scopes of a lock of the program.
CONSTANTS
  a = a  x = x
  Threads = {t1, t2}
  m_mutex = m_mutex
  Mutexes = {m_mutex, own}
  None = None
  Keys = {a, b}
  Values = {x}
  Dash = Dash
  NoText = NoText
  Argv <- OneArgument
  MaxArgs = 5
  MaxCalls = 4
  MaxSignals = 1
SPECIFICATION Spec
\* Calls are bounded, and threads end.
CHECK_DEADLOCK FALSE
INVARIANTS
  ThreadsHold
  GuardsExclude
  EnvHolds
