SPECIFICATION AgentSpec
CONSTANTS
  c = c
  b = b
  h1 = h1
  h2 = h2
  spare = spare
  Handlers = {c, b, h1, h2}
  Acceptors = {c, b}
  CommandAcceptor = c
  HeartbeatAcceptor = b
  Timers = {h1, h2, spare}
  Intervals = {0, 1}
  Period = 0
  Beat = 1
  Wrap = 4
  MaxPass = 1
  Commands = {"line", "exec", "quit", "rebt"}
  MaxConnections <- More
  MaxLines = 1
SYMMETRY Symmetry
INVARIANTS
  OneTimer
PROPERTIES
  RunsOnReactor
  CrashKnown
CHECK_DEADLOCK FALSE
