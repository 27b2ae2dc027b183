SPECIFICATION FairAgentSpec
CONSTANTS
  c = c
  b = b
  h1 = h1
  h2 = h2
  spare = spare
  Handlers = {c, b, h1, h2}
  Acceptors = {c, b}
  CommandAcceptor = c
  HeartbeatAcceptor = b
  Timers = {h1, h2, spare}
  Intervals = {0}
  Period = 0
  Beat = 0
  Wrap = 3
  MaxPass = 1
  Commands = {"exec"}
  MaxConnections <- One
  MaxLines = 1
PROPERTIES
  KeepsBeating
  LeaversAreDeleted
  SignalEndsAgent
CHECK_DEADLOCK FALSE
