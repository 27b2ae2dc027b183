SPECIFICATION FairSpec
CONSTANTS
  acc = acc
  h1 = h1
  h2 = h2
  t1 = t1
  t2 = t2
  Handlers = {acc, h1, h2}
  Acceptors = {acc}
  Timers = {t1, t2}
  Intervals = {0, 1}
  Wrap = 4
  MaxPass = 1
INVARIANTS
  TypeOK
  NoDanglingPointers
  NeverEarly
  NeverOverlooked
PROPERTIES
  ClosedIsDeleted
  TimeoutServed
  SignalEndsLoop
CHECK_DEADLOCK FALSE
