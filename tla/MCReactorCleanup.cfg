SPECIFICATION Spec
CONSTANTS
  acc = acc
  h1 = h1
  h2 = h2
  t1 = t1
  t2 = t2
  Handlers = {acc, h1}
  Acceptors = {acc}
  Timers = {t1}
  Intervals = {1}
  Wrap = 4
  MaxPass = 1
INVARIANT AutomaticCleanup
CHECK_DEADLOCK FALSE
