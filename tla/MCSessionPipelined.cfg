SPECIFICATION Spec
CONSTANTS
  Kinds = {"blank", "quick", "pull", "push", "exec", "quit"}
  PushSizes = {0, 1, 2}
  MaxBlocks = 2
  MaxCommands = 2
  Lockstep = FALSE
INVARIANT Drained
CHECK_DEADLOCK FALSE
