SPECIFICATION FairSpec
CONSTANTS
  Kinds = {"blank", "quick", "pull", "push", "exec", "quit"}
  PushSizes = {0, 1, 2}
  MaxBlocks = 2
  MaxCommands = 2
  Lockstep = TRUE
PROPERTY
  EveryCommandAnswered
CHECK_DEADLOCK FALSE
