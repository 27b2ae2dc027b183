SPECIFICATION FairSpec
CONSTANTS
  Kinds = {"blank", "quick", "pull", "push", "exec", "quit"}
  PushSizes = {0, 1, 2}
  MaxBlocks = 2
  MaxCommands = 3
  Lockstep = FALSE
INVARIANTS
  TypeOK
  OnePromptPerCommand
  PayloadIsNotParsed
  TimerMatchesSubprocess
  PollsWhatItAwaits
  OpenFilesAreHeld
PROPERTY ClosedSocketDetected
CHECK_DEADLOCK FALSE
