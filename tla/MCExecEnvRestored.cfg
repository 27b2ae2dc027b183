SPECIFICATION EnvSpec
CONSTANTS
  Names = {"A", "B"}
  Values = {"", "x", "y"}
  Empty = ""
  Unset = "unset"
  MaxVars = 2
INVARIANT Restored
CHECK_DEADLOCK FALSE
