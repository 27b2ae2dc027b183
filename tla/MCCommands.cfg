SPECIFICATION CommandsSpec
CONSTANTS
  Characters = {" ", "quote", "=", ",", "x"}
  MaxLine = 6
  Names = {"A", "B"}
  Values = {"", "x", "y"}
  Empty = ""
  Unset = "unset"
  MaxVars = 3
  Nodes <- MCNodes
  Kind <- MCKind
  Name <- MCName
  Top = "top"
  Absent = "absent"
  Shapes <- MCShapes
  Targets <- MCTargets
  Unwritables = {{}, {"d"}}
  Unreadables = {{}, {"d"}}
  Argument = "r"
  MaxLinks = 2
  MaxOpen = 4
  MaxOthers = 2
INVARIANTS
  CommandsTypeOK
  ChildSeesAssignments
  RestoredIfAssignedOnce
  AnswerTells
  TakenAsWritten
PROPERTIES
  OnlyBelow
  CommandsEnd
CHECK_DEADLOCK FALSE
