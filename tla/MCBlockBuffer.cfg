SPECIFICATION Spec
CONSTANTS
  Bytes = {"x", "nl"}
  Newline = "nl"
  Junk = "junk"
  MaxPut = 3
  Inputs <- InputsUpToMaxPut
  BlockSize = 2
  MaxSize = 5
INVARIANTS
  PointersSafe
  LoopsAgree
PROPERTY ImplementsQueue
CHECK_DEADLOCK FALSE
