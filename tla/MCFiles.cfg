SPECIFICATION FilesSpec
CONSTANTS
  Connections = {1, 2}
  Limit = 13
  Depth = 2
  AtStart = 3
  Sessions = {1, 2}
  Dirs = {1, 2}
  Inodes = {1, 2, 3, 4}
  MaxLen = 3
  Ranges <- MCRanges
  PushSizes = {0, 2}
  BlockSize = 2
  MaxOthers = 1
INVARIANTS
  ShortOnlyIfForgotten
  PullDelivers
  PushHashTells
PROPERTIES
  PullEnds
CHECK_DEADLOCK FALSE
