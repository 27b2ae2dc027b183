SPECIFICATION StartSpec
CONSTANTS
  a1 = a1
  a2 = a2
  Addresses <- MCAddresses
  PortArgs <- MCPorts
  Dirs = {"/", "/data/local/tmp", "/sdcard"}
  StartDir = "/"
  Here = "."
  TestRoots = {"/", "/data/local/tmp", "."}
  Empty = Empty
  NoFile = NoFile
  Garbage = Garbage
  MaxBoots = 3
  Sections = {"", "A", "B"}
  Untitled = ""
  Names = {"m", "n"}
  Values = {"x", "y"}
  NoValue = "none"
  MaxLines = 5
  Plain = {"2", "5"}
  Hex <- MCHex
  Wide = {"wide"}
  MaxPairs = 2
  MaxKey = 1
  MaxValue = 2
INVARIANTS
  CallsAreRequested
  SaysWhatItSays
  ReadsBack
PROPERTIES
  ToldWhenServing
  CallbackFound
CHECK_DEADLOCK FALSE
