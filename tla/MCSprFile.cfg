\* Two threads read, write and measure a file through own and shared handles.
SPECIFICATION FairSpec
CONSTANTS
  Threads = {t1, t2}
  Handles = {h1, h2}
  Builds = {"posix", "win32"}
  Modes = {"open", "truncate", "append"}
  Calls = {"write", "read", "size", "fd"}
  MaxSize = 2
  MaxLen = 3
  MaxCalls = 1
CHECK_DEADLOCK FALSE
INVARIANTS
  FileInv
PROPERTIES
  TransfersRight
  SizeTrue
  CallsReturn
