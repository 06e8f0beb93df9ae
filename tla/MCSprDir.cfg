\* A thread lists a directory and a glob while files are removed.
SPECIFICATION DirFairSpec
CONSTANTS
  Systems = {"dtype", "stat", "win32"}
  n1 = n1
  n2 = n2
  n3 = n3
  Names = {n1, n2, n3}
  Listing <- MCListing
  Kinds = {"FILE", "DIR", "LINK"}
  kind <- MCKind
  Long = {n3}
  NotUtf8 = {n1}
  MaxPath = 260
  DirLens = {1, 262, 263}
  None = None
  MaxOpens = 2
CHECK_DEADLOCK FALSE
INVARIANTS
  DirRight
  FilesTrue
  GlobComplete
PROPERTIES
  StreamsEnd
