\* Two threads open, tune and close sockets.
SPECIFICATION Spec
CONSTANTS
  Threads = {t1, t2}
  Fds = {f1, f2}
  Builds = {"linux", "freebsd", "solaris", "win32"}
  MaxCalls = 4
SYMMETRY ThreadSymmetry
CHECK_DEADLOCK FALSE
INVARIANTS
  SocketsHeld
  SetAsAsked
