\* All calls on a list whose links are intact.
SPECIFICATION Spec
CONSTANTS
  Data = {a, b}
  SPR_LIST_INITIAL_SIZE = 2
  MaxReserve = 2
  MaxNodes = 4
SYMMETRY DataSymmetry
CHECK_DEADLOCK FALSE
INVARIANTS
  NodesKept
  BackLinked
PROPERTIES
  SequenceLaws
