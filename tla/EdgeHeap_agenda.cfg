CONSTANTS
  Edges = {e1, e2, e3, e4, e5, e6, e7}
  HeapSize = 7
  Merits = {1, 2, 3}
  NULL = NULL
SPECIFICATION Spec
INVARIANTS Positions FlagIsTrue HeapOrdered
PROPERTIES IsAgenda
CHECK_DEADLOCK FALSE
SYMMETRY AnyEdge
