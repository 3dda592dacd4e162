SPECIFICATION Spec
CONSTANTS
  a = a  b = b
  Strs = {a, b}
  Ints = {1, 2, 3}
  NULL = NULL
  SIDS = {1, 3}
  HBITS = {0, 2}
  MAX_ASIZE = 2
INVARIANTS TypeOK LenIsBorder
PROPERTIES IsTable TraversalExact
SYMMETRY Symmetry
VIEW AllButOp
