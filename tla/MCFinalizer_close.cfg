SPECIFICATION Spec
CONSTANTS
  d1 = d1  d2 = d2  m1 = m1  m2 = m2  c1 = c1  c2 = c2  none = none
  Udata = {d1, d2}
  Meta <- MCMeta
  Callable <- MCCallable
  GcOf <- MCGcOf
  Direct = {m1}
  None = none
  Registry = {m1}
  Clearable = {m2}
  WeakUdata = {d1}
  Late = {}
  MaxRounds = 2
  LateFullGC = FALSE
  CloseCollect = TRUE
INVARIANT RootSweepValid
CHECK_DEADLOCK FALSE
