SPECIFICATION FairSpec
CONSTANTS
  d1 = d1  d2 = d2  d3 = d3  m1 = m1  m2 = m2  c1 = c1  c2 = c2  none = none
  Udata = {d1, d2, d3}
  Meta <- MCMeta
  Callable <- MCCallable
  GcOf <- MCGcOf
  Direct = {m1}
  None = none
  Registry = {m1}
  Clearable = {m2}
  WeakUdata = {d1}
  Late = {d3}
  MaxRounds = 2
  LateFullGC = FALSE
  CloseCollect = FALSE
INVARIANTS TypeOK NoDangling QueuedPreserved FinalizedOnce ReverseOfCreation CursorOnSegment
PROPERTIES FinalizedBeforeFree FinalizedEventually
CHECK_DEADLOCK FALSE
