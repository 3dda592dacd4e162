SPECIFICATION FairSpec
CONSTANTS
  t1 = t1  s1 = s1 d1 = d1    main = main  none = none
  Tab = {t1}
  Func = {}
  Upval = {}
  Udata = {d1}
  Str = {s1}
  Thread = {main}
  Main = main
  Fixed = {main}
  NoThread = none
  SweepMax = 1
  HasJit = TRUE
  MaxRefs = 2
INVARIANTS NoDangling
PROPERTIES CycleEnds GarbageFreed
