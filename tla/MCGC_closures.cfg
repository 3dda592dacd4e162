SPECIFICATION Spec
CONSTANTS
  f1 = f1  f2 = f2  u1 = u1  u2 = u2    main = main  none = none
  Tab = {}
  Func = {f1, f2}
  Upval = {u1, u2}
  Udata = {}
  Str = {}
  Thread = {main}
  Main = main
  Fixed = {main}
  NoThread = none
  SweepMax = 1
  HasJit = FALSE
  MaxRefs = 4
INVARIANTS NoDangling
PROPERTIES FullGCFrees
SYMMETRY Symmetry
