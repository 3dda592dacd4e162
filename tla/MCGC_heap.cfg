SPECIFICATION Spec
CONSTANTS
  t1 = t1  t2 = t2    main = main  none = none
  Tab = {t1, t2}
  Func = {}
  Upval = {}
  Udata = {}
  Str = {}
  Thread = {main}
  Main = main
  Fixed = {main}
  NoThread = none
  SweepMax = 1
  HasJit = FALSE
  MaxRefs = 4
INVARIANTS NoDangling TriColour GrayListed CleanPause
PROPERTIES WeakClearing FullGCFrees
SYMMETRY Symmetry
