SPECIFICATION Spec
CONSTANTS
    f1 = f1 u1 = u1 co = co    main = main  none = none
  Tab = {}
  Func = {f1}
  Upval = {u1}
  Udata = {}
  Str = {}
  Thread = {main, co}
  Main = main
  Fixed = {main}
  NoThread = none
  SweepMax = 1
  HasJit = TRUE
  MaxRefs = 4
INVARIANTS TypeOK NoDangling TriColour CleanPause
