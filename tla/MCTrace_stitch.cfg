SPECIFICATION Spec
CONSTANTS
  Protos = {"p"}
  Sites = {"f", "c"}
  ProtoOf <- MCProtoOf
  KindOf <- MCKindOf
  Ids = {t1, t2}
  MAXTRACE = 3
  MaxFrames = 1
  PendingAborts = TRUE
  NULL = NULL
  CUR = CUR
SYMMETRY Symmetry
INVARIANT RunsIdle
CHECK_DEADLOCK FALSE
