SPECIFICATION Spec
CONSTANTS
  Protos = {"p"}
  Sites = {"f", "i", "c", "r"}
  ProtoOf <- MCProtoOf
  KindOf <- MCKindOf
  Ids = {t1, t2}
  MAXTRACE = 2
  MaxFrames = 1
  PendingAborts = FALSE
  NULL = NULL
  CUR = CUR
SYMMETRY Symmetry
INVARIANTS TypeOK NumbersExact BytecodeExact TracesLive RecordingKept
CHECK_DEADLOCK FALSE
