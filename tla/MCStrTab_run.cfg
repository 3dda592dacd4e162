SPECIFICATION Spec
CONSTANTS
  Contents = {"a", "b", "c", "d", "e"}
  Seeds = {1, 2}
  hash_sparse <- MCsparse
  hash_dense <- MCdense
  NULL = NULL
  LJ_STR_MAXCOLL = 1
  LJ_MIN_STRTAB = 2
  LJ_MAX_STRTAB = 16
INVARIANTS TypeOK Findable SweepExact
