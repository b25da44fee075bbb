SPECIFICATION Spec
CONSTANTS
  Requests = {q1, q2}
  Locales = {fr, en}
  Contents = {c1}
  Kinds = {"create", "get", "update", "rename", "snapshot", "restore", "addLocale", "activate", "dropLocale", "delete"}
  MaxId = 1
  MaxRevision = 3
  MaxSnapshots = 3
  AllowCrash = TRUE
  Other = Other
  None = None
SYMMETRY Symmetry
INVARIANTS TypeOK DocumentsResolve NumbersContiguous
PROPERTY DefaultNeverMoves
