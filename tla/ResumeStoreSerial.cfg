SPECIFICATION Spec
CONSTANTS
  Requests = {q1}
  Locales = {fr, en}
  Contents = {c1, c2}
  Kinds = {"create", "duplicate", "get", "update", "move", "restore", "addLocale", "activate", "dropLocale", "delete", "purge"}
  MaxId = 2
  MaxRevision = 3
  MaxSnapshots = 3
  AllowCrash = FALSE
  Other = Other
  None = None
SYMMETRY Symmetry
INVARIANTS NumbersUnique HeadIsCurrent
PROPERTY ImplementsLibrary
