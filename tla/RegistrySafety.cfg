CONSTANTS
  Groups = {g1, g2, g3}
  Caches = {c1}
  Families = {f1, f2}
  Requests = {q1, q2}
  Periodic = Periodic
  None = None
  GroupLimit = 2
  MaxOperations = 3
  MaxCrashes = 1
SPECIFICATION Spec
SYMMETRY Symmetry
CHECK_DEADLOCK FALSE
INVARIANTS TypeOK DefaultUsable ReferencesUsable StoredSettingsStay
