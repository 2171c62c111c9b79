CONSTANTS
  Admins = {a1}
  Patterns = {p1, p2}
  NoForm = NoForm
  Absent = Absent
  MaxTime = 4
  MaxRuleId = 2
SPECIFICATION Spec
CHECK_DEADLOCK FALSE
INVARIANT AcceptedFlagIsCurrent
