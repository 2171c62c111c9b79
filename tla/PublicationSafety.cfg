CONSTANTS
  Rules = {r1}
  Subs = {s1}
  RouteSubs = {s1}
  Contents = {c1, c2}
  Targets = {g1, g2}
  NoBinding = NoBinding
  Absent = Absent
  ChecksExpected = TRUE
  FaultKinds = {"db", "call", "lost_reply", "late", "invalid", "binding", "crash", "lose", "regress"}
  MaxVersion = 4
  MaxOps = 2
  MaxFaults = 2
SPECIFICATION Spec
INVARIANTS TypeOK ServedIsRecorded ActiveOwnsRules RuntimeAtFloor
PROPERTIES VerdictsAreFinal KeepsContract
