CONSTANTS
  Rules = {r1}
  Subs = {s1}
  RouteSubs = {s1}
  Contents = {c1}
  Targets = {g1}
  NoBinding = NoBinding
  Absent = Absent
  ChecksExpected = FALSE
  FaultKinds = {"db", "call", "lost_reply", "crash", "lose", "regress"}
  MaxVersion = 7
  MaxOps = 2
  MaxFaults = 2
SPECIFICATION FairSpec
PROPERTIES EventuallyConverged
