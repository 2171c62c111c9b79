CONSTANTS
  Rules = {r1}
  Subs = {s1}
  RouteSubs = {s1}
  Contents = {c1}
  Targets = {g1}
  NoBinding = NoBinding
  Absent = Absent
  ChecksExpected = TRUE
  FaultKinds = {"late"}
  MaxVersion = 3
  MaxOps = 1
  MaxFaults = 1
SPECIFICATION Spec
INVARIANTS NotAppliedIsNotServed
