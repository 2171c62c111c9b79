CONSTANTS
  Rules = {r1}
  Subs = {s1}
  RouteSubs = {s1}
  Contents = {c1}
  Targets = {g1}
  NoBinding = NoBinding
  Absent = Absent
  ChecksExpected = TRUE
  FaultKinds = {"call", "binding"}
  MaxVersion = 4
  MaxOps = 2
  MaxFaults = 2
SPECIFICATION Spec
INVARIANTS RouteSubscriptionsBound
