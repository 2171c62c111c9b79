CONSTANTS
  Subs = {s1}
  Bodies = {b1, b2}
  Requests = {q1}
  Timer = timer
  Interval = 2
  Absent = absent
  Failure = failure
  MaxTicks = 1
  MaxOps = 3
  MaxFaults = 1
SPECIFICATION FairSpec
CHECK_DEADLOCK FALSE
INVARIANTS TypeOK
PROPERTIES NewestAttemptStays FailedLeavesNoTrace DueIsChecked
