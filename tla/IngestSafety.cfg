CONSTANTS
  Events = {e1, e2}
  Senders = {s1, s2}
  Streams = {c1}
  Filters = {{e1, e2}}
  QueueCapacity = 2
  BatchSize = 2
  MaxBatchEvents = 2
  StreamBuffer = 1
  MaxDiagnostics = 1
  MaxSends = 2
  MaxFaults = 1
  MaxCleanups = 1
SPECIFICATION FairSpec
CHECK_DEADLOCK FALSE
INVARIANTS TypeOK RefusedIsWhole CountedOnce StreamHasNoGaps DiagnosticsAgree StopLosesNothing
PROPERTIES EventuallyDrained
