CONSTANTS
  Users = {u1, u2}
  Passwords = {p1, p2}
  Clients = {c1, c2}
  Requests = {r1, r2}
  NoAdmin = none
  LimiterEntries = 1
  FailuresToBlock = 2
  MaxRequests = 4
  MaxCommands = 1
  MaxEvents = 1
SPECIFICATION Spec
SYMMETRY Symmetry
CHECK_DEADLOCK FALSE
INVARIANTS TypeOK OneInitialAdmin SessionsAreCurrent
