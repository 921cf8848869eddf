SPECIFICATION MCSpec
CHECK_DEADLOCK FALSE
CONSTANTS
  Clients = {c1, c2}
  Minute = 4
  Cost = 3
  Second = 2
  NoVisitor = NoVisitor
  MaxClock = 14
  Requests = {r1, r2}
  Browsers = {b1, b2}
  Builders = {alice, bob}
  NoCookie = NoCookie
  NoRow = NoRow
  MaxAge = 1
  Period = 1
  MaxTime = 3
  MaxSessions = 2
  Faults = TRUE
  Fetches = {f1, f2}
  Ttl = 2
  Empty = Empty
  MaxNow = 6
  Hours = 2
  Shown = 2
  Keep = 2
  MaxDay = 4
SYMMETRY Symmetry
INVARIANTS NeverOverLimit RetryIsAdmitted
           LoggedOutStaysOut OwnSessionOnly NoLinger
           SamplesAreRecent HistoryIsHonest OldChecksGo
PROPERTIES ImplementsTokenBucket NoEarlyEnd
