SPECIFICATION MCSpec
CONSTANTS
  Requests = {r1, r2}
  Codes = {c1}
  Accounts = {a1}
  Handles <- MCHandles
  Written <- MCWritten
  Logins <- MCLogins
  Lower <- MCLower
  Suffixed <- MCSuffixed
  NoConnection = NoConnection
  MaxBuilders = 3
  Faults = FALSE
INVARIANTS OneBuilderPerAccount
