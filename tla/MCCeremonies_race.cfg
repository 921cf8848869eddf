SPECIFICATION MCSpec
CONSTANTS
  Requests = {r1, r2}
  Builders = {alice, bob}
  Passkeys = {p1, p2}
  NoBuilder = NoBuilder
  NoCeremony = NoCeremony
  NoRow = NoRow
  Ttl = 2
  Period = 2
  MaxTime = 7
  MaxChallenges = 4
  MaxCount = 3
  Faults = TRUE
SYMMETRY Symmetry
INVARIANTS GrantedAsIssued SerialCountCovers NoStaleCeremony
PROPERTIES OneTime NoEarlySweep
