SPECIFICATION MCSpec
CHECK_DEADLOCK FALSE
CONSTANTS
  Requests = {r1, r2}
  Builders = {alice}
  Texts = {t1}
  NoText = NoText
  Techs <- MCTechs
  Blank = ""
  Slugs <- MCSlugs
  Normalize <- MCNormalize
  Payloads <- MCPayloadTwice
  NoTechs = NoTechs
  NoBuild = NoBuild
  MaxBuilds = 1
  MaxUpdates = 1
  Faults = TRUE
  Streams = {s1, s2}
  Polls = {p1, p2}
  Retries = 2
  MaxStarts = 3
PROPERTIES EveryRequestEnds LiveAgain ShutdownEnds
