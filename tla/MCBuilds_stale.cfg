SPECIFICATION Spec
CONSTANTS
  Requests = {r1, r2}
  Builders = {alice}
  Texts = {t1, t2}
  NoText = NoText
  Techs <- MCTechs
  Blank = ""
  Slugs <- MCSlugs
  Normalize <- MCNormalize
  Payloads <- MCPayloads
  NoTechs = NoTechs
  NoBuild = NoBuild
  MaxBuilds = 1
  MaxUpdates = 0
  Faults = FALSE
INVARIANTS LiveIndexInSync
