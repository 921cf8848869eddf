SPECIFICATION Spec
CONSTANTS
  Requests = {r1, r2}
  Builders = {alice}
  Texts = {t1}
  NoText = NoText
  Techs <- MCTechs
  Blank = ""
  Slugs <- MCSlugs
  Normalize <- MCNormalize
  Payloads <- MCPayloadOne
  NoTechs = NoTechs
  NoBuild = NoBuild
  MaxBuilds = 1
  MaxUpdates = 1
  Faults = FALSE
INVARIANTS NoOrphanRows
