SPECIFICATION MCSpec
CONSTANTS
  Requests = {r1, r2}
  Builders = {alice, bob}
  Texts = {t1, t2}
  NoText = NoText
  Techs <- MCTechs
  Blank = ""
  Slugs <- MCSlugs
  Normalize <- MCNormalize
  Payloads <- MCPayloadsAll
  NoTechs = NoTechs
  NoBuild = NoBuild
  MaxBuilds = 2
  MaxUpdates = 1
  Faults = TRUE
SYMMETRY Symmetry
INVARIANTS OwnershipHeld OneIndexRow SerialNoOrphans
           SerialIndexInSync SerialLinksAsAsked
PROPERTIES OnlyOwnerWrites CleanBirth
