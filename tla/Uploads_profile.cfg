SPECIFICATION Spec
CONSTANTS
  Requests = {r1}
  Builders = {alice}
  BuildIds = {b1}
  Pictures = {p1}
  Pieces = 1
  Hole = Hole
  NoFile = NoFile
  NoImage = NoImage
  Elsewhere = Elsewhere
  DisplayNames = {d1}
  NoName = NoName
  Bios = {bio}
  NoBio = NoBio
  MaxTime = 0
  Faults = FALSE
PROPERTIES KeepExistingValues
