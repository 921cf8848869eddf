SPECIFICATION MCSpec
CONSTANTS
  Requests = {r1, r2}
  Builders = {alice, bob}
  BuildIds = {b1}
  Pictures = {p1, p2}
  Pieces = 2
  Hole = Hole
  NoFile = NoFile
  NoImage = NoImage
  Elsewhere = Elsewhere
  DisplayNames = {d1, d2}
  NoName = NoName
  Bios = {bio}
  NoBio = NoBio
  MaxTime = 1
  Faults = TRUE
SYMMETRY Symmetry
INVARIANTS AnsweredStays RowsNameWhole SerialNameAsAsked
PROPERTIES AvatarOnlyByUpload
