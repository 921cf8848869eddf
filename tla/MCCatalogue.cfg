SPECIFICATION MCSpec
CHECK_DEADLOCK FALSE
CONSTANTS
  BuildIds = {b1, b2, b3}
  Statuses = {building, launched}
  Writers = {w1, w2}
  Clamp = 1
  Limits = {1, 2}
  Absent = Absent
  Whole = Whole
  Tech = Tech
  MaxStamp = 6
  Faults = TRUE
  ada = ada
  blog = blog
  shop = shop
  golang = golang
  red = red
  blue = blue
  word = word
  form = form
  part = part
  mark = mark
  Things = {ada, blog, shop, golang}
  KindOf <- MCKindOf
  Texts = {red, blue}
  None = None
  Gone = Gone
  Editors = {e1, e2}
  Queries = {word, form, part, mark}
  Special = {mark}
  Matching <- MCMatching
  Containing <- MCContaining
  MaxShown = 1
  Failures = TRUE
SYMMETRY Symmetry
INVARIANTS
  OnlyLossHides
  OnlyMovesRepeat
  
  EmptyIsHonest
