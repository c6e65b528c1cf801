SPECIFICATION FairSpec
CONSTANTS
  Pixmap = {p1, p2}
  Dumb = {p2}
  Tiny = {}
  Bo = {1, 2, 3}
  NoBo = NoBo
  Origin = {0}
  MaxRects = 1
  Env = {"xv"}
  MaxUses = 1
  MaxJobs = 1
PROPERTIES
  CacheDrains
CHECK_DEADLOCK FALSE
