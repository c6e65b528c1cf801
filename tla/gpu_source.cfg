SPECIFICATION Spec
CONSTANTS
  Pixmap = {p1, p2}
  Dumb = {}
  Tiny = {}
  Bo = {1, 2, 3}
  NoBo = NoBo
  Origin = {0}
  MaxRects = 1
  Env = {}
  MaxUses = 1
  MaxJobs = 2
INVARIANTS
  CpuSparesSources
CHECK_DEADLOCK FALSE
