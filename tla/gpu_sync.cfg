SPECIFICATION Spec
CONSTANTS
  Pixmap = {p1, p2}
  Dumb = {p2}
  Tiny = {p2}
  Bo = {1, 2, 3}
  NoBo = NoBo
  Origin = {0, 1}
  MaxRects = 2
  Env = {}
  MaxUses = 1
  MaxJobs = 2
INVARIANTS
  TypeOK
  DrawsAreNamed
  CpuSeesDrawing
  BatchSharesOrigin
CHECK_DEADLOCK FALSE
