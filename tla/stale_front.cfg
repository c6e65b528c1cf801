SPECIFICATION MCSpec
CONSTANTS
  Bo = {b1, b2, b3, b4, b5, b6, b7}
  NoBo = NoBo
  Pix = {Root, p1, p2, p3, p4}
  NoPix = NoPix
  Size = {1}
  Draw = {d1, d2}
  NoDraw = NoDraw
  Buf = {x1, x2, x3, x4, x5}
  NoBuf = NoBuf
  Cmd = {k1, k2}
  NoCmd = NoCmd
  Crtc = {c1}
  Root = Root
  InitSize = 1
  NumBufs = 2
  NoFlip = FALSE
  Handlers = "dri2"
  Env = {}
  MaxServerSteps = 4
SYMMETRY Symmetry
INVARIANTS
  NameMatchesPixmap
CHECK_DEADLOCK FALSE
