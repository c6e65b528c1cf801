SPECIFICATION MCFairSpec
CONSTANTS
  Bo = {b1, b2, b3, b4, b5, b6, b7}
  NoBo = NoBo
  Pix = {Root, p1, p2, p3, p4}
  NoPix = NoPix
  Size = {1, 2}
  Draw = {d1}
  NoDraw = NoDraw
  Buf = {x1, x2, x3, x4, x5}
  NoBuf = NoBuf
  Cmd = {k1, k2}
  NoCmd = NoCmd
  Crtc = {c1, c2}
  Root = Root
  InitSize = 1
  NumBufs = 2
  NoFlip = FALSE
  Handlers = "dri2"
  Env = {"destroy", "redirect", "crtc", "resize", "flipfail", "vblfail", "fb"}
  MaxServerSteps = 3
INVARIANTS
  TypeOK
  AssertionsHold
  PendingCountsCommands
  EventsMatchCommands
  RefsCountHolders
  PixmapsCountBuffers
  BuffersCountUsers
  CoreCountsSwaps
PROPERTIES
  SwapsComplete
  ScreenCloses
CHECK_DEADLOCK FALSE
