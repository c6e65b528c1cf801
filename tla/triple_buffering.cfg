SPECIFICATION FairOneSpec
CONSTANTS
  Bo = {b1, b2, b3, b4, b5, b6, b7, b8, b9}
  NoBo = NoBo
  Pix = {Root, p1, p2, p3, p4, p5}
  NoPix = NoPix
  Size = {1}
  Draw = {d1}
  NoDraw = NoDraw
  Buf = {x1, x2, x3, x4, x5}
  NoBuf = NoBuf
  Cmd = {k1, k2}
  NoCmd = NoCmd
  Crtc = {c1, c2}
  Root = Root
  InitSize = 1
  NumBufs = 4
  NoFlip = FALSE
  Handlers = "dri2"
  Env = {"vblfail", "fb"}
  Flipper = d1
INVARIANTS
  BackIsPrivate
  NameMatchesPixmap
  ScanoutIsShown
  RootIsScanout
PROPERTIES
  PageRests
  FlipsAsPromised
CHECK_DEADLOCK FALSE
