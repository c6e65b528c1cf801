SPECIFICATION FairSpec
CONSTANTS
  MaxRequest = 3
  Addr = {a1, a2}
  NoAddr = NoAddr
  Crtc = {c1}
  NoCrtc = NoCrtc
  Space = 1
  Wrap = 10
  MaxOffset = 1
  Ahead = {1, 2}
  MaxFrame = 3
  Env = {"nomem", "ioctl"}
INVARIANTS
  TypeOK
  QueueIsPending
  EntriesOwnEvents
  PendingAreOwed
  AnswersNotEarly
PROPERTIES
  PromiseKept
