SPECIFICATION Spec
CONSTANTS
  NumCrtc = 1
  Size = {1, 2}
  InitSize = 2
  None = None
  Pluggable = {}
  MaxUevents = 0
  Env = {}
INVARIANTS
  ShownIsOn
