SPECIFICATION Spec
CONSTANTS
  Screen = {1}
  BadBufs = {}
  MaxGen = 1
INVARIANTS
  MasterReleasedWhenAway
