SPECIFICATION Spec
CONSTANTS
  NumCrtc = 2
  Size = {1, 2}
  InitSize = 2
  None = None
  Pluggable = {2}
  MaxUevents = 1
  Env = {"set", "again", "nomem", "dpms", "uevent"}
INVARIANTS
  TypeOK
  FieldsAreGood
  OnShowsItsMode
  ShownFits
