SPECIFICATION Spec
CONSTANTS
  Screen = {1, 2, 3}
  BadBufs = {}
  MaxGen = 3
INVARIANTS
  TypeOK
  AssertsHold
  KmsHasMaster
  OpensMatchScreens
  CountCoversHolders
  CountMeansMaster
