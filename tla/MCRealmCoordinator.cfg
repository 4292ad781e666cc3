SPECIFICATION Spec
CONSTANTS
  MaxVersion = 3
  MaxToken = 2
INVARIANTS
  TypeOK
  NothingLost
  DeliveredWhole
  LoopStaysInside
  SkipsOnlyItsOwn
