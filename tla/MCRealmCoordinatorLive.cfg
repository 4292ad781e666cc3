SPECIFICATION Spec
CONSTANTS
  MaxVersion = 2
  MaxToken = 2
PROPERTIES
  WaitEnds
  EveryoneIsToldOtherwise
