\* One player is enough for what the main queue must bring about; no symmetry,
\* for the sake of the temporal properties. Two fades and two checkmarks at a
\* time, so that calls of each overlap.
CONSTANTS
  Names = {ann}
  Races = {"orc"}
  NoName = NoName
  NoPlayer = NoPlayer
  MaxInt = 1
  MaxQueue = 2
  MaxFades = 2
  MaxPlayersFades = 1
  MaxTimers = 2
SPECIFICATION Spec
INVARIANT
  AnimationsSettle
PROPERTIES
  AnimationsEnd
  NoPlayerLeadsToPlayers
  TapLeadsToStats
