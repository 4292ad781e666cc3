\* A commit that fails once is enough.
CONSTANTS
  Names = {ann}
  Races = {"orc"}
  NoName = NoName
  NoPlayer = NoPlayer
  MaxInt = 1
  MaxQueue = 1
  MaxFades = 1
  MaxPlayersFades = 1
  MaxTimers = 1
SPECIFICATION Spec
PROPERTY
  FailedSaveIsNotListed
