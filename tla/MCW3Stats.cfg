\* Two players, so that there is another one to hit by mistake and a last row
\* that moves when the first is deleted; numbers up to 1, so that a second
\* result traps; two blocks on the main queue, so that one runs after the other
\* has changed the screen under it.
CONSTANTS
  Names = {ann, bob}
  Races = {"orc"}
  NoName = NoName
  NoPlayer = NoPlayer
  MaxInt = 1
  MaxQueue = 2
  MaxFades = 1
  MaxPlayersFades = 1
  MaxTimers = 1
SPECIFICATION Spec
INVARIANTS
  TypeOK
  ShownIsStored
  ListIsStored
  CanAlwaysAddPlayer
PROPERTIES
  OnlyTheFormCreates
  OnlyTheShownPlayerChanges
SYMMETRY NameSymmetry
