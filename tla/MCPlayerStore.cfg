\* Three players, one race, two values of the stats; up to four sets of stats
\* objects, so that the last row moves into a gap and a player can be saved, updated, deleted and saved again.
CONSTANTS
  Names = {ann, bob, cyd}
  Races = {"orc"}
  StatsVals = {s1, s2}
  NoCall = NoCall
  MaxObjects = 4
SPECIFICATION Spec
INVARIANTS
  TypeOK
  TablesWellFormed
  OpenOnlyAfterFailure
  CommitsTheCall
PROPERTY
  ImplementsBook
