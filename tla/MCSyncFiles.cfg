\* Two Realms, so that one's action is run while the other's waits, or both
\* have reserved the same name; two recovery names, since an action that is
\* blocked needs another; two contents, before and after a backup.
CONSTANTS
  r1 = r1
  r2 = r2
  ann = ann
  Realms <- RealmsOfAnn
  Users = {ann}
  Owner <- AllAnns
  Names = {n1, n2}
  MaxContent = 2
SPECIFICATION Spec
INVARIANTS
  TypeOK
  NothingUnsavedLost
PROPERTY
  LeftoverIsBlocked
SYMMETRY Symmetry
