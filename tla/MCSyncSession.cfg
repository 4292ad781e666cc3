\* One completion handler: handlers do not affect each other, every action and
\* every property treats each on its own. Two commits by two writers, so that
\* the second is announced before the first; two deaths, so that a completion
\* of the first is still awaited in the second, with another version to upload.
CONSTANTS
  Handlers = {h1}
  Policies <- AllPolicies
  Writers = {w1, w2}
  MaxVersion = 2
  MaxDeaths = 2
SPECIFICATION Spec
INVARIANTS
  TypeOK
  HandlersKept
  CommitsAnnounced
PROPERTIES
  UploadedBeforeGone
  HandlersAnswered
