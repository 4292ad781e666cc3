\* Two threads and four calls.
CONSTANTS
  Threads = {t1, t2}
  client = client
  None = None
  Policies <- AllPolicies
  MaxCalls = 4
SPECIFICATION Spec
INVARIANTS
  TypeOK
  ReferencedStaysUp
  OneSessionPerFile
  LoggedOutIsDown
PROPERTIES
  CallsEnd
CHECK_DEADLOCK FALSE
