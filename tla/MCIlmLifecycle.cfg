SPECIFICATION Spec
CONSTANTS
  Threads = {t1, t2}
  Control = control
  Nobody = nobody
  MaxCalls = 5
  MaxEvents = 2
  MaxConnects = 2
INVARIANTS
  HoldersServed
PROPERTIES
  CallsReturn
CHECK_DEADLOCK FALSE
