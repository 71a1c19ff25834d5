SPECIFICATION Spec
CONSTANTS
  SessionTimeout = TRUE
  Resume = TRUE
  Hwm = 1
  Room = 2
  MaxConn = 2
  MaxMsgs = 1
  MaxChanges = 1
CHECK_DEADLOCK FALSE
INVARIANTS
  NoSelfDestroy
