SPECIFICATION Spec
CONSTANTS
  Worker = {w1, w2}
  p1 = p1
  p2 = p2
  Peer = {p1, p2}
  Server = {}
  Pipe = {}
  Null = Null
  Program <- Serving
  MaxTime = 2
CHECK_DEADLOCK FALSE
INVARIANTS
  TimersOwned
PROPERTIES
  WantedIsServed
  TimersServed
  ActionsRun
