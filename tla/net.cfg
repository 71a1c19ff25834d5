SPECIFICATION Spec
CONSTANTS
  Worker = {w1, w2}
  p1 = p1
  p2 = p2
  Peer = {s, p1, p2}
  Server = {s}
  Pipe = {p2}
  Null = Null
  Program <- Sharing
  MaxTime = 0
SYMMETRY Alike
CHECK_DEADLOCK FALSE
INVARIANTS
  TypeOK
  FreeListSound
  GoneIsSilent
