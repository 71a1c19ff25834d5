SPECIFICATION Spec
CONSTANTS
  Broker = {1, 2}
  Link = {"a", "b"}
  Client <- TwiceClient
  Server <- TwiceServer
  Chan = {c1}
  MaxCalls = 2
  MaxLosses = 1
CHECK_DEADLOCK FALSE
INVARIANTS
  OnePath
  AllReached
