SPECIFICATION Spec
CONSTANTS
  l1 = l1
  l2 = l2
  l3 = l3
  Thread = {t1, t2}
  Listener = {l1, l2, l3}
  Home <- OneAndTwo
  Chan = {c}
  Group = {g}
  Bridge = Bridge
  Null = Null
  Early = {l1}
  ConnectAlone = TRUE
  Calls <- LockedCalls
  MaxCalls = 3
CHECK_DEADLOCK FALSE
INVARIANTS
  SidesAgree
  ForwardedIsKnown
