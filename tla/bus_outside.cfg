SPECIFICATION Spec
CONSTANTS
  Thread = {t1,t2}
  Listener = {l1, l2}
  Name = {c1,c2}
  Chan = {k1, k2, k3}
  Mbx = {m1, m2, m3}
  Null = Null
  MaxCalls = 5
  OutsideCalls <- PubSub
  CallbackCalls <- NoCalls
INVARIANTS
  CalledAreListed
  SubscriptionsHonoured
  GoneIsQuiet
