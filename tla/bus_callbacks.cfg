SPECIFICATION Spec
CONSTANTS
  Thread = {t1}
  Listener = {l1, l2}
  Name = {c1,c2}
  Chan = {k1, k2, k3}
  Mbx = {m1, m2, m3}
  Null = Null
  MaxCalls = 4
  OutsideCalls <- EveryCall
  CallbackCalls <- QueuedCalls
INVARIANTS
  TypeOK
  NoEmptyChannelLeft
  DisabledMailboxRemoved
  NoWaitCycle
  PostedOrder
PROPERTIES
  OnlyDisabledRemoved
  QueuesDrain
