\* Two readers of one socket under the fairness of their loops, three datagrams, a ring of two slots.
SPECIFICATION Spec
CONSTANTS
  r1 = r1
  r2 = r2
  d1 = d1
  d2 = d2
  d3 = d3
  Receivers = {r1, r2}
  Datagrams = {d1, d2, d3}
  PktLcore = PktLcore
  NULL = NULL
  Size <- MCSize
  BufLen = 1
  Capacity = 2
INVARIANTS
  TypeOK
  MutexOwner
  NoLostWakeup
  Conservation
  FirstReadInOrder
PROPERTIES
  Delivery
  ImplementsQueue
