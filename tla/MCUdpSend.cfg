\* Two sockets, rings that fill up, an ARP table that may be emptied.
SPECIFICATION Spec
CONSTANTS
  d1 = d1
  d2 = d2
  d3 = d3
  d4 = d4
  a = a
  b = b
  c = c
  NumSockets = 2
  Datagrams = {d1, d2, d3, d4}
  Socket <- MCSocket
  Addresses = {a, b, c}
  Dst <- MCDst
  Resolved = {a}
  Capacity = 2
  OutCapacity = 2
  Burst = 2
  Noise = Noise
  NULL = NULL
INVARIANTS
  TypeOK
  OnePlace
  ResolvedInOrder
PROPERTIES
  YoungestServed
