\* The older socket waits for ever behind an empty younger one.
SPECIFICATION Spec
CONSTANTS
  d1 = d1
  d2 = d2
  d3 = d3
  d4 = d4
  a = a
  b = b
  c = c
  NumSockets = 2
  Datagrams = {d1, d2, d3, d4}
  Socket <- MCSocket
  Addresses = {a, b}
  Dst <- MCDst
  Resolved = {a}
  Capacity = 3
  OutCapacity = 3
  Burst = 2
  Noise = Noise
  NULL = NULL
PROPERTIES
  AllServed
