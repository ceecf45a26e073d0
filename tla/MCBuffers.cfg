\* Three buffers, rings and queues of one or two places: every one of them
\* runs full, and the positions of ring->out wrap.
SPECIFICATION SafeSpec
CONSTANTS
  m1 = m1
  m2 = m2
  m3 = m3
  Mbufs = {m1, m2, m3}
  PoolSlots = 4
  Received = {"answered", "rarp", "other"}
  Swept = {"arp", "udp"}
  RING_SIZE = 3
  BURST_SIZE = 1
  TxSlots = 1
  Asked = 2
  Positions = 6
  MaxFrames = 5
  NULL = NULL
SYMMETRY Perms
INVARIANTS
  TypeOK
  OneHolder
  SomeonePublishes
PROPERTIES
  KnownLeaks
  ImplementsQueue
CHECK_DEADLOCK FALSE
