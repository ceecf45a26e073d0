\* The sockets send while the timer asks; the main lcore hangs in its enqueue.
SPECIFICATION Spec
CONSTANTS
  m1 = m1
  m2 = m2
  m3 = m3
  Mbufs = {m1, m2}
  PoolSlots = 2
  Received = {}
  Swept = {"udp"}
  RING_SIZE = 3
  BURST_SIZE = 1
  TxSlots = 1
  Asked = 1
  Positions = 6
  MaxFrames = NULL
  NULL = NULL
PROPERTIES
  TimerReloads
CHECK_DEADLOCK FALSE
