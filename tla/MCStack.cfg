\* Two servers make all calls at once, while the packet lcore looks up
\* datagrams for one of them and sweeps over the sockets.  The creation of a ring
\* may fail, after which nobody gets a socket any more.
SPECIFICATION StackSpec
CONSTANTS
  t1 = t1
  t2 = t2
  Threads = {t1, t2}
  Servers <- TwoServers
  Destinations = {9999}
  Calls = {"socket", "bind", "close"}
  Types = {"dgram"}
  Port <- TwoPorts
  SEND_NAME <- FreshSendNames
  RECEIVE_NAME <- FreshReceiveNames
  FIRST_FD = 3
  MAX_FD = 7
  MemoryRunsOut = FALSE
  RingsRunOut = TRUE
  MaxConns = 2
  NULL = NULL
INVARIANTS
  StackTypeOK
  ListEnds
  MissesOnlyBehindClosed
PROPERTIES
  SocketReturns
  WalksReturn
CHECK_DEADLOCK FALSE
