\* hz_close of a socket that is not the youngest leaves it linked.
SPECIFICATION SafeSpec
CONSTANTS
  t1 = t1
  t2 = t2
  Threads = {t1}
  Calls = {"socket", "bind", "close"}
  Types = {"dgram"}
  Port <- OnePort
  SEND_NAME <- FreshSendNames
  RECEIVE_NAME <- FreshReceiveNames
  FIRST_FD = 3
  MAX_FD = 11
  MemoryRunsOut = FALSE
  RingsRunOut = FALSE
  MaxConns = 3
  NULL = NULL
INVARIANTS
  CloseRemoves
CHECK_DEADLOCK FALSE
