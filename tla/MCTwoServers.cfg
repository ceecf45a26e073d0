\* The two echo servers start at once.
SPECIFICATION SafeSpec
CONSTANTS
  t1 = t1
  t2 = t2
  Threads = {t1, t2}
  Calls = {"socket", "bind"}
  Types = {"dgram"}
  Port <- TwoPorts
  SEND_NAME <- FreshSendNames
  RECEIVE_NAME <- FreshReceiveNames
  FIRST_FD = 3
  MAX_FD = 11
  MemoryRunsOut = FALSE
  RingsRunOut = FALSE
  MaxConns = 2
  NULL = NULL
INVARIANTS
  BindsOwnSocket
CHECK_DEADLOCK FALSE
