\* One lcore makes all calls; three sockets of both types; allocations fail.
SPECIFICATION SafeSpec
CONSTANTS
  t1 = t1
  t2 = t2
  Threads = {t1}
  Calls = {"socket", "bind", "close"}
  Types = {"dgram", "stream"}
  Port <- OnePort
  SEND_NAME <- FreshSendNames
  RECEIVE_NAME <- FreshReceiveNames
  FIRST_FD = 6
  MAX_FD = 11
  MemoryRunsOut = TRUE
  RingsRunOut = TRUE
  MaxConns = 3
  NULL = NULL
INVARIANTS
  TypeOK
  FdExclusive
  FoundIsOwn
  LostOnlyBehindClosed
CHECK_DEADLOCK FALSE
