\* The server echoes what an earlier datagram has left in its array.
SPECIFICATION SafeSpec
CONSTANTS
  a = a
  b = b
  Clients = {a, b}
  Texts <- MCTexts
  Bytes = {0, 1, 2}
  BUFFER_SIZE = 3
  Capacity = 2
  Idents = {0}
  MaxSent = 3
  MaxPings = 0
  NULL = NULL
INVARIANTS
  EchoHoldsOwnData
CHECK_DEADLOCK FALSE
