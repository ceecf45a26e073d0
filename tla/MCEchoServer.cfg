\* Two clients, three frames, a buffer of three bytes; pings with words whose
\* sums carry in different ways.
SPECIFICATION SafeSpec
CONSTANTS
  a = a
  b = b
  Clients = {a, b}
  Texts <- MCTexts
  Bytes = {0, 1, 2}
  BUFFER_SIZE = 3
  Capacity = 2
  Idents = {0, 1, 255, 256, 4660, 65280, 65534, 65535}
  MaxSent = 3
  MaxPings = 1
  NULL = NULL
INVARIANTS
  TypeOK
  EchoAnswersRead
  EchoLengths
  PingsVerify
CHECK_DEADLOCK FALSE
