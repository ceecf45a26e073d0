\* All four kinds of frames, two hosts that change their MAC: the table stays
\* sound, and every host is learnt for good.
SPECIFICATION Spec
CONSTANTS
  m1 = m1
  m2 = m2
  Hosts = {2, 3}
  LOCAL_IP = 1
  LAST_HOST = 3
  Macs = {m1, m2}
  HostMac <- TwoHosts
  BROADCAST = BROADCAST
  ZERO = ZERO
  Chatter = {"request", "reply", "revrequest", "revreply"}
  InFlight = 1
  MaxNodes = 2
INVARIANTS
  TypeOK
  NoDuplicates
  TimerPointer
PROPERTIES
  MappingsStay
  ImplementsTable
  HostsLearnt
