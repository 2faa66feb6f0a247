SPECIFICATION Spec
CONSTANTS
  Bits = 4
  ByteBits = 2
  Names <- ProtocolNames
  Timeouts = {15000, 50000}
  Jitter = 100
  MaxNoisy = 1
INVARIANTS
  TypeOK
  RoundTrip
  NeverOther
  StaleUnread
CHECK_DEADLOCK FALSE
