\* A message that the stream delivers twice.
CONSTANTS
  Addr = {a}
  NoAddr = null
  InboundMsg = {m}
  RingSize = 2
  MaxClients = 1
SPECIFICATION InboundSpec
INVARIANT FiresOnce
CHECK_DEADLOCK FALSE
