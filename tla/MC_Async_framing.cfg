\* A PING or PONG header written between a packet's header and its content.
CONSTANTS
  Inbound <- MCInbound
  Outbound <- MCOutbound
  MaxPings = 1
  WriteBufCap = 2
  IncomingCap = 2
  Faults = FALSE
SPECIFICATION Spec
INVARIANT WireFramed
