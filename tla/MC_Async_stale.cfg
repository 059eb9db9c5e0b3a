\* ReadPacket returns ConnectionClosed while close() has not yet moved the parsed packets to c.stalePackets.
CONSTANTS
  Inbound <- MCInbound
  Outbound <- MCOutbound
  MaxPings = 1
  WriteBufCap = 2
  IncomingCap = 2
  Faults = FALSE
SPECIFICATION Spec
INVARIANT ReaderClosedOnlyWhenDrained
