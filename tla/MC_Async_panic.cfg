\* A writePacket racing close() sends on the closed c.flushCh.
CONSTANTS
  Inbound <- MCInbound
  Outbound <- MCOutbound
  MaxPings = 1
  WriteBufCap = 2
  IncomingCap = 2
  Faults = FALSE
SPECIFICATION Spec
INVARIANT NoSendOnClosedChannel
