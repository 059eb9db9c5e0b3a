\* Packet conservation when the socket may fail.  Deadlock is not checked:
\* a write failure inside pingLoop or readLoop makes close() wait on the
\* goroutine running it (run async_close_deadlock), and the process stops.
CONSTANTS
  Inbound <- MCInboundTwo
  Outbound <- MCOutbound
  MaxPings = 1
  WriteBufCap = 2
  IncomingCap = 2
  Faults = TRUE
SPECIFICATION Spec
INVARIANT PacketConservation
PROPERTY ErrorStoredOnce
CHECK_DEADLOCK FALSE
