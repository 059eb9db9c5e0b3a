\* A write failure inside pingLoop or readLoop: close() waits on the goroutine running it. Deadlock is not checked so that TLC reports the stuck close as a violation of CloseCompletes.
CONSTANTS
  Inbound <- MCInboundTwo
  Outbound <- MCOutbound
  MaxPings = 1
  WriteBufCap = 2
  IncomingCap = 2
  Faults = TRUE
SPECIFICATION Spec
PROPERTY CloseCompletes
CHECK_DEADLOCK FALSE
