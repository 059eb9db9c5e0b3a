\* Close completes and buffered bytes are flushed, no socket faults.
CONSTANTS
  Inbound <- MCInboundOne
  Outbound <- MCOutbound
  MaxPings = 1
  WriteBufCap = 2
  IncomingCap = 2
  Faults = FALSE
SPECIFICATION Spec
PROPERTIES CloseCompletes FlushProgress
