\* Packet conservation and the packet channel refinement across close, on the
\* larger instance, no socket faults.  A queue of one packet, so readLoop's
\* second push can find c.incoming full and close the connection.
CONSTANTS
  Inbound <- MCInbound
  Outbound <- MCOutbound
  MaxPings = 1
  WriteBufCap = 2
  IncomingCap = 1
  Faults = FALSE
SPECIFICATION Spec
INVARIANTS PacketConservation ConservationInv
PROPERTY ImplementsChannel
