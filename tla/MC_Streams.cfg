\* readLoop's STREAM routing against NewStream, SetNewStreamHandler, Close.
CONSTANTS
    Ids = {1, 2}
    Inbound <- MCInbound
SPECIFICATION Spec
INVARIANTS
    RegistryHoldsOpenStreams
    RegistryInv
PROPERTY
    HandlerStreamsClosed
    ImplementsRegistry
