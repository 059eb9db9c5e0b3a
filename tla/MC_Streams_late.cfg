\* NewStream after close() registers a stream that is never closed.
CONSTANTS
    Ids = {1, 2}
    Inbound <- MCInbound
SPECIFICATION Spec
INVARIANT StreamsClosedAfterClose
