\* readLoop's Create replaces a stream the user opened with NewStream.
CONSTANTS
    Ids = {1, 2}
    Inbound <- MCInbound
SPECIFICATION Spec
INVARIANT UserStreamRegistered
