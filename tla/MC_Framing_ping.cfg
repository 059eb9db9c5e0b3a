\* A PING frame carrying a payload: readLoop does not consume it.
CONSTANTS
    Frames <- MCFramesPingPayload
    BufCap = 9
    Uint32s <- MCUint32s
SPECIFICATION Spec
INVARIANT FramesInOrder
