\* readLoop reassembling four frames from every split of the byte stream.
CONSTANTS
    Frames <- MCFrames
    BufCap = 9
    Uint32s <- MCUint32s
SPECIFICATION Spec
INVARIANTS
    TypeOK
    FramesInOrder
    NoFrameLost
