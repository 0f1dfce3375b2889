SPECIFICATION Spec
CONSTANTS
    FrameLen = 3
    PlcMax = 3
    MaxRead = 4
    MaxSegments = 4
    Streams <- MCStreams
INVARIANT SyncInv
INVARIANT BytesConsumedOnce
INVARIANT IntactFramesDecoded
INVARIANT FadeOnlyDown
