SPECIFICATION Spec
CONSTANTS
    Channels = 2
    FrameSamples = 4
    Capacity = 9
    Requests = {2, 4, 6}
    MaxFrames = 7
INVARIANT HandOverInv
INVARIANT WithinCapacity
INVARIANT ReadChunkGranted
INVARIANT CountersAligned
INVARIANT InOrder
INVARIANT ChannelsAligned
