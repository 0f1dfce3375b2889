SPECIFICATION VSSpec
CONSTANTS
    t1 = t1
    t2 = t2
    Transports = {t1, t2}
    NoTransport = NoTransport
    RawFd = RawFd
    Direction = "Sink"
    MaxGen = 2
    RingCap = 1
    MaxVolume = 1
    Word = 3
    VolumeStep = 1
    Requests = {0, 2, 3}
    NoVolume = NoVolume
    MaxNotices = 2
SYMMETRY VolumeSymmetry
INVARIANT VSInv
INVARIANT OffVolumeOnlyWhileStarting
INVARIANT VolumesConverge
