SPECIFICATION Spec
CONSTANTS
    t1 = t1
    t2 = t2
    Transports = {t1, t2}
    NoTransport = NoTransport
    RawFd = RawFd
    Direction = "Sink"
    MaxGen = 3
    RingCap = 2
SYMMETRY TransportSymmetry
INVARIANT IndInv
INVARIANT SingleBtThread
INVARIANT QuietWithoutEngine
INVARIANT NotRunningMeansFinished
INVARIANT OnlyNewestPlays
PROPERTY ImplementsService
