SPECIFICATION CPSpec
CONSTANTS
    t1 = t1
    t2 = t2
    d1 = d1
    Transports = {t1, t2}
    NoTransport = NoTransport
    RawFd = RawFd
    Direction = "Sink"
    MaxGen = 2
    RingCap = 1
    Devices = {d1}
    NoDevice = NoDevice
    Configs = {}
    NoConfig = NoConfig
    DefaultConfig = DefaultConfig
    MaxQueue = 2
    MaxSignals = 1
PROPERTY LoopReturns
PROPERTY ClearedStreamEnds
