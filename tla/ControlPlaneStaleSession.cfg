SPECIFICATION CPSpec
CONSTANTS
    t1 = t1
    d1 = d1
    c1 = c1
    Transports = {t1}
    NoTransport = NoTransport
    RawFd = RawFd
    Direction = "Sink"
    MaxGen = 1
    RingCap = 1
    Devices = {d1}
    NoDevice = NoDevice
    Configs = {c1}
    NoConfig = NoConfig
    DefaultConfig = DefaultConfig
    MaxQueue = 3
    MaxSignals = 2
INVARIANT EndedStreamCleanedUp
