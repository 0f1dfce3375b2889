SPECIFICATION CPSpec
CONSTANTS
    t1 = t1
    t2 = t2
    d1 = d1
    c1 = c1
    c2 = c2
    Transports = {t1, t2}
    NoTransport = NoTransport
    RawFd = RawFd
    Direction = "Sink"
    MaxGen = 2
    RingCap = 1
    Devices = {d1}
    NoDevice = NoDevice
    Configs = {c1, c2}
    NoConfig = NoConfig
    DefaultConfig = DefaultConfig
    MaxQueue = 3
    MaxSignals = 2
SYMMETRY CPSymmetry
INVARIANT DaemonInv
INVARIANT NoOrphanStream
INVARIANT StreamUsesNegotiatedConfig
INVARIANT SessionNamesStream
