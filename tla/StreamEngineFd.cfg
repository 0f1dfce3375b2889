SPECIFICATION Spec
CONSTANTS
    t1 = t1
    Transports = {t1}
    NoTransport = NoTransport
    RawFd = RawFd
    Direction = "Sink"
    MaxGen = 1
    RingCap = 1
INVARIANT IoOnOpenFd
