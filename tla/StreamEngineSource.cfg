SPECIFICATION IoSpec
CONSTANTS
    t1 = t1
    Transports = {t1}
    NoTransport = NoTransport
    RawFd = RawFd
    Direction = "Source"
    MaxGen = 2
    RingCap = 2
PROPERTY StopReturns
PROPERTY PlayedEndReported
