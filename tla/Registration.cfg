SPECIFICATION RSpec
CONSTANTS
    SafeBitpool = 53
    XqBitpool = 76
    XqMinor = 64
    NoVersion = NoVersion
    Adapters = {a0, a1}
    Hci0 = a0
    NoAdapter = NoAdapter
    Environments <- MCEnvironments
    Peers <- MCPeers
    MaxConns = 2
    MaxTrack = 2
INVARIANTS
    RInv
    NoHalfRegistration
    ScmsTAsRegistered
    SecondReadNotOlder
    NegotiationSound
PROPERTIES
    ShutdownForgets
