SPECIFICATION MSpec
CONSTANTS
    Subs = {s1, s2}
    Capacity = 2
    MaxMessages = 4
INVARIANTS
    MInv
    GapFree
PROPERTIES
    Delivered
    MidiStopReturns
