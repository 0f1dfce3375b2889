SPECIFICATION DSpec
CONSTANTS
    HeaderSize = 1
    FragmentHeader = 1
    MaxPayload = 3
    Byte = 4
    Short = 6
    Word = 5
    Lengths <- MCLengths
    ControlLengths <- MCControlLengths
    Window = 3
    MaxFrames = 7
    MaxControls = 1
INVARIANTS
    WireInv
    Reassembles
    SequenceTells
