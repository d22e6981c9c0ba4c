SPECIFICATION Spec
CONSTANTS
    Channels = 2
    Room = 3
    SubTicks = 1
    Radix = 4
    Notes <- ChordNotes
    BellNote <- Single
    Forced = {FALSE}
INVARIANTS
    ChordTogether
    CountHasHolder
PROPERTIES
    SoundReturns
    ChordBegins
