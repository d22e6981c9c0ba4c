SPECIFICATION Spec
CONSTANTS
    Channels = 2
    Room = 3
    SubTicks = 1
    Radix = 4
    Notes <- MixedNotes
    BellNote <- Single
    Forced = {FALSE, TRUE}
INVARIANTS
    TypeOK
    WholeNotes
    NoStrandedNote
    DormantIsSilent
