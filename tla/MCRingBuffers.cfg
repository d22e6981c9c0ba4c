SPECIFICATION Spec
CONSTANTS
    Buffer = {0, 4}
    Input = {0}
    Char = {a, b}
    Offs <- MCOffs
    Cpu = "6809"
    NoChar = NoChar
    NoEvent = NoEvent
INVARIANTS
    TypeOK
    CountsBalance
PROPERTY
    ImplementsQueues
