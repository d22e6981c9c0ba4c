SPECIFICATION FairSpec
CONSTANTS
    Sources <- MCSources
    Files = {"main", "other"}
    Main = "main"
    Macros = {"m", "n"}
    SectNames = {"CODE", "DATA"}
    Code = "CODE"
    Labels = {"1"}
    NoName = NoName
    Undef = Undef
    MaxDepth = 3
    MaxPasses = 4
INVARIANTS
    TypeOK
    StacksMatch
    MacroIsItsText
    SteadyLocals
PROPERTIES
    Terminates
CHECK_DEADLOCK FALSE
