SPECIFICATION Spec
CONSTANTS
    Sources <- Inclusions
    Files = {"main", "other"}
    Main = "main"
    Macros = {"m", "n"}
    SectNames = {"CODE", "DATA"}
    Code = "CODE"
    Labels = {"1"}
    NoName = NoName
    Undef = Undef
    MaxDepth = 3
    MaxPasses = 4
INVARIANTS
    OnlyTheTopIsFreed
CHECK_DEADLOCK FALSE
