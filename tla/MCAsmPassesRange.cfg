SPECIFICATION Spec
CONSTANTS
    Programs <- MCPrograms
    Names <- MCNames
    NoName = NoName
    Exec = ".exec"
    SectNames = {"CODE", "DATA", "BSS"}
    Code = "CODE"
    NoSect = NoSect
    Undef = Undef
    Defines <- MCDefines
    InitDP <- MCInitDP
    MaxPasses = 6
    Pages = 4
    Page = 8
    Reach = 4
CHECK_DEADLOCK FALSE
INVARIANT
    RangeOnlyIfConsistent
