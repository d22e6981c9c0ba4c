SPECIFICATION Spec
CONSTANTS
    Programs <- MCPrograms
    SectNames = {"CODE", "DATA", "BSS"}
    Code = "CODE"
    Starts <- MCStarts
    Formats = {"binary", "dragondos", "coco", "srec", "hex"}
INVARIANTS
    TypeOK
    OverlapsAreReported
    FileLoadsCode
    OperandsAreReached
CHECK_DEADLOCK FALSE
