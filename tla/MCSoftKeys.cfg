SPECIFICATION Spec
CONSTANTS
    Keys = 3
    Page = 8
    Char = {4, 7}
INVARIANTS
    TypeOK
    StringsKept
    ExpansionIsString
CONSTRAINT
    Unspoilt
