SPECIFICATION Spec
CONSTANTS
    Keys = 2
    OneShot = {2}
    Delays = {0}
    Periods = {0, 2}
    DefaultDelay = 2
    DefaultPeriod = 1
    Modified = {TRUE, FALSE}
INVARIANTS
    TypeOK
    OneActivation
    NeverDeaf
    OncePerPress
PROPERTIES
    KeyIsTyped
    QuietAgain
