SPECIFICATION Spec
CONSTANTS
    Bytes = 2
    Radix = 2
    TimerValues <- AllTimerValues
    Limits <- AllLimits
INVARIANT
    TypeOK
PROPERTIES
    ImplementsClock
    TicksAreCounted
    EventOnTime
    InkeyReturns
