CONSTANTS
    c1 = c1
    c2 = c2
    NoConn = NoConn
    Callers <- MCCallers
    Protocols <- MCProtocols
    Displays <- MCDisplays
    Clock <- MCClockDistinct
    Resolution = 1
SPECIFICATION Spec
INVARIANTS
    FdPendingMatchesCalls
PROPERTIES
    CallsReturn
CHECK_DEADLOCK FALSE
