\* Every lifecycle method, concurrently, on every kind of instance.
CONSTANTS
    c1 = c1
    c2 = c2
    Callers <- MCCallers
    Ops = {"Stop", "ForceStop", "Quit", "Wait", "WaitContext"}
    Kinds = {"spawned", "pid", "socket"}
    MaxTicks = 2
    MaxGuest = 2
SPECIFICATION Spec
\* The program may stop: both calls have returned.
CHECK_DEADLOCK FALSE
INVARIANTS
    TypeOK
PROPERTIES
    StopReturns
    StopEndsQemu
    WaitReturnsOnceExited
