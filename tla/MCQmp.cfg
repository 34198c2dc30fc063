\* Transport safety and progress with QueryState, Continue, Pause and Reset
\* called concurrently with StartContext's initial QueryState.
CONSTANTS
    c1 = c1
    c2 = c2
    NULL = NULL
    Callers <- MCCallers
    Starter <- MCStarter
    Ops = {"QueryState", "Continue", "Pause", "Reset"}
    MaxCmd = 4
    EventCap = 1
    MaxGuest = 1
SPECIFICATION Spec
\* The program may stop: QEMU has exited and no caller calls again.
CHECK_DEADLOCK FALSE
INVARIANTS
    TypeOK
    ReplyCorrelation
    PendingMatchesCalls
PROPERTIES
    ExecuteReturns
    ImplementsQmpCall
