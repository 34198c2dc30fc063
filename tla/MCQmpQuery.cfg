\* Can a QueryState reply overwrite the state a later event has set?
\* One goroutine, QueryState only, one guest step.
CONSTANTS
    c1 = c1
    c2 = c2
    NULL = NULL
    Callers <- MCSoleCaller
    Starter <- MCStarter
    Ops = {"QueryState"}
    MaxCmd = 3
    EventCap = 1
    MaxGuest = 1
SPECIFICATION Spec
CHECK_DEADLOCK FALSE
PROPERTIES
    QueryStateNotStale
