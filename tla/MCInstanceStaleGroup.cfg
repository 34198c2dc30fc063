\* ForceStop of a spawned instance racing Wait: the guest powers off,
\* Wait reaps QEMU, then ForceStop signals the group -pid.
CONSTANTS
    c1 = c1
    c2 = c2
    Callers <- MCCallers
    Ops = {"Wait", "ForceStop"}
    Kinds = {"spawned"}
    MaxTicks = 2
    MaxGuest = 2
SPECIFICATION Spec
\* The program may stop: both calls have returned.
CHECK_DEADLOCK FALSE
INVARIANTS
    ForceStopSignalsOwnOnly
