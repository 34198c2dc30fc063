\* StartContext's QueryState, a user QueryState and the eventLoop, while
\* the VM changes runstate twice.
CONSTANTS
    u1 = u1
    Users <- MCUsers
    MaxGuestOps = 2
SPECIFICATION Spec
\* The program may stop: QEMU, the eventLoop and every call are idle.
CHECK_DEADLOCK FALSE
INVARIANTS
    LastNotifiedIsCurrent
