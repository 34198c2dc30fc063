\* A StartContext and a StartVMContext for differently named VMs, with
\* stale sockets, cancellation, QEMU exiting at any point and Stop; the
\* first VM has an HMP monitor chardev in cfg.ExtraArgs, the second a
\* serial socket and an HMP monitor in VMConfig.Chardevs, and an
\* AttachByPIDContext is given the second one's pid (the AttachContext it
\* ends in is that attacher's).
CONSTANTS
    s1 = s1
    s2 = s2
    a1 = a1
    p1 = p1
    NoQemu = NoQemu
    Stale = Stale
    Starters <- MCStarters
    Attachers <- MCNoAttachers
    Name <- MCNameTwo
    MaxTicks = 2
    PidAttachers <- MCPidAttachers
    Target <- MCTarget
    ExtraArgs <- MCExtraArgs
    Starts <- MCStarts
    Serials <- MCSerials
    Chardevs <- MCChardevs
SPECIFICATION Spec
\* The program may stop: every call has returned and nothing else is called.
CHECK_DEADLOCK FALSE
INVARIANTS
    TypeOK
    FailedStartKillsQemu
    AttachByPidFindsTarget
PROPERTIES
    CallsReturnUnlessMonitorHeld
