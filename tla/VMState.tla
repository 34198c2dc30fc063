------------------------------- MODULE VMState -------------------------------
(***************************************************************************)
(* The VM state model of qemuctl (src/state.go) and the event-to-state     *)
(* table of the QMP reader (QMP.handleEvent, src/unnamed/part_001).        *)
(* Pure operators, shared by the transport and the instance modules.       *)
(***************************************************************************)

\* The State enum (state.go: StateUnknown .. StatePrelaunch).
States == {"Unknown", "Running", "Paused", "Shutdown", "Crashed",
           "Suspended", "Prelaunch"}

\* State.IsAlive: running, paused, suspended or prelaunch.
IsAlive(s) == s \in {"Running", "Paused", "Suspended", "Prelaunch"}

\* The QMP status strings qemuctl can be handed by query-status; "debug"
\* stands for every string the switch does not name.
QMPStatuses == {"running", "paused", "shutdown", "suspended", "prelaunch",
                "inmigrate", "internal-error", "io-error", "debug"}

\* parseQMPStatus: the switch over the status string, default StateUnknown.
parseQMPStatus(status) ==
    CASE status = "running"                          -> "Running"
      [] status = "paused"                           -> "Paused"
      [] status = "shutdown"                         -> "Shutdown"
      [] status = "suspended"                        -> "Suspended"
      [] status \in {"prelaunch", "inmigrate"}       -> "Prelaunch"
      [] status \in {"internal-error", "io-error"}   -> "Crashed"
      [] OTHER                                       -> "Unknown"

\* The events handleEvent turns into a state; every other event name
\* (POWERDOWN stands for them) leaves the state alone.
StateEvents == {"SHUTDOWN", "RESET", "STOP", "RESUME", "SUSPEND", "WAKEUP"}
EventNames  == StateEvents \cup {"POWERDOWN"}

\* handleEvent: the new state an event announces.
EventState(name) ==
    CASE name = "SHUTDOWN"            -> "Shutdown"
      [] name \in {"RESET", "RESUME", "WAKEUP"} -> "Running"
      [] name = "STOP"                -> "Paused"
      [] name = "SUSPEND"             -> "Suspended"
=============================================================================
