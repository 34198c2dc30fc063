------------------------------- MODULE QmpCall -------------------------------
(***************************************************************************)
(* What QMP.ExecuteWithTimeout (src/unnamed/part_001) promises the         *)
(* goroutines that call it, with the transport left out: a call runs its   *)
(* command at most once; it returns a reply only after QEMU has run that   *)
(* command, and the reply reports the run state QEMU had when it ran it;   *)
(* every other return is an error, after which the command may still be   *)
(* queued at QEMU and run later for nobody. Qmp implements this            *)
(* specification (Qmp!ImplementsQmpCall).                                  *)
(***************************************************************************)
EXTENDS Naturals, Bags, BagsExt

CONSTANTS
    Callers,    \* goroutines calling Execute
    Cmds,       \* the QMP commands they send
    VmStates    \* the run states query-status reports

VARIABLES
    vm,         \* the run state QEMU would report
    alive,      \* QEMU is running and reading commands
    call,       \* per caller: "idle", "busy", "ran" (QEMU ran the command
                \* and answered) or "done" (Execute has returned)
    cmd,        \* the command of the caller's current call, or "none"
    result,     \* what Execute returned: "none", "reply" or "error"
    status,     \* the run state QEMU's answer reported, or "none"
    orphans     \* bag of commands of calls that returned an error while
                \* the command still waited at QEMU

vars == <<vm, alive, call, cmd, result, status, orphans>>

\* The run-state changes the guest makes by itself (no command).
GuestMoves == {<<"running", "suspended">>, <<"suspended", "running">>,
               <<"running", "shutdown">>, <<"paused", "shutdown">>}

Init ==
    /\ vm = "running"
    /\ alive = TRUE
    /\ call = [c \in Callers |-> "idle"]
    /\ cmd = [c \in Callers |-> "none"]
    /\ result = [c \in Callers |-> "none"]
    /\ status = [c \in Callers |-> "none"]
    /\ orphans = EmptyBag

\* A goroutine calls Execute with one of the commands.
Invoke(c) ==
    /\ call[c] = "idle"
    /\ call' = [call EXCEPT ![c] = "busy"]
    /\ \E x \in Cmds : cmd' = [cmd EXCEPT ![c] = x]
    /\ UNCHANGED <<vm, alive, result, status, orphans>>

\* QEMU runs the call's command: the answer reports the state before it;
\* the command may change the state.
Run(c) ==
    /\ alive
    /\ call[c] = "busy"
    /\ call' = [call EXCEPT ![c] = "ran"]
    /\ status' = [status EXCEPT ![c] = vm]
    /\ vm' \in VmStates
    /\ UNCHANGED <<alive, cmd, result, orphans>>

\* QEMU runs a command whose call has already returned.
RunOrphan ==
    /\ alive
    /\ \E x \in BagToSet(orphans) : orphans' = BagRemove(orphans, x)
    /\ vm' \in VmStates
    /\ UNCHANGED <<alive, call, cmd, result, status>>

\* The guest changes state, or QEMU exits or dies.
Guest ==
    /\ alive
    /\ <<vm, vm'>> \in GuestMoves
    /\ UNCHANGED <<alive, call, cmd, result, status, orphans>>

Exit ==
    /\ alive
    /\ alive' = FALSE
    /\ UNCHANGED <<vm, call, cmd, result, status, orphans>>

\* Execute returns QEMU's answer.
ReturnReply(c) ==
    /\ call[c] = "ran"
    /\ call' = [call EXCEPT ![c] = "done"]
    /\ result' = [result EXCEPT ![c] = "reply"]
    /\ UNCHANGED <<vm, alive, cmd, status, orphans>>

\* Execute returns an error (closed, write error, timeout); a command not
\* yet run may have been written and stay queued at QEMU.
ReturnError(c) ==
    /\ call[c] \in {"busy", "ran"}
    /\ call' = [call EXCEPT ![c] = "done"]
    /\ result' = [result EXCEPT ![c] = "error"]
    /\ status' = [status EXCEPT ![c] = "none"]
    /\ \/ UNCHANGED orphans
       \/ call[c] = "busy" /\ orphans' = BagAdd(orphans, cmd[c])
    /\ UNCHANGED <<vm, alive, cmd>>

Return(c) == ReturnReply(c) \/ ReturnError(c)

\* The method that called Execute is done with the result.
Finish(c) ==
    /\ call[c] = "done"
    /\ call' = [call EXCEPT ![c] = "idle"]
    /\ cmd' = [cmd EXCEPT ![c] = "none"]
    /\ result' = [result EXCEPT ![c] = "none"]
    /\ status' = [status EXCEPT ![c] = "none"]
    /\ UNCHANGED <<vm, alive, orphans>>

Next ==
    \/ \E c \in Callers : Invoke(c) \/ Run(c) \/ Return(c) \/ Finish(c)
    \/ RunOrphan \/ Guest \/ Exit

\* The safety half of the contract; that every call returns is stated on
\* Qmp itself (ExecuteReturns).
Spec == Init /\ [][Next]_vars
=============================================================================
