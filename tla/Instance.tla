------------------------------- MODULE Instance -------------------------------
(***************************************************************************)
(* The lifecycle of an Instance (src/instance.go): Stop, ForceStop, Quit   *)
(* and Wait called from concurrent goroutines, the cleanup they share, the *)
(* QMP eventLoop still applying events while the transport is closed, and  *)
(* the QEMU process, which may exit, crash, be killed, linger as a zombie  *)
(* until reaped, and be reaped by us (a child we spawned) or by its own    *)
(* parent (a process attached by pid).                                     *)
(*                                                                         *)
(* An instance is of one of three kinds:                                   *)
(*   "spawned" - StartContext: i.process = cmd.Process, i.pid = 0;         *)
(*   "pid"     - AttachByPIDContext: i.process = os.FindProcess(pid) (it   *)
(*               never fails on Unix) and i.pid = pid, not our child;      *)
(*   "socket"  - AttachContext: no process and pid 0.                      *)
(*                                                                         *)
(* QMP.Execute is one step whose result is a reply or an error (timeout,   *)
(* closed connection, write error); module Qmp checks how it gets there.   *)
(***************************************************************************)
EXTENDS Integers, Sequences, FiniteSets, VMState

CONSTANTS
    Callers,    \* goroutines calling lifecycle methods, one call each
    Ops,        \* the methods they may call
    Kinds,      \* the kinds of instance to check
    MaxTicks,   \* ticks of Stop's 100 ms ticker before its loop gives up
    MaxGuest    \* bound on guest-initiated reboots and power-offs

ASSUME /\ Ops \subseteq {"Stop", "ForceStop", "Quit", "Wait", "WaitContext"}
       /\ Kinds \subseteq {"spawned", "pid", "socket"}
       /\ MaxTicks \in Nat \ {0} /\ MaxGuest \in Nat

VARIABLES
    kind,       \* how the instance was made
    vm,         \* "running" or "shutdown" (the guest has powered off)
    qemuAlive,  \* the QEMU process has not exited
    reaped,     \* its exit status has been collected: the pid is free
    guestSteps, \* guest reboots and power-offs so far
    events,     \* state events QEMU has written and the eventLoop not read
    rd,         \* eventLoop: "read", "dispatch" (holds rdEv) or "exited"
    rdEv,       \* the event the eventLoop is dispatching
    conn,       \* q.conn != nil: the transport is open
    instQmp,    \* i.qmp != nil
    state,      \* i.state
    sock,       \* the socket file exists at i.socketPath
    signalled,  \* SIGKILLs sent: "group" (-pid), "stale-group" (-pid once
                \* reaped), "pid"
    cleaned,    \* cleanup has run
    pc, op, ticks, sawExit, res,
    detached    \* WaitContext returned ctx.Err(); its goroutine still waits

qemuVars   == <<vm, qemuAlive, reaped, guestSteps, events>>
loopVars   == <<rd, rdEv>>
instVars   == <<conn, instQmp, state, sock, signalled, cleaned>>
callerVars == <<pc, op, detached, ticks, sawExit, res>>
vars == <<kind, qemuVars, loopVars, instVars, callerVars>>

Pcs == {"idle", "powerdown", "poll", "sleep", "force", "quit", "wait", "done"}
Results == {"none", "nil", "err", "timeout"}

-----------------------------------------------------------------------------
(* Helpers.                                                                *)

\* Mutant of isProcessAlive: without the "else return false" for no pid,
\* kill(0, 0) probes our own process group and succeeds.
isProcessAliveNoPid == ~reaped

\* isProcessAlive: kill(pid, 0) on i.process.Pid, else on i.pid, else
\* false. The probe succeeds until the pid is reaped: a zombie answers.
isProcessAlive == kind # "socket" /\ ~reaped

\* cleanup: under qmpMu close the transport and nil i.qmp, publish
\* StateShutdown, and remove the socket file (socketPath is always set).
cleanup ==
    /\ conn' = FALSE
    /\ instQmp' = FALSE
    /\ state' = "Shutdown"
    /\ sock' = FALSE
    /\ cleaned' = TRUE

\* Return from the method with result r.
\* For a WaitContext left by its caller, the goroutine's send on the
\* buffered done channel ends it; nobody reads the result.
Return(c, r) ==
    /\ pc' = [pc EXCEPT ![c] = "done"]
    /\ res' = [res EXCEPT ![c] = IF detached[c] THEN @ ELSE r]

-----------------------------------------------------------------------------
(* QEMU and the guest.                                                     *)

\* The guest reboots: QEMU reports RESET.
GuestReboot ==
    /\ qemuAlive /\ vm = "running" /\ guestSteps < MaxGuest
    /\ events' = Append(events, "RESET")
    /\ guestSteps' = guestSteps + 1
    /\ UNCHANGED <<kind, vm, qemuAlive, reaped, loopVars, instVars, callerVars>>

\* The guest powers off (on its own or on the ACPI request): SHUTDOWN.
GuestShutdown ==
    /\ qemuAlive /\ vm = "running" /\ guestSteps < MaxGuest
    /\ vm' = "shutdown"
    /\ events' = Append(events, "SHUTDOWN")
    /\ guestSteps' = guestSteps + 1
    /\ UNCHANGED <<kind, qemuAlive, reaped, loopVars, instVars, callerVars>>

\* QEMU exits once the guest is off; it leaves a zombie until reaped.
QemuExit ==
    /\ qemuAlive /\ vm = "shutdown"
    /\ qemuAlive' = FALSE
    /\ UNCHANGED <<kind, vm, reaped, guestSteps, events, loopVars, instVars,
                   callerVars>>

QemuCrash ==
    /\ qemuAlive
    /\ qemuAlive' = FALSE
    /\ UNCHANGED <<kind, vm, reaped, guestSteps, events, loopVars, instVars,
                   callerVars>>

\* A process attached by pid is reaped by its own parent.
ExternalReap ==
    /\ kind = "pid" /\ ~qemuAlive /\ ~reaped
    /\ reaped' = TRUE
    /\ UNCHANGED <<kind, vm, qemuAlive, guestSteps, events, loopVars, instVars,
                   callerVars>>

-----------------------------------------------------------------------------
(* The eventLoop: a line is read, then handleEvent calls setState through  *)
(* the callback. A line read before Close is still dispatched after it.   *)

ReadEvent ==
    /\ rd = "read" /\ conn /\ events # <<>>
    /\ rdEv' = Head(events)
    /\ events' = Tail(events)
    /\ rd' = "dispatch"
    /\ UNCHANGED <<kind, vm, qemuAlive, reaped, guestSteps, instVars, callerVars>>

DispatchEvent ==
    /\ rd = "dispatch"
    /\ state' = EventState(rdEv)
    /\ rd' = "read"
    /\ rdEv' = "none"
    /\ UNCHANGED <<kind, qemuVars, conn, instQmp, sock, signalled, cleaned,
                   callerVars>>

\* ReadBytes fails: Close, or EOF once QEMU is gone and its output read.
ReadFail ==
    /\ rd = "read"
    /\ ~conn \/ (~qemuAlive /\ events = <<>>)
    /\ rd' = "exited"
    /\ UNCHANGED <<kind, qemuVars, rdEv, instVars, callerVars>>

-----------------------------------------------------------------------------
(* Method entry: each reads i.qmp under qmpMu.                             *)

\* Stop without a transport behaves as ForceStop; Quit without one returns
\* "not connected"; ForceStop and Wait do not look.
Begin(c, o) ==
    /\ pc[c] = "idle"
    /\ op' = [op EXCEPT ![c] = o]
    /\ CASE o = "Stop" ->
              /\ pc' = [pc EXCEPT ![c] = IF instQmp THEN "powerdown" ELSE "force"]
              /\ res' = [res EXCEPT ![c] = IF instQmp THEN "none" ELSE "nil"]
         [] o = "ForceStop" ->
              /\ pc' = [pc EXCEPT ![c] = "force"]
              /\ res' = [res EXCEPT ![c] = "nil"]
         [] o = "Quit" ->
              IF instQmp THEN /\ pc' = [pc EXCEPT ![c] = "quit"]
                              /\ UNCHANGED res
                         ELSE Return(c, "err")
         \* WaitContext starts a goroutine running Wait and selects on it
         [] o \in {"Wait", "WaitContext"} ->
              /\ pc' = [pc EXCEPT ![c] = "wait"]
              /\ UNCHANGED res
    /\ UNCHANGED <<kind, qemuVars, loopVars, instVars, ticks, sawExit, detached>>

-----------------------------------------------------------------------------
(* StopContext.                                                            *)

\* Execute("system_powerdown") returns a reply: QEMU is there to answer.
PowerdownReply(c) ==
    /\ pc[c] = "powerdown"
    /\ conn /\ qemuAlive
    /\ pc' = [pc EXCEPT ![c] = "poll"]
    /\ UNCHANGED <<kind, qemuVars, loopVars, instVars, op, detached, ticks, sawExit, res>>

\* It fails (timeout, closed, write error): ForceStop, return the error.
PowerdownErr(c) ==
    /\ pc[c] = "powerdown"
    /\ pc' = [pc EXCEPT ![c] = "force"]
    /\ res' = [res EXCEPT ![c] = "err"]
    /\ UNCHANGED <<kind, qemuVars, loopVars, instVars, op, detached, ticks, sawExit>>

\* Mutant of Poll: the deadline test lets one tick too many through.
PollPastDeadline(c) ==
    /\ pc[c] = "poll"
    /\ ticks[c] <= MaxTicks
    /\ sawExit' = [sawExit EXCEPT ![c] = sawExit[c] \/ ~qemuAlive]
    /\ IF ~isProcessAlive
          THEN cleanup /\ Return(c, "nil") /\ UNCHANGED <<signalled, ticks>>
       ELSE IF state = "Shutdown"
          THEN /\ pc' = [pc EXCEPT ![c] = "sleep"]
               /\ UNCHANGED <<instVars, res, ticks>>
          ELSE /\ ticks' = [ticks EXCEPT ![c] = ticks[c] + 1]
               /\ UNCHANGED <<instVars, pc, res>>
    /\ UNCHANGED <<kind, qemuVars, loopVars, op, detached>>

\* A tick of the ticker before the deadline: the process probe, then the
\* observed state. sawExit records that a probe ran after QEMU exited.
Poll(c) ==
    /\ pc[c] = "poll"
    /\ ticks[c] < MaxTicks
    /\ sawExit' = [sawExit EXCEPT ![c] = sawExit[c] \/ ~qemuAlive]
    /\ IF ~isProcessAlive
          THEN cleanup /\ Return(c, "nil") /\ UNCHANGED <<signalled, ticks>>
       ELSE IF state = "Shutdown"
          THEN /\ pc' = [pc EXCEPT ![c] = "sleep"]
               /\ UNCHANGED <<instVars, res, ticks>>
          ELSE /\ ticks' = [ticks EXCEPT ![c] = ticks[c] + 1]
               /\ UNCHANGED <<instVars, pc, res>>
    /\ UNCHANGED <<kind, qemuVars, loopVars, op, detached>>

\* Mutant of Sleep: the 500 ms sleep is not counted against the deadline.
SleepUncounted(c) ==
    /\ pc[c] = "sleep"
    /\ sawExit' = [sawExit EXCEPT ![c] = sawExit[c] \/ ~qemuAlive]
    /\ IF ~isProcessAlive
          THEN cleanup /\ Return(c, "nil") /\ UNCHANGED signalled
          ELSE /\ pc' = [pc EXCEPT ![c] = "poll"]
               /\ UNCHANGED <<instVars, res>>
    /\ UNCHANGED <<kind, qemuVars, loopVars, op, detached, ticks>>

\* After the state showed Shutdown: sleep 500 ms (one tick), probe again.
Sleep(c) ==
    /\ pc[c] = "sleep"
    /\ ticks' = [ticks EXCEPT ![c] = ticks[c] + 1]
    /\ sawExit' = [sawExit EXCEPT ![c] = sawExit[c] \/ ~qemuAlive]
    /\ IF ~isProcessAlive
          THEN cleanup /\ Return(c, "nil") /\ UNCHANGED signalled
          ELSE /\ pc' = [pc EXCEPT ![c] = "poll"]
               /\ UNCHANGED <<instVars, res>>
    /\ UNCHANGED <<kind, qemuVars, loopVars, op, detached>>

\* The deadline passes (at any iteration: the timeout is the caller's, the
\* ticks are a bound): ForceStop, "graceful shutdown timed out".
StopDeadline(c) ==
    /\ pc[c] = "poll"
    /\ pc' = [pc EXCEPT ![c] = "force"]
    /\ res' = [res EXCEPT ![c] = "timeout"]
    /\ UNCHANGED <<kind, qemuVars, loopVars, instVars, op, detached, ticks, sawExit>>

\* ctx.Done() in StopContext: ForceStop, return ctx.Err().
StopCancel(c) ==
    /\ pc[c] = "poll"
    /\ pc' = [pc EXCEPT ![c] = "force"]
    /\ res' = [res EXCEPT ![c] = "err"]
    /\ UNCHANGED <<kind, qemuVars, loopVars, instVars, op, detached, ticks, sawExit>>

-----------------------------------------------------------------------------
(* ForceStop, Quit, Wait.                                                  *)

\* Mutant of ForceStop: the kill is keyed on i.pid alone.
ForceStopByPidOnly(c) ==
    /\ pc[c] = "force"
    /\ IF kind = "pid"
          THEN /\ signalled' = signalled \cup {"pid"}
               /\ qemuAlive' = (qemuAlive /\ reaped)
          ELSE UNCHANGED <<signalled, qemuAlive>>
    /\ cleanup
    /\ pc' = [pc EXCEPT ![c] = "done"]
    /\ UNCHANGED <<kind, vm, reaped, guestSteps, events, loopVars, op, detached, ticks,
                   sawExit, res>>

\* With i.process: SIGKILL to the group -pid, then process.Kill (which
\* after a Wait sends nothing); else with i.pid > 0 SIGKILL to the pid;
\* then cleanup. A group kill after the pid was reaped names a process
\* group the kernel may have handed to someone else: "stale-group".
ForceStop(c) ==
    /\ pc[c] = "force"
    /\ IF kind \in {"spawned", "pid"}
          THEN /\ signalled' = signalled \cup {IF reaped THEN "stale-group" ELSE "group"}
               /\ qemuAlive' = (qemuAlive /\ reaped)
          ELSE UNCHANGED <<signalled, qemuAlive>>
    /\ cleanup
    /\ pc' = [pc EXCEPT ![c] = "done"]
    /\ UNCHANGED <<kind, vm, reaped, guestSteps, events, loopVars, op, detached, ticks,
                   sawExit, res>>

\* Execute("quit") answered: QEMU shuts down and exits; cleanup; nil.
QuitReply(c) ==
    /\ pc[c] = "quit"
    /\ conn /\ qemuAlive
    /\ vm' = "shutdown"
    /\ events' = Append(events, "SHUTDOWN")
    /\ cleanup /\ Return(c, "nil")
    /\ UNCHANGED <<kind, qemuAlive, reaped, guestSteps, loopVars, signalled,
                   op, detached, ticks, sawExit>>

\* Execute("quit") fails (QEMU may have quit before the reply arrived, or
\* not at all): Quit returns nil and skips cleanup.
QuitErr(c) ==
    /\ pc[c] = "quit"
    /\ \/ /\ conn /\ qemuAlive
          /\ vm' = "shutdown"
          /\ events' = Append(events, "SHUTDOWN")
       \/ UNCHANGED <<vm, events>>
    /\ Return(c, "nil")
    /\ UNCHANGED <<kind, qemuAlive, reaped, guestSteps, loopVars, instVars,
                   op, detached, ticks, sawExit>>

\* Mutant of WaitReap: a wait that does not block for the exit.
WaitReapNoBlock(c) ==
    /\ pc[c] = "wait"
    /\ kind = "spawned" /\ ~reaped
    /\ reaped' = TRUE
    /\ cleanup /\ Return(c, "nil")
    /\ UNCHANGED <<kind, vm, qemuAlive, guestSteps, events, loopVars, signalled,
                   op, detached, ticks, sawExit>>

\* process.Wait on our child returns once it has exited, and reaps it.
WaitReap(c) ==
    /\ pc[c] = "wait"
    /\ kind = "spawned" /\ ~qemuAlive /\ ~reaped
    /\ reaped' = TRUE
    /\ cleanup /\ Return(c, "nil")
    /\ UNCHANGED <<kind, vm, qemuAlive, guestSteps, events, loopVars, signalled,
                   op, detached, ticks, sawExit>>

\* process.Wait fails at once: the child was reaped by another Wait, or the
\* process is not our child (ECHILD). Then cleanup.
WaitError(c) ==
    /\ pc[c] = "wait"
    /\ kind = "pid" \/ (kind = "spawned" /\ reaped)
    /\ cleanup /\ Return(c, "err")
    /\ UNCHANGED <<kind, qemuVars, loopVars, signalled, op, detached, ticks,
                   sawExit>>

\* No process: `for i.isProcessAlive()` stops at once (pid 0); cleanup.
WaitPoll(c) ==
    /\ pc[c] = "wait"
    /\ ~isProcessAlive /\ kind = "socket"
    /\ cleanup /\ Return(c, "nil")
    /\ UNCHANGED <<kind, qemuVars, loopVars, signalled, op, detached, ticks,
                   sawExit>>

\* WaitContext's select takes ctx.Done() first: it returns ctx.Err() and
\* leaves its goroutine in Wait.
WaitCtxDone(c) ==
    /\ pc[c] = "wait" /\ op[c] = "WaitContext" /\ ~detached[c]
    /\ detached' = [detached EXCEPT ![c] = TRUE]
    /\ res' = [res EXCEPT ![c] = "err"]
    /\ UNCHANGED <<kind, qemuVars, loopVars, instVars, pc, op, ticks, sawExit>>

-----------------------------------------------------------------------------
(* Specification.                                                          *)

Init ==
    /\ kind \in Kinds
    /\ vm = "running" /\ qemuAlive = TRUE /\ reaped = FALSE /\ guestSteps = 0
    /\ events = <<>>
    /\ rd = "read" /\ rdEv = "none"
    \* connected, the callback installed, the initial QueryState answered
    /\ conn = TRUE /\ instQmp = TRUE /\ state = "Running" /\ sock = TRUE
    /\ signalled = {} /\ cleaned = FALSE
    /\ pc = [c \in Callers |-> "idle"]
    /\ op = [c \in Callers |-> "none"]
    /\ ticks = [c \in Callers |-> 0]
    /\ sawExit = [c \in Callers |-> FALSE]
    /\ res = [c \in Callers |-> "none"]
    /\ detached = [c \in Callers |-> FALSE]

QemuNext ==
    GuestReboot \/ GuestShutdown \/ QemuExit \/ QemuCrash \/ ExternalReap

EventLoopNext == ReadEvent \/ DispatchEvent \/ ReadFail

StopNext(c) ==
    \/ PowerdownReply(c) \/ PowerdownErr(c)
    \/ Poll(c) \/ Sleep(c) \/ StopDeadline(c) \/ StopCancel(c)

CallerNext(c) ==
    \/ \E o \in Ops : Begin(c, o)
    \/ StopNext(c) \/ ForceStop(c)
    \/ QuitReply(c) \/ QuitErr(c)
    \/ WaitReap(c) \/ WaitError(c) \/ WaitPoll(c) \/ WaitCtxDone(c)

Next == QemuNext \/ EventLoopNext \/ \E c \in Callers : CallerNext(c)

\* QEMU exits once the guest is off, the eventLoop runs, Execute returns
\* (its 30 s timer at the latest), the ticker ticks and the deadline comes,
\* and a Wait's process.Wait returns once the child has exited (or at once
\* with ECHILD) and its probe loop sleeps 100 ms at a time; a guest, a
\* crash, a cancellation and a new call are not assumed.
Fairness ==
    /\ WF_vars(QemuExit) /\ WF_vars(EventLoopNext)
    /\ \A c \in Callers :
          /\ WF_vars(PowerdownReply(c) \/ PowerdownErr(c))
          /\ WF_vars(Poll(c)) /\ WF_vars(Sleep(c)) /\ WF_vars(StopDeadline(c))
          /\ WF_vars(ForceStop(c)) /\ WF_vars(QuitReply(c) \/ QuitErr(c))
          /\ WF_vars(WaitReap(c) \/ WaitError(c) \/ WaitPoll(c))

Spec == Init /\ [][Next]_vars /\ Fairness

-----------------------------------------------------------------------------
(* Properties.                                                             *)

TypeOK ==
    /\ kind \in Kinds /\ vm \in {"running", "shutdown"}
    /\ qemuAlive \in BOOLEAN /\ reaped \in BOOLEAN
    /\ guestSteps \in 0..MaxGuest /\ events \in Seq(StateEvents)
    /\ rd \in {"read", "dispatch", "exited"} /\ rdEv \in StateEvents \cup {"none"}
    /\ conn \in BOOLEAN /\ instQmp \in BOOLEAN /\ state \in States
    /\ sock \in BOOLEAN /\ signalled \subseteq {"group", "stale-group", "pid"}
    /\ cleaned \in BOOLEAN
    /\ pc \in [Callers -> Pcs] /\ op \in [Callers -> Ops \cup {"none"}]
    /\ ticks \in [Callers -> 0..MaxTicks] /\ sawExit \in [Callers -> BOOLEAN]
    /\ res \in [Callers -> Results] /\ detached \in [Callers -> BOOLEAN]

\* Stop that returns nil, and Wait whenever it returns, leave the QEMU
\* process gone (spec: Stop succeeds "on process exit"; Wait "blocks until
\* the spawned process reaps or, for attached instances, until signal-0
\* probes fail").
ExitedWhenReturned ==
    \A c \in Callers :
        /\ pc[c] = "done"
        /\ \/ op[c] = "Stop" /\ res[c] = "nil"
           \/ op[c] = "Wait"
           \/ op[c] = "WaitContext" /\ ~detached[c]
        => ~qemuAlive

\* Every Stop returns: the ticker loop ends by exit, by the deadline or by
\* cancellation, and each way out ends in a return.
StopReturns ==
    \A c \in Callers : (op[c] = "Stop" /\ pc[c] # "idle") ~> (pc[c] = "done")

\* A Stop call on an instance that knows its process (spawned, or attached
\* by pid) ends with QEMU no longer running: the guest powered off and
\* QEMU exited, or Stop escalated to ForceStop and killed it.
StopEndsQemu ==
    \A c \in Callers :
        (kind # "socket" /\ op[c] = "Stop" /\ pc[c] # "idle") ~> ~qemuAlive

\* Once a poll of Stop's loop has run after QEMU exited, Stop does not
\* report "graceful shutdown timed out" (spec: "On process exit within
\* deadline -> success").
StopNoTimeoutAfterExit ==
    [][\A c \in Callers : StopDeadline(c) => ~sawExit[c]]_vars

\* Quit that returns nil has cleaned up: no transport, state Shutdown
\* (spec: "treat any reply (including disconnect-before-reply) as success;
\* cleanup afterwards").
QuitCleansUp ==
    \A c \in Callers :
        pc[c] = "done" /\ op[c] = "Quit" /\ res[c] = "nil" =>
            ~instQmp /\ state = "Shutdown"

\* After cleanup has published Shutdown, the state stays Shutdown: no event
\* the eventLoop read before Close moves it back.
ShutdownIsFinal == cleaned => state = "Shutdown"

\* ForceStop kills only what the instance owns: the process group of a
\* spawned QEMU while its pid is still held (not yet reaped by Wait), and
\* an attached process on its pid alone (spec: "to the pid only for
\* attached").
ForceStopSignalsOwnOnly ==
    signalled \subseteq (IF kind = "spawned" THEN {"group", "pid"} ELSE {"pid"})

\* Once QEMU has exited, every goroutine in Wait returns: the one a Wait
\* call runs in and the one a WaitContext starts, also after its caller
\* has left on ctx.Done(). Of two Waits of our child one reaps it and the
\* other gets ECHILD; process.Wait of a process attached by pid fails at
\* once; an instance attached by socket has no pid, so its probe loop
\* ends at once.
WaitReturnsOnceExited ==
    \A c \in Callers : (pc[c] = "wait" /\ ~qemuAlive) ~> (pc[c] = "done")
=============================================================================
