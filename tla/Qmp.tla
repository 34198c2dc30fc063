--------------------------------- MODULE Qmp ---------------------------------
(***************************************************************************)
(* The QMP transport of qemuctl (type QMP, src/unnamed/part_001) as the    *)
(* Instance uses it after StartContext has connected it (src/instance.go), *)
(* together with the QEMU monitor at the other end of the socket.          *)
(*                                                                         *)
(*  - caller goroutines run Instance.QueryState/Continue/Pause/Reset/      *)
(*    Shutdown, each a QMP.ExecuteWithTimeout: register the reply channel  *)
(*    in the pending map, write the command under connMu, then select on  *)
(*    the reply, the timer and closeCh;                                    *)
(*  - the eventLoop goroutine reads one line at a time and dispatches a    *)
(*    reply to its pending channel or an event to handleEvent (which      *)
(*    calls Instance.setState through the state-change callback) and to   *)
(*    the bounded event channel; on a read error it closes closeCh and     *)
(*    eventCh and sets pending to nil;                                     *)
(*  - QEMU executes commands in order, emits events, and may exit (guest   *)
(*    shutdown) or die at any time, which ends the stream.                 *)
(*                                                                         *)
(* The JSON encoding is abstracted to records; a reply carries the ghost   *)
(* field name, the command it answers, so correlation can be checked.      *)
(***************************************************************************)
EXTENDS Integers, Sequences, FiniteSets, Functions, VMState

CONSTANTS
    Callers,    \* goroutines calling Instance methods
    Starter,    \* the goroutine that runs StartContext
    Ops,        \* the Instance methods the callers may call
    MaxCmd,     \* bound on cmdCounter (the ids cmd-1 .. cmd-MaxCmd)
    EventCap,   \* capacity of eventCh (100 in newQMP)
    MaxGuest,   \* bound on guest-initiated suspend/wakeup/shutdown steps
    NULL

ASSUME /\ Starter \in Callers
       /\ MaxCmd \in Nat /\ EventCap \in Nat \ {0} /\ MaxGuest \in Nat

\* The QMP command each Instance method executes.
OpCmd == [QueryState |-> "query-status", Continue |-> "cont",
          Pause |-> "stop", Reset |-> "system_reset",
          Shutdown |-> "system_powerdown"]

ASSUME Ops \subseteq DOMAIN OpCmd

VARIABLES
    \* QEMU side
    vm,          \* the run state QEMU would report to query-status
    qemuAlive,   \* the QEMU process is running and serving the socket
    guestSteps,  \* guest-initiated steps taken so far
    toServer,    \* commands written to the socket and not yet read by QEMU
    toClient,    \* replies and events written by QEMU, not yet read
    \* QMP transport (type QMP)
    conn,        \* q.conn != nil
    cmdCounter,  \* q.cmdCounter
    pending,     \* q.pending: id -> the caller whose channel it is; NULL = nil map
    respCh,      \* the buffered reply channel of each caller's current call
    closeCh,     \* q.closeCh has been closed
    eventCh,     \* events buffered in q.eventCh (nobody here receives them)
    evClosed,    \* q.eventCh has been closed
    rd,          \* eventLoop: "read", "dispatch" (holds rdMsg) or "exited"
    rdMsg,       \* the line the eventLoop is dispatching
    \* Instance
    instQmp,     \* i.qmp != nil
    state,       \* i.state
    cbSet,       \* q.onStateChange has been installed by StartContext
    started,     \* StartContext has returned the instance to its caller
    \* caller goroutines
    pc, op, cid, got, gotMsg

qemuVars   == <<vm, qemuAlive, guestSteps, toServer, toClient>>
qmpVars    == <<conn, cmdCounter, pending, respCh, closeCh, eventCh,
                evClosed, rd, rdMsg>>
instVars   == <<instQmp, state, cbSet, started>>
callerVars == <<pc, op, cid, got, gotMsg>>
vars == <<qemuVars, qmpVars, instVars, callerVars>>

-----------------------------------------------------------------------------
(* Messages on the socket.                                                 *)

Cmds     == {"query-status", "cont", "stop", "system_reset",
             "system_powerdown", "quit"}
Ids      == 1..MaxCmd
VmStates == {"running", "paused", "suspended", "shutdown"}

Command(id, cmd)   == [id |-> id, cmd |-> cmd]
Reply(id, cmd, st) == [kind |-> "reply", id |-> id, name |-> cmd, status |-> st]
Event(e)           == [kind |-> "event", id |-> 0, name |-> e, status |-> "none"]
NoMsg              == [kind |-> "none", id |-> 0, name |-> "none", status |-> "none"]

Msgs == {Reply(i, c, s) : i \in Ids, c \in Cmds, s \in VmStates}
          \cup {Event(e) : e \in EventNames} \cup {NoMsg}

\* The outcomes of ExecuteWithTimeout: a reply, or one of its errors.
Results == {"none", "reply", "timeout", "closed", "writeErr"}

\* Program counters of a caller: idle, the steps of ExecuteWithTimeout,
\* and "ret" where the method continues with the result.
ExecPcs == {"register", "write", "wait"}
Pcs     == {"idle", "install", "ret"} \cup ExecPcs

-----------------------------------------------------------------------------
(* Helpers.                                                                *)

\* Instance.setState: the state is replaced under stateMu. The user
\* callback it then calls is not modelled.
setState(s) == state' = s

\* The deferred delete(q.pending, cmdID); a no-op on the nil map.
DeletePending(id) ==
    IF pending = NULL THEN pending
    ELSE Restrict(pending, DOMAIN pending \ {id})

\* Callers inside ExecuteWithTimeout before they have taken an id.
Registering == {c \in Callers : pc[c] = "register"}

-----------------------------------------------------------------------------
(* QEMU.                                                                   *)

\* QEMU reads the next command and executes it: the events the command
\* causes are written before its return (as QEMU's monitor does).
Serve ==
    /\ qemuAlive
    /\ toServer # <<>>
    /\ LET m == Head(toServer)
           r == Reply(m.id, m.cmd, vm)
       IN CASE m.cmd = "stop" /\ vm = "running" ->
                 /\ vm' = "paused"
                 /\ toClient' = toClient \o <<Event("STOP"), r>>
            [] m.cmd = "cont" /\ vm = "paused" ->
                 /\ vm' = "running"
                 /\ toClient' = toClient \o <<Event("RESUME"), r>>
            [] m.cmd = "system_reset" ->
                 \* a reset wakes a suspended guest; it does not resume a
                 \* paused one
                 /\ vm' = IF vm = "suspended" THEN "running" ELSE vm
                 /\ toClient' = toClient \o <<Event("RESET"), r>>
            [] m.cmd = "system_powerdown" ->
                 /\ toClient' = toClient \o <<r, Event("POWERDOWN")>>
                 /\ UNCHANGED vm
            [] OTHER ->
                 /\ toClient' = Append(toClient, r)
                 /\ UNCHANGED vm
    /\ toServer' = Tail(toServer)
    /\ UNCHANGED <<qemuAlive, guestSteps, qmpVars, instVars, callerVars>>

\* The guest suspends itself (S3) or is woken.
GuestSuspend ==
    /\ qemuAlive /\ guestSteps < MaxGuest
    /\ vm = "running"
    /\ vm' = "suspended"
    /\ toClient' = Append(toClient, Event("SUSPEND"))
    /\ guestSteps' = guestSteps + 1
    /\ UNCHANGED <<qemuAlive, toServer, qmpVars, instVars, callerVars>>

\* A wakeup follows a suspend, so it is bounded by the suspends.
GuestWakeup ==
    /\ qemuAlive
    /\ vm = "suspended"
    /\ vm' = "running"
    /\ toClient' = Append(toClient, Event("WAKEUP"))
    /\ UNCHANGED <<qemuAlive, guestSteps, toServer, qmpVars, instVars,
                   callerVars>>

\* The guest powers off (on its own or after system_powerdown): QEMU
\* reports SHUTDOWN and, started without -no-shutdown, then exits.
GuestShutdown ==
    /\ qemuAlive /\ guestSteps < MaxGuest
    /\ vm \in {"running", "paused"}
    /\ vm' = "shutdown"
    /\ toClient' = Append(toClient, Event("SHUTDOWN"))
    /\ guestSteps' = guestSteps + 1
    /\ UNCHANGED <<qemuAlive, toServer, qmpVars, instVars, callerVars>>

QemuExit ==
    /\ qemuAlive
    /\ vm = "shutdown"
    /\ qemuAlive' = FALSE
    /\ UNCHANGED <<vm, guestSteps, toServer, toClient, qmpVars, instVars,
                   callerVars>>

\* QEMU dies without a word (crash, external kill): the socket closes.
QemuCrash ==
    /\ qemuAlive
    /\ qemuAlive' = FALSE
    /\ UNCHANGED <<vm, guestSteps, toServer, toClient, qmpVars, instVars,
                   callerVars>>

-----------------------------------------------------------------------------
(* The eventLoop goroutine (QMP.eventLoop, QMP.handleEvent).               *)

\* q.reader.ReadBytes('\n') returns the next line QEMU wrote.
ReadLine ==
    /\ rd = "read"
    /\ conn
    /\ toClient # <<>>
    /\ rdMsg' = Head(toClient)
    /\ toClient' = Tail(toClient)
    /\ rd' = "dispatch"
    /\ UNCHANGED <<vm, qemuAlive, guestSteps, toServer, conn, cmdCounter,
                   pending, respCh, closeCh, eventCh, evClosed, instVars,
                   callerVars>>

\* Mutant of DispatchEvent: a send on eventCh that never drops.
DispatchEventNoDrop ==
    /\ rd = "dispatch"
    /\ rdMsg.kind = "event"
    /\ IF cbSet /\ rdMsg.name \in StateEvents
          THEN setState(EventState(rdMsg.name))
          ELSE UNCHANGED state
    /\ eventCh' = eventCh + 1
    /\ rd' = "read"
    /\ rdMsg' = NoMsg
    /\ UNCHANGED <<qemuVars, conn, cmdCounter, pending, respCh, closeCh,
                   evClosed, instQmp, cbSet, started, callerVars>>

\* Mutant of ReadFail: the deferred block forgets close(q.closeCh).
ReadFailNoClose ==
    /\ rd = "read"
    /\ \/ ~conn
       \/ ~qemuAlive /\ toClient = <<>>
    /\ evClosed' = TRUE
    /\ pending' = NULL
    /\ rd' = "exited"
    /\ UNCHANGED <<qemuVars, conn, cmdCounter, respCh, closeCh, eventCh, rdMsg,
                   instVars, callerVars>>

\* Each call makes its own channel; respCh[c] is the one of c's current
\* call, which c registered under cid[c]. A reply goes, without blocking,
\* to the channel registered under its id. When that is not c's current
\* call's channel (an entry left behind by an earlier call of c) the send
\* fills a channel nobody receives from, which is a drop here.
ReplyTarget(id) ==
    {c \in Callers : pending # NULL /\ id \in DOMAIN pending
                     /\ pending[id] = c /\ cid[c] = id}

DispatchReply ==
    /\ rd = "dispatch"
    /\ rdMsg.kind = "reply"
    /\ respCh' = [c \in Callers |->
                    IF c \in ReplyTarget(rdMsg.id) /\ respCh[c] = NoMsg
                       THEN rdMsg ELSE respCh[c]]
    /\ rd' = "read"
    /\ rdMsg' = NoMsg
    /\ UNCHANGED <<qemuVars, conn, cmdCounter, pending, closeCh, eventCh,
                   evClosed, instVars, callerVars>>

\* An event: handleEvent (through the state-change callback, when it has
\* been installed), then a send on eventCh that drops the event when the
\* channel is full, then the onEvent callback (not modelled).
DispatchEvent ==
    /\ rd = "dispatch"
    /\ rdMsg.kind = "event"
    /\ IF cbSet /\ rdMsg.name \in StateEvents
          THEN setState(EventState(rdMsg.name))
          ELSE UNCHANGED state
    /\ eventCh' = IF eventCh < EventCap THEN eventCh + 1 ELSE eventCh
    /\ rd' = "read"
    /\ rdMsg' = NoMsg
    /\ UNCHANGED <<qemuVars, conn, cmdCounter, pending, respCh, closeCh,
                   evClosed, instQmp, cbSet, started, callerVars>>

\* ReadBytes fails: the connection was closed here, or QEMU's end closed
\* and every byte it wrote has been read. The deferred block closes
\* closeCh and eventCh and sets pending to nil.
ReadFail ==
    /\ rd = "read"
    /\ \/ ~conn
       \/ ~qemuAlive /\ toClient = <<>>
    /\ closeCh' = TRUE
    /\ evClosed' = TRUE
    /\ pending' = NULL
    /\ rd' = "exited"
    /\ UNCHANGED <<qemuVars, conn, cmdCounter, respCh, eventCh, rdMsg,
                   instVars, callerVars>>

-----------------------------------------------------------------------------
(* Callers: QMP.ExecuteWithTimeout.                                        *)

\* Mutant of ExecRegister: the id is taken from cmdCounter.Load(), so
\* concurrent calls share it.
ExecRegisterSameId(c) ==
    LET id == cmdCounter IN
    /\ pc[c] = "register"
    /\ cid' = [cid EXCEPT ![c] = id]
    /\ respCh' = [respCh EXCEPT ![c] = NoMsg]
    /\ IF pending = NULL
          THEN /\ pc' = [pc EXCEPT ![c] = "ret"]
               /\ got' = [got EXCEPT ![c] = "closed"]
               /\ UNCHANGED pending
          ELSE /\ pending' = [x \in DOMAIN pending \cup {id} |->
                                IF x = id THEN c ELSE pending[x]]
               /\ pc' = [pc EXCEPT ![c] = "write"]
               /\ UNCHANGED got
    /\ UNCHANGED <<qemuVars, conn, cmdCounter, closeCh, eventCh, evClosed, rd,
                   rdMsg, instVars, op, gotMsg>>

\* cmdCounter.Add(1), then, under pendingMu, registration of the reply
\* channel under the new id, or "QMP connection closed" on the nil map.
ExecRegister(c) ==
    LET id == cmdCounter + 1 IN
    /\ pc[c] = "register"
    /\ cmdCounter' = id
    /\ cid' = [cid EXCEPT ![c] = id]
    /\ respCh' = [respCh EXCEPT ![c] = NoMsg]
    /\ IF pending = NULL
          THEN /\ pc' = [pc EXCEPT ![c] = "ret"]
               /\ got' = [got EXCEPT ![c] = "closed"]
               /\ UNCHANGED pending
          ELSE /\ pending' = [x \in DOMAIN pending \cup {id} |->
                                IF x = id THEN c ELSE pending[x]]
               /\ pc' = [pc EXCEPT ![c] = "write"]
               /\ UNCHANGED got
    /\ UNCHANGED <<qemuVars, conn, closeCh, eventCh, evClosed, rd, rdMsg,
                   instVars, op, gotMsg>>

\* Under connMu: "QMP connection closed" when q.conn is nil, else the
\* write. Once QEMU is gone the write may still succeed into the socket
\* buffer, or fail; the bytes are lost either way. Every early return runs
\* the deferred delete.
ExecWrite(c) ==
    /\ pc[c] = "write"
    /\ \/ /\ ~conn
          /\ got' = [got EXCEPT ![c] = "closed"]
          /\ pc' = [pc EXCEPT ![c] = "ret"]
          /\ pending' = DeletePending(cid[c])
          /\ UNCHANGED toServer
       \/ /\ conn
          /\ toServer' = IF qemuAlive
                         THEN Append(toServer, Command(cid[c], OpCmd[op[c]]))
                         ELSE toServer
          /\ pc' = [pc EXCEPT ![c] = "wait"]
          /\ UNCHANGED <<got, pending>>
       \/ /\ conn /\ ~qemuAlive
          /\ got' = [got EXCEPT ![c] = "writeErr"]
          /\ pc' = [pc EXCEPT ![c] = "ret"]
          /\ pending' = DeletePending(cid[c])
          /\ UNCHANGED toServer
    /\ UNCHANGED <<vm, qemuAlive, guestSteps, toClient, conn, cmdCounter,
                   respCh, closeCh, eventCh, evClosed, rd, rdMsg, instVars,
                   op, cid, gotMsg>>

\* The select: whichever of reply, timer and closeCh is ready (Go picks at
\* random among ready cases); the timer may fire at any time. Then the
\* deferred delete.
ExecReply(c) ==
    /\ pc[c] = "wait"
    /\ respCh[c] # NoMsg
    /\ got' = [got EXCEPT ![c] = "reply"]
    /\ gotMsg' = [gotMsg EXCEPT ![c] = respCh[c]]
    /\ pc' = [pc EXCEPT ![c] = "ret"]
    /\ pending' = DeletePending(cid[c])
    /\ UNCHANGED <<qemuVars, conn, cmdCounter, respCh, closeCh, eventCh,
                   evClosed, rd, rdMsg, instVars, op, cid>>

\* Mutant of ExecTimeout: the timeout path returns without the delete.
ExecTimeoutNoDelete(c) ==
    /\ pc[c] = "wait"
    /\ got' = [got EXCEPT ![c] = "timeout"]
    /\ pc' = [pc EXCEPT ![c] = "ret"]
    /\ UNCHANGED <<qemuVars, conn, cmdCounter, pending, respCh, closeCh,
                   eventCh, evClosed, rd, rdMsg, instVars, op, cid, gotMsg>>

ExecTimeout(c) ==
    /\ pc[c] = "wait"
    /\ got' = [got EXCEPT ![c] = "timeout"]
    /\ pc' = [pc EXCEPT ![c] = "ret"]
    /\ pending' = DeletePending(cid[c])
    /\ UNCHANGED <<qemuVars, conn, cmdCounter, respCh, closeCh, eventCh,
                   evClosed, rd, rdMsg, instVars, op, cid, gotMsg>>

ExecClosed(c) ==
    /\ pc[c] = "wait"
    /\ closeCh
    /\ got' = [got EXCEPT ![c] = "closed"]
    /\ pc' = [pc EXCEPT ![c] = "ret"]
    /\ pending' = DeletePending(cid[c])
    /\ UNCHANGED <<qemuVars, conn, cmdCounter, respCh, closeCh, eventCh,
                   evClosed, rd, rdMsg, instVars, op, cid, gotMsg>>

-----------------------------------------------------------------------------
(* Instance methods.                                                       *)

\* StartContext, after newQMP has returned: qmp.SetStateChangeCallback
\* installs the bridge to setState; StartContext then runs QueryState.
InstallCallback ==
    /\ pc[Starter] = "install"
    /\ cbSet' = TRUE
    /\ pc' = [pc EXCEPT ![Starter] = "register"]
    /\ op' = [op EXCEPT ![Starter] = "QueryState"]
    /\ UNCHANGED <<qemuVars, qmpVars, instQmp, state, started, cid, got,
                   gotMsg>>

\* A method reads i.qmp under qmpMu; with a connection it calls
\* Execute (without one it returns "not connected" and changes nothing).
\* Only StartContext's goroutine uses the instance before it is returned.
Begin(c, o) ==
    /\ pc[c] = "idle"
    /\ started
    /\ instQmp
    /\ cmdCounter + Cardinality(Registering) < MaxCmd
    /\ pc' = [pc EXCEPT ![c] = "register"]
    /\ op' = [op EXCEPT ![c] = o]
    /\ UNCHANGED <<qemuVars, qmpVars, instVars, cid, got, gotMsg>>

\* The method after Execute returns: QueryState publishes the reported
\* status; the others return the error, if any. The StartContext call
\* ignores a QueryState error and returns the instance.
Finish(c) ==
    /\ pc[c] = "ret"
    /\ IF op[c] = "QueryState" /\ got[c] = "reply"
          THEN setState(parseQMPStatus(gotMsg[c].status))
          ELSE UNCHANGED state
    /\ started' = TRUE
    \* the call's locals and its reply channel are gone
    /\ pc' = [pc EXCEPT ![c] = "idle"]
    /\ op' = [op EXCEPT ![c] = "none"]
    /\ cid' = [cid EXCEPT ![c] = 0]
    /\ got' = [got EXCEPT ![c] = "none"]
    /\ gotMsg' = [gotMsg EXCEPT ![c] = NoMsg]
    /\ respCh' = [respCh EXCEPT ![c] = NoMsg]
    /\ UNCHANGED <<qemuVars, conn, cmdCounter, pending, closeCh, eventCh,
                   evClosed, rd, rdMsg, instQmp, cbSet>>

-----------------------------------------------------------------------------
(* Specification.                                                          *)

Init ==
    /\ vm = "running"
    /\ qemuAlive = TRUE
    /\ guestSteps = 0
    /\ toServer = <<>>
    /\ toClient = <<>>
    \* newQMP has read the greeting, started the eventLoop and completed
    \* qmp_capabilities as cmd-1
    /\ conn = TRUE
    /\ cmdCounter = 1
    /\ pending = [x \in {} |-> Starter]
    /\ respCh = [c \in Callers |-> NoMsg]
    /\ closeCh = FALSE
    /\ eventCh = 0
    /\ evClosed = FALSE
    /\ rd = "read"
    /\ rdMsg = NoMsg
    \* StartContext: state StatePrelaunch, inst.qmp = qmp
    /\ instQmp = TRUE
    /\ state = "Prelaunch"
    /\ cbSet = FALSE
    /\ started = FALSE
    /\ pc = [c \in Callers |-> IF c = Starter THEN "install" ELSE "idle"]
    /\ op = [c \in Callers |-> "none"]
    /\ cid = [c \in Callers |-> 0]
    /\ got = [c \in Callers |-> "none"]
    /\ gotMsg = [c \in Callers |-> NoMsg]

QemuNext ==
    \/ Serve \/ GuestSuspend \/ GuestWakeup \/ GuestShutdown
    \/ QemuExit \/ QemuCrash

EventLoopNext == ReadLine \/ DispatchReply \/ DispatchEvent \/ ReadFail

CallerNext(c) ==
    \/ \E o \in Ops : Begin(c, o)
    \/ ExecRegister(c) \/ ExecWrite(c)
    \/ ExecReply(c) \/ ExecTimeout(c) \/ ExecClosed(c)
    \/ Finish(c)

Next ==
    \/ QemuNext
    \/ EventLoopNext
    \/ InstallCallback
    \/ \E c \in Callers : CallerNext(c)

\* QEMU's monitor and the goroutines keep running; the timer, the guest,
\* a crash and a caller starting a new call are not assumed to happen.
Fairness ==
    /\ WF_vars(Serve) /\ WF_vars(QemuExit)
    /\ WF_vars(EventLoopNext)
    /\ WF_vars(InstallCallback)
    /\ \A c \in Callers :
          /\ WF_vars(ExecRegister(c)) /\ WF_vars(ExecWrite(c))
          /\ WF_vars(ExecReply(c)) /\ WF_vars(ExecClosed(c))
          /\ WF_vars(Finish(c))

Spec == Init /\ [][Next]_vars /\ Fairness

-----------------------------------------------------------------------------
(* Properties.                                                             *)

TypeOK ==
    /\ vm \in VmStates /\ qemuAlive \in BOOLEAN /\ guestSteps \in 0..MaxGuest
    /\ toServer \in Seq([id : Ids, cmd : Cmds])
    /\ toClient \in Seq(Msgs)
    /\ conn \in BOOLEAN /\ cmdCounter \in 0..MaxCmd
    /\ pending = NULL \/ \E D \in SUBSET Ids : pending \in [D -> Callers]
    /\ respCh \in [Callers -> Msgs]
    /\ closeCh \in BOOLEAN /\ evClosed \in BOOLEAN
    /\ eventCh \in 0..EventCap
    /\ rd \in {"read", "dispatch", "exited"} /\ rdMsg \in Msgs
    /\ instQmp \in BOOLEAN /\ state \in States
    /\ cbSet \in BOOLEAN /\ started \in BOOLEAN
    /\ pc \in [Callers -> Pcs] /\ op \in [Callers -> Ops \cup {"none"}]
    /\ cid \in [Callers -> 0..MaxCmd]
    /\ got \in [Callers -> Results] /\ gotMsg \in [Callers -> Msgs]

\* Execute correlates by id: a caller that gets a reply gets the reply
\* QEMU wrote for the command this call sent, never one meant for another
\* caller or for an earlier call that timed out (ExecuteWithTimeout,
\* eventLoop's pending lookup).
ReplyCorrelation ==
    \A c \in Callers :
        pc[c] = "ret" /\ got[c] = "reply" =>
            /\ gotMsg[c].id = cid[c]
            /\ gotMsg[c].name = OpCmd[op[c]]

\* The pending map holds exactly the calls still between registration and
\* their return: every early return, timeout and close removes the entry
\* (the deferred delete), and no call waits on an id missing from it.
PendingMatchesCalls ==
    LET inFlight == {c \in Callers : pc[c] \in {"write", "wait"}} IN
    pending # NULL =>
        /\ DOMAIN pending = {cid[c] : c \in inFlight}
        /\ \A c \in inFlight : pending[cid[c]] = c

\* No Execute hangs: once QEMU is gone the read error closes closeCh, and
\* while it lives its reply arrives; neither needs the 30 s timer.
ExecuteReturns ==
    \A c \in Callers : (pc[c] \in ExecPcs) ~> (pc[c] = "ret")

\* When nothing is in flight (QEMU alive, both directions of the socket
\* drained, the eventLoop waiting, no method running), Instance.State()
\* is the state QEMU reports: "state will be updated via events"
\* (StartContext) and by QueryState.
Quiescent ==
    /\ qemuAlive /\ started
    /\ toServer = <<>> /\ toClient = <<>>
    /\ rd = "read"
    /\ \A c \in Callers : pc[c] = "idle"

StateTracksVM == Quiescent => state = parseQMPStatus(vm)

\* A state event QEMU has written that the eventLoop has not applied yet.
StateEventUnread ==
    \/ \E i \in 1..Len(toClient) :
          toClient[i].kind = "event" /\ toClient[i].name \in StateEvents
    \/ rd = "dispatch" /\ rdMsg.name \in StateEvents

\* QueryState never publishes a status QEMU has already left once the event
\* announcing the change has been applied: the reply read before an await
\* must not overwrite the newer state the eventLoop set meanwhile.
QueryStateNotStale ==
    [][\A c \in Callers :
         (/\ pc[c] = "ret" /\ op[c] = "QueryState" /\ got[c] = "reply"
          /\ pc'[c] = "idle"
          /\ parseQMPStatus(gotMsg[c].status) # parseQMPStatus(vm))
         => StateEventUnread]_vars

-----------------------------------------------------------------------------
(* Refinement of the call contract QmpCall.                                *)

\* The replies QEMU wrote for caller c's current command: on the socket,
\* in the eventLoop's hands, or in the call's respCh.
RepliesFor(c) ==
    {m \in Range(toClient) \cup {rdMsg, respCh[c]} :
        m.kind = "reply" /\ cid[c] # 0 /\ m.id = cid[c]}

\* A call is busy from its registration until QEMU has answered it.
CallPhase(c) ==
    CASE pc[c] \in {"idle", "install"} -> "idle"
      [] pc[c] = "ret"                  -> "done"
      [] RepliesFor(c) # {}             -> "ran"
      [] OTHER                          -> "busy"

CallResult(c) ==
    IF pc[c] # "ret" THEN "none"
    ELSE IF got[c] = "reply" THEN "reply" ELSE "error"

CallStatus(c) ==
    CASE pc[c] = "ret" /\ got[c] = "reply"  -> gotMsg[c].status
      [] pc[c] # "ret" /\ RepliesFor(c) # {} -> (CHOOSE m \in RepliesFor(c) : TRUE).status
      [] OTHER                               -> "none"

\* The commands queued at QEMU whose call is no longer waiting for them.
QueuedOrphans ==
    LET waiting == {cid[c] : c \in {c \in Callers : pc[c] \in {"write", "wait"}}}
        idx     == {i \in 1..Len(toServer) : toServer[i].id \notin waiting}
    IN [x \in {toServer[i].cmd : i \in idx} |->
            Cardinality({i \in idx : toServer[i].cmd = x})]

QC == INSTANCE QmpCall
        WITH alive   <- qemuAlive,
             call    <- [c \in Callers |-> CallPhase(c)],
             cmd     <- [c \in Callers |-> IF op[c] = "none" THEN "none" ELSE OpCmd[op[c]]],
             result  <- [c \in Callers |-> CallResult(c)],
             status  <- [c \in Callers |-> CallStatus(c)],
             orphans <- QueuedOrphans

\* Execute keeps its contract with every caller at once: the id, pending
\* map, connMu write, eventLoop dispatch and select together behave as a
\* call that returns QEMU's own answer to its command, reporting the state
\* QEMU had when it ran it, or an error after which the command runs at
\* most once for nobody.
ImplementsQmpCall == QC!Spec
=============================================================================
