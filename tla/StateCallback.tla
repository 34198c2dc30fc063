---------------------------- MODULE StateCallback ----------------------------
(***************************************************************************)
(* How an Instance's state field and its user state-change callback follow *)
(* QEMU (src/instance.go setState, SetStateChangeCallback, QueryState and  *)
(* the end of StartContext; src/unnamed/part_001 eventLoop, handleEvent,   *)
(* Execute and QMP.SetStateChangeCallback).                                *)
(*                                                                         *)
(* QEMU writes events and command replies to one stream, in the order it   *)
(* produces them; the eventLoop reads that stream alone. setState takes    *)
(* stateMu, swaps the state and unlocks, then calls the user's callback:   *)
(* it is split there into SetStateWrite and SetStateNotify, since any      *)
(* other setState may run in between. The eventLoop's own setState (via    *)
(* handleEvent and the bridge closure) is split the same way. The event    *)
(* channel and the event callback change no state of the Instance and are  *)
(* left out.                                                               *)
(***************************************************************************)
EXTENDS Integers, Sequences, VMState

CONSTANTS
    Users,        \* goroutines of the program calling QueryState
    MaxGuestOps   \* runstate changes of QEMU (guest or other monitors)

ASSUME MaxGuestOps \in Nat /\ "main" \notin Users

\* StartContext's goroutine, which calls QueryState first.
Callers == {"main"} \cup Users

\* QEMU's runstates and the event it emits entering each from another.
RunStates == {"running", "paused", "suspended", "shutdown"}
Moves ==
    { [from |-> "running",   to |-> "paused",    ev |-> "STOP"],
      [from |-> "paused",    to |-> "running",   ev |-> "RESUME"],
      [from |-> "running",   to |-> "suspended", ev |-> "SUSPEND"],
      [from |-> "suspended", to |-> "running",   ev |-> "WAKEUP"],
      [from |-> "running",   to |-> "running",   ev |-> "RESET"],
      [from |-> "running",   to |-> "shutdown",  ev |-> "SHUTDOWN"] }

VARIABLES
    vm,       \* QEMU's runstate
    ops,      \* runstate changes so far
    stream,   \* lines QEMU wrote that the eventLoop has not read
    bridge,   \* q.onStateChange: StartContext's closure calling setState
    userCb,   \* i.onStateChange: the user's callback is set
    state,    \* i.state
    seen,     \* the states the user's callback was called with, in order
    pc,       \* where each caller is in QueryState
    resp,     \* the reply the eventLoop handed to a caller's respCh
    rpc,      \* the eventLoop: reading, or between its setState's halves
    old,      \* setState's old, per goroutine (callers and "reader")
    new       \* setState's s, per goroutine

vars == <<vm, ops, stream, bridge, userCb, state, seen, pc, resp, rpc, old, new>>

Goroutines == Callers \cup {"reader"}

Init ==
    /\ vm = "running"
    /\ ops = 0
    /\ stream = << >>
    /\ bridge = FALSE
    /\ userCb = FALSE
    /\ state = "Prelaunch"
    /\ seen = << >>
    /\ pc = [c \in Callers |-> IF c = "main" THEN "install" ELSE "wait"]
    /\ resp = [c \in Callers |-> "none"]
    /\ rpc = "read"
    /\ old = [g \in Goroutines |-> "Prelaunch"]
    /\ new = [g \in Goroutines |-> "Prelaunch"]

-----------------------------------------------------------------------------
(* QEMU.                                                                   *)

\* The VM changes runstate and QEMU writes the event; after SHUTDOWN QEMU
\* exits (buildArgs passes no -no-shutdown) and writes nothing more.
GuestOp ==
    /\ ops < MaxGuestOps
    /\ \E m \in Moves :
          /\ m.from = vm
          /\ vm' = m.to
          /\ stream' = Append(stream, [kind |-> "event", ev |-> m.ev])
    /\ ops' = ops + 1
    /\ UNCHANGED <<bridge, userCb, state, seen, pc, resp, rpc, old, new>>

-----------------------------------------------------------------------------
(* The end of StartContext and the program's calls.                        *)

\* StartContext: qmp.SetStateChangeCallback(func(s) { inst.setState(s) }),
\* after newQMP has started the eventLoop.
InstallBridge ==
    /\ pc["main"] = "install"
    /\ bridge' = TRUE
    /\ pc' = [pc EXCEPT !["main"] = "query"]
    /\ UNCHANGED <<vm, ops, stream, userCb, state, seen, resp, rpc, old, new>>

\* Instance.SetStateChangeCallback, once StartContext has returned: it
\* sets i.onStateChange and installs the same bridge again.
SetStateChangeCallback ==
    /\ pc["main"] = "done"
    /\ ~userCb
    /\ userCb' = TRUE
    /\ bridge' = TRUE
    /\ UNCHANGED <<vm, ops, stream, state, seen, pc, resp, rpc, old, new>>

\* A goroutine of the program calls QueryState on the returned Instance.
UserQuery(c) ==
    /\ pc[c] = "wait"
    /\ pc["main"] = "done"
    /\ pc' = [pc EXCEPT ![c] = "query"]
    /\ UNCHANGED <<vm, ops, stream, bridge, userCb, state, seen, resp, rpc, old, new>>

\* QueryState: Execute("query-status") writes the command; QEMU answers
\* with its runstate, after the events it wrote before. Once QEMU has
\* exited the write fails.
QueryState(c) ==
    /\ pc[c] = "query"
    /\ IF vm = "shutdown"
          THEN /\ pc' = [pc EXCEPT ![c] = "done"]
               /\ UNCHANGED stream
          ELSE /\ stream' = Append(stream, [kind |-> "reply", to |-> c, status |-> vm])
               /\ pc' = [pc EXCEPT ![c] = "await"]
    /\ UNCHANGED <<vm, ops, bridge, userCb, state, seen, resp, rpc, old, new>>

\* Execute's select takes the reply from respCh.
Reply(c) ==
    /\ pc[c] = "await"
    /\ resp[c] # "none"
    /\ new' = [new EXCEPT ![c] = parseQMPStatus(resp[c])]
    /\ pc' = [pc EXCEPT ![c] = "write"]
    /\ UNCHANGED <<vm, ops, stream, bridge, userCb, state, seen, resp, rpc, old>>

\* Execute's timer fires or closeCh is closed first: QueryState returns
\* the error and StartContext ignores it.
QueryFail(c) ==
    /\ pc[c] = "await"
    /\ resp[c] = "none"
    /\ pc' = [pc EXCEPT ![c] = "done"]
    /\ UNCHANGED <<vm, ops, stream, bridge, userCb, state, seen, resp, rpc, old, new>>

\* setState, under stateMu: old := i.state; i.state = s.
SetStateWrite(c) ==
    /\ pc[c] = "write"
    /\ old' = [old EXCEPT ![c] = state]
    /\ state' = new[c]
    /\ pc' = [pc EXCEPT ![c] = "notify"]
    /\ UNCHANGED <<vm, ops, stream, bridge, userCb, seen, resp, rpc, new>>

\* setState after the unlock: the user's callback if the state changed.
Notify(g) ==
    seen' = IF old[g] # new[g] /\ userCb THEN Append(seen, new[g]) ELSE seen

SetStateNotify(c) ==
    /\ pc[c] = "notify"
    /\ Notify(c)
    /\ pc' = [pc EXCEPT ![c] = "done"]
    /\ UNCHANGED <<vm, ops, stream, bridge, userCb, state, resp, rpc, old, new>>

-----------------------------------------------------------------------------
(* The eventLoop.                                                          *)

\* A reply line: handed to the pending caller's respCh.
ReadReply ==
    /\ rpc = "read"
    /\ stream # << >>
    /\ Head(stream).kind = "reply"
    /\ resp' = [resp EXCEPT ![Head(stream).to] = Head(stream).status]
    /\ stream' = Tail(stream)
    /\ UNCHANGED <<vm, ops, bridge, userCb, state, seen, pc, rpc, old, new>>

\* An event line: handleEvent returns at once without a bridge; with one,
\* the bridge's setState swaps the state under stateMu.
handleEvent ==
    /\ rpc = "read"
    /\ stream # << >>
    /\ Head(stream).kind = "event"
    /\ stream' = Tail(stream)
    /\ IF bridge
          THEN LET s == EventState(Head(stream).ev) IN
               /\ old' = [old EXCEPT !["reader"] = state]
               /\ new' = [new EXCEPT !["reader"] = s]
               /\ state' = s
               /\ rpc' = "notify"
          ELSE UNCHANGED <<old, new, state, rpc>>
    /\ UNCHANGED <<vm, ops, bridge, userCb, seen, pc, resp>>

ReaderNotify ==
    /\ rpc = "notify"
    /\ Notify("reader")
    /\ rpc' = "read"
    /\ UNCHANGED <<vm, ops, stream, bridge, userCb, state, pc, resp, old, new>>

Next ==
    \/ GuestOp
    \/ InstallBridge
    \/ SetStateChangeCallback
    \/ \E c \in Users : UserQuery(c)
    \/ \E c \in Callers :
          QueryState(c) \/ Reply(c) \/ QueryFail(c) \/ SetStateWrite(c) \/ SetStateNotify(c)
    \/ ReadReply
    \/ handleEvent
    \/ ReaderNotify

Spec == Init /\ [][Next]_vars

-----------------------------------------------------------------------------
(* Properties.                                                             *)

TypeOK ==
    /\ vm \in RunStates
    /\ ops \in 0..MaxGuestOps
    /\ state \in States
    /\ \A k \in DOMAIN seen : seen[k] \in States
    /\ pc \in [Callers -> {"install", "wait", "query", "await", "write", "notify", "done"}]
    /\ rpc \in {"read", "notify"}

\* The eventLoop has applied every line QEMU wrote, and no setState is
\* between its unlock and its callback.
Settled == stream = << >> /\ rpc = "read" /\ \A c \in Callers : pc[c] # "notify"

\* Once QEMU's events are all applied, every setState has finished and
\* State() agrees with QEMU, the last state the user's callback was
\* called with is that state: a program that keeps the state its callback
\* reports agrees with the Instance (spec 3: the instance reflects VM state
\* changes and fires the callback). The condition on State() leaves out
\* the stale reply QueryStateNotStale is about. setState calls the
\* callback after releasing stateMu, so the eventLoop's and a QueryState's
\* callbacks may run in the opposite order of their writes, and a later
\* event that changes nothing (old = s) calls no callback to correct it.
LastNotifiedIsCurrent ==
    (Settled /\ seen # << >> /\ state = parseQMPStatus(vm))
        => seen[Len(seen)] = state
=============================================================================
