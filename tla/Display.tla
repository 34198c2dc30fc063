------------------------------- MODULE Display -------------------------------
(***************************************************************************)
(* Display client hand-over (src/display.go) over the QMP fd-passing path  *)
(* (QMP.ExecuteWithFd, src/unnamed/part_001). Each caller goroutine runs    *)
(* one of AddVNCClient/AddSpiceClient (getfd with SCM_RIGHTS, then          *)
(* add_client naming the fd) or Set/ExpireVNC/SpicePassword on one         *)
(* Instance. QEMU's monitor is the environment: it executes commands in    *)
(* the order they were written and keeps a table of named fds. The         *)
(* instance may be cleaned up, and QEMU may die, at any time.              *)
(***************************************************************************)
EXTENDS Integers, Sequences, FiniteSets

CONSTANTS
    Callers,    \* goroutines calling the display methods on one Instance
    Protocols,  \* "vnc", "spice"
    Displays,   \* the protocols QEMU was started with (the rest fail in QEMU)
    Clock,      \* time.Now().UnixNano() readings a call can observe
    Resolution, \* how far the clock moves between two reads (0: coarse)
    NoConn      \* no client connection

ASSUME Displays \subseteq Protocols /\ NoConn \notin Callers
       /\ Resolution \in {0, 1} /\ Clock \subseteq Nat \ {0}

\* A client connection is named by the caller that hands it over.
Conns == Callers

\* fdName: fmt.Sprintf("%s-client-%d", protocol, time.Now().UnixNano()).
FdNames == Protocols \X Clock

Cmds == {"getfd", "add_client", "password"}

VARIABLES
    instQmp,    \* i.qmp != nil
    connOpen,   \* q.conn != nil (Close not yet called)
    readerUp,   \* q.pending != nil, closeCh open: the reader runs
    pending,    \* q.pending: <<caller, command>> awaiting a reply
    qemuUp,     \* the QEMU process lives
    queue,      \* commands written to the socket, not yet executed by QEMU
    fds,        \* QEMU's monitor fd table: fd name -> connection
    served,     \* <<protocol, conn>> QEMU's VNC/SPICE server has taken over
    pc,         \* each caller's place in its call
    op,         \* the call a caller makes: [kind, proto]
    fdName,     \* the name addClientFd generated
    answer,     \* the reply the reader put in the caller's respCh
    result,     \* what the call returned
    now         \* the last clock reading

vars == <<instQmp, connOpen, readerUp, pending, qemuUp, queue, fds, served,
          pc, op, fdName, answer, result, now>>

transport == <<instQmp, connOpen, readerUp, qemuUp>>

Ops == [kind : {"add", "password"}, proto : Protocols]

NoOp == [kind |-> "none", proto |-> "none"]

NoName == <<"none", 0>>

PCs == {"idle", "getfd_register", "getfd_send", "getfd_wait",
        "add_send", "add_wait", "pw_send", "pw_wait", "done"}

WaitCmd == [p \in {"getfd_wait", "add_wait", "pw_wait"} |->
               CASE p = "getfd_wait" -> "getfd"
                 [] p = "add_wait"   -> "add_client"
                 [] p = "pw_wait"    -> "password"]

-----------------------------------------------------------------------------
(* The caller's side.                                                      *)

Return(c, r) ==
    /\ pc' = [pc EXCEPT ![c] = "done"]
    /\ result' = [result EXCEPT ![c] = r]

\* Mutant of Call: the fd name leaves out the clock reading.
CallFixedName(c) ==
    /\ pc[c] = "idle"
    /\ instQmp
    /\ \E o \in Ops :
        /\ o.kind = "add"
        /\ op' = [op EXCEPT ![c] = o]
        /\ fdName' = [fdName EXCEPT ![c] = <<o.proto, CHOOSE t \in Clock : TRUE>>]
        /\ pc' = [pc EXCEPT ![c] = "getfd_register"]
    /\ UNCHANGED <<transport, pending, queue, fds, served, answer, result, now>>

\* AddVNCClient / AddSpiceClient / Set*Password / Expire*Password: read
\* i.qmp under qmpMu, fail "not connected" when nil; for a client, dup the
\* connection's fd (connToFd, which fails on a conn without File()) and
\* enter addClientFd, which names the fd by protocol and the clock.
Call(c) ==
    /\ pc[c] = "idle"
    /\ \E o \in Ops :
        /\ op' = [op EXCEPT ![c] = o]
        /\ \/ /\ ~instQmp
              /\ Return(c, "err")
              /\ UNCHANGED <<fdName, now>>
           \/ /\ instQmp
              /\ o.kind = "password"
              /\ pc' = [pc EXCEPT ![c] = "pw_send"]
              /\ UNCHANGED <<fdName, result, now>>
           \/ /\ instQmp
              /\ o.kind = "add"
              /\ Return(c, "err")
              /\ UNCHANGED <<fdName, now>>
           \/ /\ instQmp
              /\ o.kind = "add"
              /\ \E t \in Clock :
                    /\ t >= now + Resolution
                    /\ now' = t
                    /\ fdName' = [fdName EXCEPT ![c] = <<o.proto, t>>]
              /\ pc' = [pc EXCEPT ![c] = "getfd_register"]
              /\ UNCHANGED result
    /\ UNCHANGED <<transport, pending, queue, fds, served, answer>>

\* ExecuteWithFd: register respCh in q.pending, or fail when the reader
\* has set it to nil.
FdRegister(c) ==
    /\ pc[c] = "getfd_register"
    /\ IF readerUp
          THEN /\ pending' = pending \cup {<<c, "getfd">>}
               /\ pc' = [pc EXCEPT ![c] = "getfd_send"]
               /\ UNCHANGED result
          ELSE /\ Return(c, "err")
               /\ UNCHANGED pending
    /\ UNCHANGED <<transport, queue, fds, served, op, fdName, answer, now>>

\* ExecuteWithFd under connMu: fail when q.conn is nil, else one sendmsg
\* of the command with the fd as SCM_RIGHTS (EPIPE once QEMU is gone). A
\* failure returns, and the deferred delete drops the pending entry.
FdSend(c) ==
    /\ pc[c] = "getfd_send"
    /\ IF connOpen /\ qemuUp
          THEN /\ queue' = Append(queue, [caller |-> c, cmd |-> "getfd",
                                          name |-> fdName[c], proto |-> op[c].proto])
               /\ pc' = [pc EXCEPT ![c] = "getfd_wait"]
               /\ UNCHANGED <<pending, result>>
          ELSE /\ pending' = pending \ {<<c, "getfd">>}
               /\ Return(c, "err")
               /\ UNCHANGED queue
    /\ UNCHANGED <<transport, fds, served, op, fdName, answer, now>>

\* Execute (add_client after a successful getfd, or set_password /
\* expire_password): register, then write under connMu; either failure
\* returns an error.
ExecSend(c) ==
    LET cmd == IF pc[c] = "add_send" THEN "add_client" ELSE "password" IN
    /\ pc[c] \in {"add_send", "pw_send"}
    /\ IF readerUp /\ connOpen /\ qemuUp
          THEN /\ pending' = pending \cup {<<c, cmd>>}
               /\ queue' = Append(queue, [caller |-> c, cmd |-> cmd,
                                          name |-> fdName[c], proto |-> op[c].proto])
               /\ pc' = [pc EXCEPT ![c] = IF cmd = "add_client" THEN "add_wait" ELSE "pw_wait"]
               /\ UNCHANGED result
          ELSE /\ Return(c, "err")
               /\ UNCHANGED <<pending, queue>>
    /\ UNCHANGED <<transport, fds, served, op, fdName, answer, now>>

\* The select's reply case: the deferred delete, then getfd goes on to
\* add_client or returns "failed to pass fd"; add_client and the password
\* commands return the reply.
Reply(c) ==
    /\ pc[c] \in DOMAIN WaitCmd
    /\ answer[c] # "none"
    /\ pending' = pending \ {<<c, WaitCmd[pc[c]]>>}
    /\ answer' = [answer EXCEPT ![c] = "none"]
    /\ IF pc[c] = "getfd_wait" /\ answer[c] = "ok"
          THEN /\ pc' = [pc EXCEPT ![c] = "add_send"]
               /\ UNCHANGED result
          ELSE Return(c, answer[c])
    /\ UNCHANGED <<transport, queue, fds, served, op, fdName, now>>

\* Mutant of Timeout: the return skips the deferred delete.
TimeoutNoDelete(c) ==
    /\ pc[c] \in DOMAIN WaitCmd
    /\ answer' = [answer EXCEPT ![c] = "none"]
    /\ Return(c, "err")
    /\ UNCHANGED <<transport, pending, queue, fds, served, op, fdName, now>>

\* The 30 s timer fires first: return a timeout error.
Timeout(c) ==
    /\ pc[c] \in DOMAIN WaitCmd
    /\ pending' = pending \ {<<c, WaitCmd[pc[c]]>>}
    /\ answer' = [answer EXCEPT ![c] = "none"]
    /\ Return(c, "err")
    /\ UNCHANGED <<transport, queue, fds, served, op, fdName, now>>

\* Mutant of Closed: the select has no closeCh case.
ClosedMissing(c) ==
    /\ pc[c] \in DOMAIN WaitCmd
    /\ FALSE
    /\ UNCHANGED vars

\* closeCh is closed: return "QMP connection closed".
Closed(c) ==
    /\ pc[c] \in DOMAIN WaitCmd
    /\ ~readerUp
    /\ answer' = [answer EXCEPT ![c] = "none"]
    /\ Return(c, "err")
    /\ UNCHANGED <<transport, pending, queue, fds, served, op, fdName, now>>

-----------------------------------------------------------------------------
(* QEMU, the reader goroutine and the rest of the Instance.                *)

\* QEMU executes the oldest command. getfd stores the fd under its name,
\* replacing (and closing) one of the same name. add_client takes the
\* named fd out of the table (monitor_get_fd) and hands it to the
\* protocol's server, or closes it when that display is not in use;
\* without the name it fails. The reader dispatches the reply to the
\* caller only while the caller's pending entry is there.
Serve ==
    LET r  == Head(queue)
        ok == CASE r.cmd = "getfd"      -> TRUE
                [] r.cmd = "add_client" -> fds[r.name] # NoConn /\ r.proto \in Displays
                [] r.cmd = "password"   -> r.proto \in Displays
    IN
    /\ qemuUp
    /\ queue # <<>>
    /\ queue' = Tail(queue)
    /\ fds' = CASE r.cmd = "getfd"      -> [fds EXCEPT ![r.name] = r.caller]
                [] r.cmd = "add_client" -> [fds EXCEPT ![r.name] = NoConn]
                [] r.cmd = "password"   -> fds
    /\ served' = IF r.cmd = "add_client" /\ ok
                    THEN served \cup {<<r.proto, fds[r.name]>>}
                    ELSE served
    /\ answer' = IF readerUp /\ <<r.caller, r.cmd>> \in pending
                    THEN [answer EXCEPT ![r.caller] = IF ok THEN "ok" ELSE "err"]
                    ELSE answer
    /\ UNCHANGED <<transport, pending, pc, op, fdName, result, now>>

\* QEMU dies; its fd table and the unread commands go with it.
QemuExit ==
    /\ qemuUp
    /\ qemuUp' = FALSE
    /\ queue' = <<>>
    /\ fds' = [n \in FdNames |-> NoConn]
    /\ UNCHANGED <<instQmp, connOpen, readerUp, pending, served, pc, op,
                   fdName, answer, result, now>>

\* eventLoop's deferred block once the read fails: pending = nil, close
\* closeCh.
ReaderExit ==
    /\ readerUp
    /\ ~qemuUp \/ ~connOpen
    /\ readerUp' = FALSE
    /\ pending' = {}
    /\ UNCHANGED <<instQmp, connOpen, qemuUp, queue, fds, served, pc, op,
                   fdName, answer, result, now>>

\* Instance.cleanup (from Stop, Quit or Wait on another goroutine): close
\* the QMP connection and set i.qmp to nil.
Cleanup ==
    /\ instQmp
    /\ instQmp' = FALSE
    /\ connOpen' = FALSE
    /\ UNCHANGED <<readerUp, qemuUp, pending, queue, fds, served, pc, op,
                   fdName, answer, result, now>>

-----------------------------------------------------------------------------

Init ==
    /\ instQmp = TRUE
    /\ connOpen = TRUE
    /\ readerUp = TRUE
    /\ pending = {}
    /\ qemuUp = TRUE
    /\ queue = <<>>
    /\ fds = [n \in FdNames |-> NoConn]
    /\ served = {}
    /\ pc = [c \in Callers |-> "idle"]
    /\ op = [c \in Callers |-> NoOp]
    /\ fdName = [c \in Callers |-> NoName]
    /\ answer = [c \in Callers |-> "none"]
    /\ result = [c \in Callers |-> "none"]
    /\ now = 0

\* The steps of a call under way.
Progress(c) ==
    \/ FdRegister(c) \/ FdSend(c) \/ ExecSend(c) \/ Reply(c) \/ Closed(c)

Next ==
    \/ \E c \in Callers : Call(c) \/ Progress(c) \/ Timeout(c)
    \/ Serve \/ QemuExit \/ ReaderExit \/ Cleanup

\* The caller's steps, QEMU executing what it was sent and the reader
\* noticing a dead connection all happen; a timer, a crash, a cleanup or a
\* new call is never forced.
Fairness ==
    /\ \A c \in Callers : WF_vars(Progress(c))
    /\ WF_vars(Serve)
    /\ WF_vars(ReaderExit)

Spec == Init /\ [][Next]_vars /\ Fairness

-----------------------------------------------------------------------------
(* Properties.                                                             *)

TypeOK ==
    /\ instQmp \in BOOLEAN /\ connOpen \in BOOLEAN
    /\ readerUp \in BOOLEAN /\ qemuUp \in BOOLEAN
    /\ pending \subseteq Callers \X Cmds
    /\ fds \in [FdNames -> Conns \cup {NoConn}]
    /\ served \subseteq Protocols \X Conns
    /\ pc \in [Callers -> PCs]
    /\ answer \in [Callers -> {"none", "ok", "err"}]
    /\ result \in [Callers -> {"none", "ok", "err"}]

\* When AddVNCClient/AddSpiceClient returns nil, QEMU's server of that
\* protocol has taken over the caller's own connection: the name getfd
\* stored it under still named it when add_client ran.
ClientServedAsItsOwn ==
    \A c \in Callers :
        result[c] = "ok" /\ op[c].kind = "add" => <<op[c].proto, c>> \in served

\* While the reader runs, q.pending holds exactly the commands of the
\* calls between registering and returning: every return path of
\* ExecuteWithFd and Execute drops its entry (the deferred delete), and
\* none is dropped while its caller still waits.
FdPendingMatchesCalls ==
    readerUp =>
        pending = {<<c, "getfd">> : c \in {d \in Callers : pc[d] = "getfd_send"}}
                  \cup {<<c, WaitCmd[pc[c]]>> : c \in {d \in Callers : pc[d] \in DOMAIN WaitCmd}}

\* Every call returns: a reply, a closed connection or an early error ends
\* it without waiting for the 30 s timer.
CallsReturn == \A c \in Callers : pc[c] # "idle" ~> pc[c] = "done"

\* Once no call is in flight and QEMU has executed everything it was sent,
\* QEMU's monitor holds no fd a display call passed: each was handed to a
\* server or closed.
NoFdLeak ==
    (qemuUp /\ queue = <<>> /\ \A c \in Callers : pc[c] \in {"idle", "done"})
        => \A n \in FdNames : fds[n] = NoConn
=============================================================================
