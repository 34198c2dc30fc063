------------------------------- MODULE Launch -------------------------------
(***************************************************************************)
(* The two entry paths of src/instance.go, StartContext and AttachContext, *)
(* with waitForSocket and the connect half of newQMP (net.Dial,            *)
(* readGreeting, negotiate), run by several goroutines against shared      *)
(* socket paths and the QEMU processes behind them.                        *)
(*                                                                         *)
(* A socket path is a directory entry: absent, a dead socket left by an    *)
(* earlier QEMU (Stale), or the socket QEMU q bound. QEMU binds its        *)
(* -chardev socket,server=on by unlinking the path and binding it anew,    *)
(* and its monitor serves one client at a time: a further connect is only  *)
(* queued by the kernel until the client leaves. The commands after        *)
(* negotiate (callback, QueryState) are the Qmp module's.                  *)
(*                                                                         *)
(* AttachByPIDContext reads the argument vector of a started QEMU          *)
(* (runutil.ArgsOf), finds the QMP socket in it (findSocketFromArgs) and   *)
(* goes on as AttachContext. An argument is a record: a flag, or an option *)
(* string split at its commas into parts [k, v] (k = "" for a bare word). *)
(* A chardev id is a sequence of words, so strings.Contains(id, w) is the  *)
(* membership of w; a VM's name is identified with its socket path.       *)
(***************************************************************************)
EXTENDS Integers, Sequences, FiniteSets, Functions, SequencesExt

CONSTANTS
    Starters,   \* goroutines starting a QEMU each
    Starts,     \* which: "StartContext" or "StartVMContext"
    Attachers,  \* goroutines calling AttachContext
    PidAttachers, \* goroutines calling AttachByPIDContext
    Target,     \* the starter whose QEMU's pid each of them is given
    ExtraArgs,  \* the cfg.ExtraArgs each starter is given
    Serials,    \* VMConfig.Serials of a StartVMContext: [type, path]
    Chardevs,   \* VMConfig.Chardevs of a StartVMContext: [id, backend, path]
    Name,       \* the socket path each call uses: <dir>/<cfg.Name>.sock
    NoQemu,     \* no socket at a path / no connection
    Stale,      \* a socket file whose QEMU is gone
    MaxTicks    \* 100 ms polls before waitForSocket's 10 s deadline

ASSUME /\ Starters \cap Attachers = {}
       /\ PidAttachers \cap (Starters \cup Attachers) = {}
       /\ DOMAIN Name = Starters \cup Attachers
       /\ Target \in [PidAttachers -> Starters]
       /\ Starts \in [Starters -> {"StartContext", "StartVMContext"}]
       /\ DOMAIN ExtraArgs = Starters
       /\ DOMAIN Serials = Starters /\ DOMAIN Chardevs = Starters
       /\ \A q \in Starters : Len(Serials[q]) <= 4
       /\ MaxTicks \in Nat

Actors == Starters \cup Attachers \cup PidAttachers

Part(k, v) == [k |-> k, v |-> v]
Flag(f)    == [flag |-> f, parts |-> << Part("", f) >>]
Opt(ps)    == [flag |-> "", parts |-> ps]


VARIABLES
    file,       \* path -> NoQemu, Stale or the QEMU whose socket it names
    qemu,       \* QEMU of each starter: none, booting, listening, dead
    killedBy,   \* why that QEMU died: none, exit, start, ctx, stop
    client,     \* QEMU -> the actor whose connection its monitor serves
    pc,         \* where each call is
    conn,       \* QEMU an actor's transport is connected to
    cancelled,  \* the ctx a starter passed to StartContext is done
    ticks,      \* waitForSocket polls so far
    found       \* the socket path findSocketFromArgs returned

vars == <<file, qemu, killedBy, client, pc, conn, cancelled, ticks, found>>

Pcs == {"idle", "spawn", "wait", "stat", "dial", "greet", "negotiate", "done",
        "failed", "stopped"}

\* Mutant of SocketPath: the path built from cfg.Name before a name is
\* generated, the same for every call.
SocketPathShared(x) == CHOOSE p \in {Name[i] : i \in Starters} : TRUE

\* filepath.Join(socketDir, name+".sock"); for AttachByPIDContext the path
\* found in the process arguments.
SocketPath(x) == IF x \in PidAttachers THEN found[x] ELSE Name[x]

NameArgs(q) ==
    << Flag("-name"), Opt(<< Part("guest", Name[q]), Part("debug-threads", "on") >>) >>

\* buildControlSocket (and the same two options in buildArgs).
buildControlSocket(path) ==
    IF path = "" THEN << >> ELSE
    << Flag("-chardev"),
       Opt(<< Part("", "socket"), Part("id", <<"qmp">>), Part("path", path),
              Part("server", "on"), Part("wait", "off") >>),
       Flag("-mon"),
       Opt(<< Part("chardev", <<"qmp">>), Part("id", <<"monitor">>), Part("mode", "control") >>) >>

\* buildArgs(cfg, name, socketPath), reduced to the arguments a scan for
\* -name and -chardev reads: -name and the QMP chardev come first, the
\* machine, CPU, memory, drive, netdev, device, VNC and SPICE options
\* (none of them a -name or -chardev) are left out, cfg.ExtraArgs last.
buildArgs(q) ==
    NameArgs(q) \o << Flag("-display"), Opt(<< Part("", "none") >>) >>
    \o buildControlSocket(Name[q]) \o ExtraArgs[q]

\* The id "serial<i>" of the i-th serial (1-based here, 0-based in Go).
SerialId(i) == << "serial", <<"0", "1", "2", "3">>[i] >>

\* One iteration of buildSerials for a serial with Server set, Wait unset
\* and no Device: the chardev and its default isa-serial device.
buildSerial(sr, i) ==
    << Flag("-chardev"),
       Opt(<< Part("", sr.type), Part("id", SerialId(i)) >>
           \o (IF sr.path # "" THEN << Part("path", sr.path) >> ELSE << >>)
           \o << Part("server", "on"), Part("wait", "off") >>),
       Flag("-device"),
       Opt(<< Part("", "isa-serial"), Part("chardev", SerialId(i)),
              Part("id", SerialId(i) \o <<"device">>) >>) >>

\* buildChardevArgs for a server chardev that does not wait: nothing
\* without an ID; host, port, reconnect and name= are left out.
buildChardevArgs(c) ==
    IF c.id = << >> THEN << >>
    ELSE << Flag("-chardev"),
            Opt(<< Part("", c.backend), Part("id", c.id) >>
                \o (IF c.path # "" THEN << Part("path", c.path) >> ELSE << >>)
                \o << Part("server", "on"), Part("wait", "off") >>) >>

\* VMBuilder.Build(name, socketPath) as StartVMContext calls it, reduced
\* the same way: -name first; the machine to audio steps emit no -name or
\* -chardev; then buildControlSocket, the disk to virtio-serial steps
\* (none), buildSerials, buildChardevs, the USB to misc steps (none) and
\* ExtraArgs.
Build(q) ==
    NameArgs(q) \o buildControlSocket(Name[q])
    \o FlattenSeq([i \in DOMAIN Serials[q] |-> buildSerial(Serials[q][i], i)])
    \o FlattenSeq([i \in DOMAIN Chardevs[q] |-> buildChardevArgs(Chardevs[q][i])])
    \o ExtraArgs[q]

\* The argument vector of starter q's QEMU.
Argv(q) == IF Starts[q] = "StartVMContext" THEN Build(q) ELSE buildArgs(q)

\* The path= values of an argument vector.
ArgPaths(args) ==
    UNION {{o.parts[k].v : k \in {k \in 1..Len(o.parts) : o.parts[k].k = "path"}} :
           o \in {o \in Range(args) : o.flag = ""}}

\* The QMP socket paths, and the other sockets the starters' QEMUs name.
QmpPaths == {Name[x] : x \in DOMAIN Name}
Paths == QmpPaths \cup UNION {ArgPaths(Argv(q)) : q \in Starters}

\* strings.HasPrefix(chardev, "socket,").
IsSocket(o) == Len(o.parts) > 1 /\ o.parts[1] = Part("", "socket")

\* An id= part whose id contains "monitor" or "qmp".
IsMonitor(o) ==
    \E k \in 2..Len(o.parts) :
        o.parts[k].k = "id" /\ \E w \in Range(o.parts[k].v) : w \in {"monitor", "qmp"}

\* The last path= part, or "".
PathOf(o) ==
    LET ks == {k \in 2..Len(o.parts) : o.parts[k].k = "path"}
    IN IF ks = {} THEN "" ELSE o.parts[CHOOSE k \in ks : \A j \in ks : j <= k].v

SocketHit(args, i) ==
    /\ args[i].flag = "-chardev"
    /\ IsSocket(args[i + 1]) /\ IsMonitor(args[i + 1]) /\ PathOf(args[i + 1]) # ""

\* Mutant of findSocketFromArgs: the scan does not return at the first
\* match, so a later monitor chardev wins.
FindSocketFromArgsLast(args) ==
    LET hits == {i \in 1..Len(args) - 1 : SocketHit(args, i)}
    IN IF hits = {} THEN ""
       ELSE PathOf(args[(CHOOSE i \in hits : \A j \in hits : j <= i) + 1])

\* findSocketFromArgs: the path of the first -chardev socket,... whose id
\* contains "monitor" or "qmp" and that has a path.
FindSocketFromArgs(args) ==
    LET hits == {i \in 1..Len(args) - 1 : SocketHit(args, i)}
    IN IF hits = {} THEN ""
       ELSE PathOf(args[(CHOOSE i \in hits : \A j \in hits : i <= j) + 1])

\* AttachByPIDContext's -name scan: the first -name; "guest=<NAME>,..."
\* gives NAME, a value without "=" is the name, anything else keeps the
\* name AttachContext took from the socket path (dflt).
NameFromArgs(args, dflt) ==
    LET ns == {i \in 1..Len(args) - 1 : args[i].flag = "-name"}
        o  == args[(CHOOSE i \in ns : \A j \in ns : i <= j) + 1].parts
    IN CASE ns = {}                        -> dflt
         [] o[1].k = "guest"               -> o[1].v
         [] Len(o) = 1 /\ o[1].k = ""      -> o[1].v
         [] OTHER                          -> dflt

\* A connect to the path reaches a QEMU that listens on it.
Listening(p) == file[p] \in Starters /\ qemu[file[p]] = "listening"

Alive(q) == qemu[q] \in {"booting", "listening"}

\* cmd.Process.Kill() or a SIGKILL of starter q's process group; the
\* monitor connection of a dead QEMU is gone.
Kill(q, why) ==
    /\ qemu' = [qemu EXCEPT ![q] = IF Alive(q) THEN "dead" ELSE @]
    /\ killedBy' = [killedBy EXCEPT ![q] = IF Alive(q) THEN why ELSE @]

\* Mutant of FailCall: the error is returned without cmd.Process.Kill().
FailCallNoKill(x) ==
    /\ pc' = [pc EXCEPT ![x] = "failed"]
    /\ UNCHANGED <<qemu, killedBy, client>>

\* A call that fails after cmd.Start kills its QEMU; AttachContext has
\* none to kill.
FailCall(x) ==
    /\ pc' = [pc EXCEPT ![x] = "failed"]
    /\ IF x \in Starters
          THEN Kill(x, "start") /\ client' = [client EXCEPT ![x] = NoQemu]
          ELSE UNCHANGED <<qemu, killedBy, client>>

-----------------------------------------------------------------------------
(* StartContext.                                                           *)

\* Validate, LocateQemu and ensureSocketDir fail before anything is done.
StartInvalid(i) ==
    /\ pc[i] = "idle"
    /\ pc' = [pc EXCEPT ![i] = "failed"]
    /\ UNCHANGED <<file, qemu, killedBy, client, conn, cancelled, ticks>>
    /\ UNCHANGED found

\* os.Remove(socketPath): whatever is at the path, live or stale.
RemoveStale(i) ==
    /\ pc[i] = "idle"
    /\ file' = [file EXCEPT ![SocketPath(i)] = NoQemu]
    /\ pc' = [pc EXCEPT ![i] = "spawn"]
    /\ UNCHANGED <<qemu, killedBy, client, conn, cancelled, ticks>>
    /\ UNCHANGED found

\* cmd.Start(): QEMU runs, in its own process group.
Spawn(i) ==
    /\ pc[i] = "spawn"
    /\ qemu' = [qemu EXCEPT ![i] = "booting"]
    /\ pc' = [pc EXCEPT ![i] = "wait"]
    /\ UNCHANGED <<file, killedBy, client, conn, cancelled, ticks>>
    /\ UNCHANGED found

SpawnFail(i) ==
    /\ pc[i] = "spawn"
    /\ pc' = [pc EXCEPT ![i] = "failed"]
    /\ UNCHANGED <<file, qemu, killedBy, client, conn, cancelled, ticks>>
    /\ UNCHANGED found

\* Mutant of WaitForSocket: the loop has no deadline.
WaitForSocketNoDeadline(i) ==
    /\ pc[i] = "wait"
    /\ CASE cancelled[i] -> FailCall(i) /\ UNCHANGED <<file, conn, ticks>>
         [] Listening(SocketPath(i)) ->
                /\ pc' = [pc EXCEPT ![i] = "dial"]
                /\ UNCHANGED <<file, qemu, killedBy, client, conn, ticks>>
         [] OTHER ->
                /\ ticks' = [ticks EXCEPT ![i] = @ + 1]
                /\ UNCHANGED <<file, qemu, killedBy, client, pc, conn>>
    /\ UNCHANGED cancelled
    /\ UNCHANGED found

\* One waitForSocket iteration: ctx.Done, else a probe net.Dial (closed at
\* once), else sleep; past the deadline, the timeout. Start kills QEMU on
\* either error.
WaitForSocket(i) ==
    /\ pc[i] = "wait"
    /\ CASE cancelled[i] \/ (~Listening(SocketPath(i)) /\ ticks[i] = MaxTicks) ->
                /\ FailCall(i)
                /\ UNCHANGED <<file, conn, ticks>>
         [] Listening(SocketPath(i)) ->
                /\ pc' = [pc EXCEPT ![i] = "dial"]
                /\ UNCHANGED <<file, qemu, killedBy, client, conn, ticks>>
         [] OTHER ->
                /\ ticks' = [ticks EXCEPT ![i] = @ + 1]
                /\ UNCHANGED <<file, qemu, killedBy, client, pc, conn>>
    /\ UNCHANGED cancelled
    /\ UNCHANGED found

-----------------------------------------------------------------------------
(* AttachContext, and the newQMP steps both paths share.                   *)

\* AttachByPIDContext: runutil.ArgsOf(pid) reads the arguments of a live
\* process (else an error), findSocketFromArgs finds the socket (else an
\* error), then AttachContext runs on it.
ArgsOf(a) ==
    /\ pc[a] = "idle"
    /\ IF Alive(Target[a])
          THEN LET p == FindSocketFromArgs(Argv(Target[a])) IN
               /\ found' = [found EXCEPT ![a] = p]
               /\ pc' = [pc EXCEPT ![a] = IF p = "" THEN "failed" ELSE "stat"]
          ELSE /\ pc' = [pc EXCEPT ![a] = "failed"]
               /\ UNCHANGED found
    /\ UNCHANGED <<file, qemu, killedBy, client, conn, cancelled, ticks>>

\* os.Stat(socketPath): any file passes, a stale one too.
AttachStat(a) ==
    /\ pc[a] = IF a \in PidAttachers THEN "stat" ELSE "idle"
    /\ pc' = [pc EXCEPT ![a] = IF file[SocketPath(a)] = NoQemu THEN "failed" ELSE "dial"]
    /\ UNCHANGED <<file, qemu, killedBy, client, conn, cancelled, ticks, found>>

\* Mutant of Dial: a refused connect is retried instead of failing.
DialNoFail(x) ==
    /\ pc[x] = "dial"
    /\ Listening(SocketPath(x))
    /\ conn' = [conn EXCEPT ![x] = file[SocketPath(x)]]
    /\ pc' = [pc EXCEPT ![x] = "greet"]
    /\ UNCHANGED <<qemu, killedBy, client, file, cancelled, ticks>>
    /\ UNCHANGED found

\* newQMP: net.Dial("unix", socketPath) connects to whichever QEMU listens
\* on the path now; the kernel queues it even when the monitor is busy.
Dial(x) ==
    /\ pc[x] = "dial"
    /\ IF Listening(SocketPath(x))
          THEN /\ conn' = [conn EXCEPT ![x] = file[SocketPath(x)]]
               /\ pc' = [pc EXCEPT ![x] = "greet"]
               /\ UNCHANGED <<qemu, killedBy, client>>
          ELSE /\ FailCall(x)
               /\ UNCHANGED conn
    /\ UNCHANGED <<file, cancelled, ticks>>
    /\ UNCHANGED found

\* readGreeting: a blocking byte read with no deadline. The greeting comes
\* when the monitor accepts this connection; a dead QEMU ends the read.
Greet(x) ==
    /\ pc[x] = "greet"
    /\ \/ /\ qemu[conn[x]] = "listening"
          /\ client[conn[x]] = NoQemu
          /\ client' = [client EXCEPT ![conn[x]] = x]
          /\ pc' = [pc EXCEPT ![x] = "negotiate"]
          /\ UNCHANGED <<qemu, killedBy>>
       \/ /\ qemu[conn[x]] = "dead"
          /\ FailCall(x)
    /\ UNCHANGED <<file, conn, cancelled, ticks>>
    /\ UNCHANGED found

\* negotiate: qmp_capabilities answered, or the connection closed.
Negotiate(x) ==
    /\ pc[x] = "negotiate"
    /\ IF qemu[conn[x]] = "listening"
          THEN /\ pc' = [pc EXCEPT ![x] = "done"]
               /\ UNCHANGED <<qemu, killedBy, client>>
          ELSE FailCall(x)
    /\ UNCHANGED <<file, conn, cancelled, ticks>>
    /\ UNCHANGED found

\* ForceStop then cleanup on a started instance: SIGKILL to its own
\* process group, close the transport, os.Remove(socketPath).
Stop(i) ==
    /\ pc[i] = "done"
    /\ Kill(i, "stop")
    /\ client' = [client EXCEPT ![i] = NoQemu, ![conn[i]] = NoQemu]
    /\ file' = [file EXCEPT ![SocketPath(i)] = NoQemu]
    /\ pc' = [pc EXCEPT ![i] = "stopped"]
    /\ UNCHANGED <<conn, cancelled, ticks>>
    /\ UNCHANGED found

-----------------------------------------------------------------------------
(* QEMU and the caller's context.                                          *)

\* The chardev socket server: unlink the path, bind and listen on it.
Bind(q) ==
    /\ qemu[q] = "booting"
    /\ qemu' = [qemu EXCEPT ![q] = "listening"]
    /\ file' = [file EXCEPT ![Name[q]] = q]
    /\ UNCHANGED <<killedBy, client, pc, conn, cancelled, ticks>>
    /\ UNCHANGED found

\* QEMU exits on its own (bad arguments, guest power-off, crash).
QemuExit(q) ==
    /\ Alive(q)
    /\ qemu' = [qemu EXCEPT ![q] = "dead"]
    /\ killedBy' = [killedBy EXCEPT ![q] = "exit"]
    /\ client' = [client EXCEPT ![q] = NoQemu]
    /\ UNCHANGED <<file, pc, conn, cancelled, ticks>>
    /\ UNCHANGED found

\* The ctx passed to StartContext is done (cancelled or timed out).
Cancel(i) ==
    /\ pc[i] # "idle"
    /\ ~cancelled[i]
    /\ cancelled' = [cancelled EXCEPT ![i] = TRUE]
    /\ UNCHANGED <<file, qemu, killedBy, client, pc, conn, ticks>>
    /\ UNCHANGED found

\* exec.CommandContext: from cmd.Start until cmd.Wait, which is never
\* called, a done ctx makes os/exec kill the process.
CtxKill(i) ==
    /\ cancelled[i]
    /\ Alive(i)
    /\ Kill(i, "ctx")
    /\ client' = [client EXCEPT ![i] = NoQemu]
    /\ UNCHANGED <<file, pc, conn, cancelled, ticks>>
    /\ UNCHANGED found

Init ==
    /\ file \in {f \in [Paths -> {NoQemu, Stale}] : \A p \in Paths \ QmpPaths : f[p] = NoQemu}
    /\ qemu = [q \in Starters |-> "none"]
    /\ killedBy = [q \in Starters |-> "none"]
    /\ client = [q \in Starters |-> NoQemu]
    /\ pc = [x \in Actors |-> "idle"]
    /\ conn = [x \in Actors |-> NoQemu]
    /\ cancelled = [i \in Starters |-> FALSE]
    /\ ticks = [i \in Starters |-> 0]
    /\ found = [a \in PidAttachers |-> ""]

StarterNext(i) ==
    \/ StartInvalid(i) \/ RemoveStale(i) \/ Spawn(i) \/ SpawnFail(i)
    \/ WaitForSocket(i) \/ Stop(i)
    \/ Bind(i) \/ QemuExit(i) \/ Cancel(i) \/ CtxKill(i)

ConnectNext(x) == Dial(x) \/ Greet(x) \/ Negotiate(x)

Next ==
    \/ \E i \in Starters : StarterNext(i)
    \/ \E a \in Attachers \cup PidAttachers : AttachStat(a)
    \/ \E a \in PidAttachers : ArgsOf(a)
    \/ \E x \in Actors : ConnectNext(x)

\* A call under way is run by its goroutine; QEMU binds the socket it was
\* started with; os/exec's context watcher runs once the ctx is done.
\* Starting a call, Stop, a cancellation and QEMU exiting are not assumed.
Fairness ==
    /\ \A i \in Starters :
          /\ WF_vars(Spawn(i) \/ SpawnFail(i))
          /\ WF_vars(WaitForSocket(i))
          /\ WF_vars(Bind(i))
          /\ WF_vars(CtxKill(i))
    /\ \A a \in PidAttachers : WF_vars(AttachStat(a))
    /\ \A x \in Actors :
          WF_vars(Dial(x)) /\ WF_vars(Greet(x)) /\ WF_vars(Negotiate(x))

Spec == Init /\ [][Next]_vars /\ Fairness

-----------------------------------------------------------------------------
(* Properties.                                                             *)

TypeOK ==
    /\ file \in [Paths -> Starters \cup {NoQemu, Stale}]
    /\ qemu \in [Starters -> {"none", "booting", "listening", "dead"}]
    /\ killedBy \in [Starters -> {"none", "exit", "start", "ctx", "stop"}]
    /\ client \in [Starters -> Actors \cup {NoQemu}]
    /\ pc \in [Actors -> Pcs]
    /\ conn \in [Actors -> Starters \cup {NoQemu}]
    /\ cancelled \in [Starters -> BOOLEAN]
    /\ ticks \in [Starters -> 0..MaxTicks]
    /\ found \in [PidAttachers -> Paths \cup {""}]

InCall == {"spawn", "wait", "stat", "dial", "greet", "negotiate"}

\* Every StartContext, AttachContext and AttachByPIDContext call returns: waitForSocket has a
\* deadline, and each blocking read of newQMP ends (spec 5: waitForSocket
\* is the only blocking step of start besides a short QMP round-trip).
CallsReturn ==
    \A x \in Actors : pc[x] \in InCall ~> pc[x] \in {"done", "failed"}

\* x waits in readGreeting behind another client that holds the monitor of
\* the QEMU it dialled: QEMU queues the connect and sends no greeting.
MonitorHeldByOther(x) ==
    /\ pc[x] = "greet"
    /\ client[conn[x]] \notin {NoQemu, x}

\* Every call returns unless it is the readGreeting hang behind a monitor
\* another call holds (the reason CallsReturn fails): waitForSocket's
\* deadline, the dial, the reads of newQMP, and the failure paths of
\* StartContext, AttachContext and AttachByPIDContext all end the call.
CallsReturnUnlessMonitorHeld ==
    \A x \in Actors :
        pc[x] \in InCall ~> (pc[x] \in {"done", "failed"} \/ MonitorHeldByOther(x))

\* A StartContext that fails after cmd.Start leaves no QEMU of its own
\* running: waitForSocket's error, a dial, greeting or negotiate failure
\* all kill the process (spec 4.5 steps 6 and 7).
FailedStartKillsQemu ==
    \A i \in Starters : pc[i] = "failed" => ~Alive(i)

\* The transport a StartContext connects is to the QEMU it spawned, so the
\* instance's process and its QMP connection are one VM.
ConnectedToOwnQemu ==
    \A i \in Starters : pc[i] \in {"greet", "negotiate", "done"} => conn[i] = i

\* The ctx of StartContext bounds the start only (spec 5: start honours a
\* cancellation token): a VM StartContext returned is not killed because
\* that ctx is done afterwards.
StartedQemuOutlivesCtx ==
    \A i \in Starters : pc[i] = "done" => killedBy[i] # "ctx"

\* AttachByPIDContext given the pid of a QEMU that StartContext started
\* attaches to that VM: findSocketFromArgs picks the QMP socket even when
\* cfg.ExtraArgs adds another monitor chardev with a path, the transport
\* connects to that QEMU, and the -name scan recovers the VM's name.
AttachByPidFindsTarget ==
    \A a \in PidAttachers :
        /\ pc[a] \in {"stat", "dial", "greet", "negotiate", "done"}
              => found[a] = Name[Target[a]]
        /\ pc[a] \in {"greet", "negotiate", "done"} => conn[a] = Target[a]
        /\ pc[a] = "done"
              => NameFromArgs(Argv(Target[a]), found[a]) = Name[Target[a]]
=============================================================================
