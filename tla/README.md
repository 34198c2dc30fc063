# TLA+ models of qemuctl

These modules model the concurrent and stateful parts of qemuctl (the Go
library in `src/`). TLC checks them. Each action is translated from the
Go source, and `PROJECT.json` maps every modelled definition to the lines
it stands for.

## The system

qemuctl starts QEMU, or attaches to a running QEMU, and controls it over
QMP, the JSON protocol QEMU speaks on a Unix socket.

| Part | Source | State | Operations | Interacts with |
|---|---|---|---|---|
| VM state | `state.go` | `State` enum | `parseQMPStatus`, `IsAlive` | QMP transport, Instance |
| QMP transport | `unnamed/part_001`, `errors.go` | `conn`, `cmdCounter`, `pending` (id → reply channel, nil after the reader exits), `closeCh`, `eventCh` (cap 100), callbacks | `newQMP`, `ExecuteWithTimeout`, `ExecuteWithFd`, `eventLoop`, `handleEvent`, `Close` | QEMU (socket), Instance (callbacks) |
| Instance lifecycle | `instance.go` | `process`, `pid`, `socketPath`, `qmp` (under `qmpMu`), `state` (under `stateMu`) | `StartContext`, `Attach*`, `QueryState`, `Continue`, `Pause`, `Reset`, `Shutdown`, `StopContext`, `ForceStop`, `Quit`, `Wait`, `cleanup` | QMP transport, the QEMU process (signals, wait), the socket file |
| PCI slot allocator | `config.go` | `nextSlot`, `used`, `bus` | `newPCISlotAllocator`, `Alloc`, `Reserve` | VM builder |
| VM builder | `builder.go`, `disk.go`, `network.go`, `config.go` | `args`, `pciAlloc`, counters | `Build` and its `build*` steps, `StartVMContext` | PCI allocator, Instance |
| Display fd passing | `display.go`, `unnamed/part_000` | none; it uses QEMU's named fds | `AddVNCClient`, `AddSpiceClient`, `addClientFd` | QMP `ExecuteWithFd` |
| QEMU location and socket directory | `locate.go`, `config.go` | none | `LocateQemu`, `socketDir`, `ensureSocketDir` | file system, the QEMU child (its working directory `/`) |
| Block and network lowering | `disk.go`, `network.go`, `config.go` | none | `buildDiskArgs`, `buildCDROMArgs`, the `BuildBlockdevArgs` backends, the throttle builders, `buildNetworkArgs` and the six `BuildNetdevArgs` backends, `buildChardevArgs`, `buildSecretArgs` | VM builder, QEMU's parser |

**Hard behaviours.** Caller goroutines run `Execute` concurrently. The
reader goroutine dispatches replies and events, and its deferred close
path runs when QEMU dies. A 30 s timer races a late reply. The
state-change callback is installed after the reader has started. Stop
polls process liveness with a 100 ms ticker against a deadline, and
`kill(pid, 0)` still succeeds on a zombie. `cleanup` runs while the reader
may still hold a line it read. The PCI allocator has a bound at slot 0x1f.

## Modules

| Module | Models | How state and actions correspond to the code |
|---|---|---|
| `VMState` | `state.go`, `QMP.handleEvent` | Pure operators: `States`, `IsAlive`, `parseQMPStatus` (unknown strings are represented by `"debug"`), and `EventState`, the event-to-state switch. |
| `Qmp` | the QMP transport with the Instance methods that drive it, plus QEMU's monitor | Variables are the `QMP` fields and the Instance's `qmp`/`state`. Each caller has a program counter through `ExecuteWithTimeout`: `ExecRegister` (counter and pending map), `ExecWrite` (under `connMu`), then `ExecReply`/`ExecTimeout`/`ExecClosed` (the `select`, followed by the deferred delete). The `eventLoop` steps are `ReadLine`, `DispatchReply`, `DispatchEvent` and `ReadFail` (the deferred block). The StartContext tail is `InstallCallback` followed by the initial `QueryState`; `Finish` is the rest of each method. QEMU (`Serve`, the `Guest*` actions, `QemuExit`, `QemuCrash`) is the environment: it executes commands in order, writes the events a command causes before its reply, and may die at any time. Each call makes its own reply channel (`respCh[c]` is the one of c's current call); `DispatchReply` sends to it only when the pending entry for the reply's id is that call's own (`ReplyTarget`), and a send to a channel an earlier call left registered is a drop, since nobody receives from it. At the end, `QC` instantiates `QmpCall` with a refinement mapping: a call is busy from registration until a reply with its id exists (on the socket, in the reader's hands or in its `respCh`), then "ran" with that reply's status; commands left in `toServer` by calls no longer waiting are the orphan bag. |
| `QmpCall` | the contract of `QMP.ExecuteWithTimeout` | The abstract call: `Invoke`, QEMU's `Run` of the call's command (the reply records the state before it), `ReturnReply`, `ReturnError` (possibly leaving the command queued), `RunOrphan` (a queued command of a returned call runs), the guest's moves, `Exit` and `Finish`. It has no transport, ids or pending map. |
| `Instance` | `StopContext`, `ForceStop`, `Quit`, `Wait`, `WaitContext`, `isProcessAlive`, `cleanup` | Three kinds of instance: spawned (`process` set, `pid` 0), attached by pid (`process` from `os.FindProcess`, not our child), and attached by socket (neither). The process is modelled as `qemuAlive` plus `reaped`, so a zombie is `~qemuAlive /\ ~reaped`. Stop's loop is `Poll`, `Sleep` (the 500 ms wait), `StopDeadline` and `StopCancel`. `Execute` is a single step that ends in a reply or an error, since `Qmp` checks its internals. The reader is kept here for the race with `cleanup`. WaitContext runs the Wait actions in its goroutine; `WaitCtxDone` is its select taking `ctx.Done()`, after which `detached` records that the goroutine runs on alone. |
| `PciSlotAllocator` | `pciSlotAllocator` | `Scan` is the `for a.used[...]` loop (RECURSIVE, with −1 for the panic). `FormatSlot` is `fmt.Sprintf("0x%x")` (RECURSIVE hex digits); `ParseSlot` reads an address back for the Builder's properties. |
| `Builder` | `VMBuilder.Build` and its `build*` steps (`builder.go`), `buildDiskArgs`/`buildCDROMArgs` (`disk.go`), `buildNetworkArgs` (`network.go`), `isQ35`/bus choice (`config.go`) | The variables are the builder's `pciAlloc` (through an INSTANCE of `PciSlotAllocator`), the config it was given, and `builds`, the device lines of each `Build` call. A device line is abstracted to its driver, bus and `addr`. `Build` is one action: every step is an operator on a record of allocator state and lines, composed in the code's order, so the model cannot skip or reorder a step. |
| `Launch` | `StartContext`, `StartVMContext`, `AttachContext`, `AttachByPIDContext`, `findSocketFromArgs`, `buildArgs` and `VMBuilder.Build` (abstracted), `waitForSocket`, `newQMP` (dial, `readGreeting`, `negotiate`) | Each caller has a `pc` through the call: `StartInvalid`, `RemoveStale` (the `os.Remove`), `Spawn`/`SpawnFail` (`cmd.Start` under `exec.CommandContext`), `WaitForSocket` (one 100 ms poll or the deadline), then `Dial`, `Greet`, `Negotiate`. `AttachStat` is AttachContext's `os.Stat`. `ArgsOf` is AttachByPIDContext reading the target's arguments and running `findSocketFromArgs`. That argument vector is `Argv`: `buildArgs` for a StartContext, `Build` for a StartVMContext (the constant `Starts` says which; the two calls share every other step, so the same actions model both). Each argument is a flag or a list of `key=value` parts. Only the options that are a `-name` or `-chardev` are kept, in the order the builder emits them: `-name`, the QMP `-chardev`/`-mon` pair (`buildControlSocket`), and for `Build` each serial port (`buildSerial`, chardev `serial<i>` and its `isa-serial` device) and each `VMConfig.Chardevs` entry (`buildChardevArgs`), then `ExtraArgs`. `found` records the socket path the scan returned. `NameFromArgs` is the `-name` scan. `file` maps each socket path to the QEMU bound there, to a stale file or to nothing; `client` is the connection each QEMU's single-client monitor is serving. QEMU's `Bind` and `QemuExit`, the caller's `Cancel` and os/exec's `CtxKill` are the environment. `Stop` is ForceStop's kill of a started VM, which frees its monitor. |
| `Display` | `addClientFd`, `AddVNCClient`, `AddSpiceClient`, `SetVNCPassword`/`SetSpicePassword` (`display.go`), `ExecuteWithFd` (`unnamed/part_001`), and QEMU's `getfd`/`add_client` | Each caller has a `pc` through the call: `Call` (the nil-qmp check, `connToFd`, and the fd name `<proto>-client-<UnixNano>`, read from a clock `now` of resolution `Resolution`), `FdRegister` (pending map), `FdSend` (`sendmsg` with SCM_RIGHTS under `connMu`), `ExecSend` (`add_client` or a password command), and the `select` as `Reply`, `Timeout` and `Closed`. `fds` is QEMU's named-fd table: `Serve` executes queued commands in order (`getfd` replaces and closes an fd of the same name, `add_client` takes the named fd out). `QemuExit`, `ReaderExit` and `Cleanup` are the environment. |
| `StateCallback` | `setState`, `Instance.SetStateChangeCallback`, `QueryState`, the end of `StartContext` (`instance.go`); `eventLoop`, `handleEvent`, `ExecuteWithTimeout` (`unnamed/part_001`) | QEMU's output is one `stream` of events and replies, in the order QEMU writes them. `GuestOp` is QEMU changing runstate (`vm`) and writing the event. `setState` is split at its unlock: `SetStateWrite` (`old`, `state` under `stateMu`) and `SetStateNotify` (the user's callback, appended to `seen`, if `old # s`). The eventLoop's `handleEvent` and `ReaderNotify` are its own `setState`, through the bridge. `ReadReply` hands a reply to its caller's `respCh`. `InstallBridge` is StartContext's `qmp.SetStateChangeCallback`. `QueryState`, `Reply` and `QueryFail` are the initial QueryState and a user's. `SetStateChangeCallback` is the user installing a callback after StartContext returned. |
| `Locate` | `LocateQemu` (`locate.go`), `socketDir`/`defaultSocketDir`/`ensureSocketDir` (`config.go`), and the spawn/`waitForSocket` steps of the starts | A path is a record `[abs, at]`; `Resolve(p, d)` is where it points from working directory `d`. The inputs (arch, `QemuPath`, `$PATH`, `SocketDir`, uid, cache dir, the files present) are chosen at Init. `Locate`, `Spawn` (from `/`, as `cmd.Dir = "/"` makes it), `Bind` and `WaitForSocket` (from the caller's directory) are one start. |
| `BuildNames` | every step of `VMBuilder.Build` (`builder.go`) that emits a named option; `buildDiskArgs`, `buildCDROMArgs`, the four `BuildBlockdevArgs` backends and the `ThrottleConfig` builders (`disk.go`); `buildNetworkArgs` and the six `BuildNetdevArgs` backends (`network.go`); `buildChardevArgs` and `buildSecretArgs` (`config.go`) | Each argument is reduced to an `Item`: the namespace and name it defines (node-name, object id, netdev id, device id, chardev id, audiodev id, monitor) and the names it references (`file=`, `throttle-group=`, `drive=`, `netdev=`, `chardev=`, `audiodev=`, `memdev=`, `rng=`). Values are left out. The config is chosen at Init; `at` is the index of the next step of `Steps`, `Build`'s call order, and each step is one action (`BuildEFI` ... `BuildMiscDevices`) that appends what the step appends, in its order. `Indexed` is `fmt.Sprintf("%s%d")` over the bounded indices. |
| `MCQmp`, `MCInstance`, `MCBuilder`, `MCLaunch`, `MCDisplay`, `MCLocate`, `MCBuildNames`, `MCStateCallback` | | Model values and name maps for the callers. |

## Runs

| Run | Expect | Checks | Shows |
|---|---|---|---|
| `qmp_transport` (MCQmp.cfg) | pass | TypeOK, ReplyCorrelation, PendingMatchesCalls, ExecuteReturns, ImplementsQmpCall | Two goroutines (one running StartContext's QueryState) call QueryState, Continue, Pause and Reset, with timeouts, guest suspend, wakeup and shutdown, QEMU exit and crash. Replies never cross calls, the pending map equals the calls in flight, and every Execute returns without needing its timer. The transport also refines `QmpCall`: each call's reply reports the state QEMU had when it ran that call's command; a call that timed out leaves its command to run at most once for nobody. The run takes about 2.5 minutes, most of it evaluating the refinement mapping. |
| `qmp_query_stale` (MCQmpQuery.cfg) | violation | QueryStateNotStale | The query-status reply is read, then the SUSPEND event is applied, then QueryState sets `Running` (finding). |
| `pci_alloc` (MCPciSlotAllocator.cfg) | pass | TypeOK | On i440fx and Q35, with Reserve(3, 4, 5, 31) interleaved (only `TestPCISlotAllocator` calls Reserve), the scan keeps `nextSlot` and `used` within the bus through exhaustion and the panic. What matters about the allocator, that no two devices share a slot, is checked where it is used, by the `builder` run. |
| `inst_lifecycle` (MCInstance.cfg) | pass | TypeOK, StopReturns, StopEndsQemu, WaitReturnsOnceExited | Two goroutines call any of Stop, ForceStop, Quit, Wait and WaitContext on every kind of instance. Stop always returns, and on an instance with a process it leaves QEMU dead. Once QEMU has exited every goroutine in Wait returns, including one a WaitContext left when its ctx was done, and a second Wait of a child the first one reaped. |
| `inst_stale_group` (MCInstanceStaleGroup.cfg) | violation | ForceStopSignalsOwnOnly | QEMU exits, Wait reaps it, then ForceStop still sends SIGKILL to the process group `-pid`, an id the kernel may have reused (finding). |
| `builder` (MCBuilder.cfg) | pass | TypeOK, SlotMapConflictFree, SlotMapFollowsContract, BusesResolve | Over every config of the bounded set (q35 and pc, video, audio, up to two disks, a CD-ROM, a NIC, a serial port, a USB device, balloon), no Build gives two devices one slot or a reserved one, the first Build addresses devices in the contract's order from slot 3 upwards on both machine types, and every device names a bus the command line creates. |
| `launch` (MCLaunch.cfg) | pass | TypeOK, FailedStartKillsQemu, AttachByPidFindsTarget, CallsReturnUnlessMonitorHeld | A StartContext and a StartVMContext for different names. The first has an HMP monitor chardev in `ExtraArgs`; the second has a socket serial port and an HMP monitor in `VMConfig.Chardevs`. An AttachByPIDContext is given the second VM's pid. Stale sockets, spawn failure, cancellation and QEMU exit can happen at any step. Each call returns unless it waits in `readGreeting` behind a monitor another call holds (that hang is the CallsReturn finding). A failed start leaves no QEMU of its own running. The pid attach picks the QMP socket over the HMP one, connects to that VM and recovers its name. |
| `display` (MCDisplay.cfg) | pass | FdPendingMatchesCalls, CallsReturn | Two goroutines hand VNC or SPICE clients to QEMU or set passwords, while QEMU may exit, the reader may die and the instance may be cleaned up. The pending map holds exactly the calls waiting, and every call returns, including one whose copied `i.qmp` cleanup closes. |
| `locate_relative_binary` (MCLocate.cfg) | violation | ExecutesLocatedBinary | A relative `QemuPath` is stat'ed from the caller's directory and executed from `/` (finding). |
| `build_names` (MCBuildNames.cfg) | pass | RefsResolve, OutermostDrive | Over 3,326 whole-VM configs (EFI, memory backend, secrets, video, audio and codec, QMP socket, CD-ROMs, one or two disks over four backends with or without a throttle group, a NIC on each of six backends, virtio-serial ports, serial ports, chardevs, USB devices, balloon), every reference Build emits names an option that is on the command line, each `file=` an earlier node, and each disk device drives the top of its chain, so a throttle filter is never bypassed. |
| `build_names_shared_group` (MCBuildNamesShared.cfg) | violation | UniqueNames | Two disks sharing a throttle group emit `-object throttle-group,id=g1` twice, which QEMU refuses (finding). |
| `callback_order` (MCStateCallbackOrder.cfg) | violation | LastNotifiedIsCurrent | The initial QueryState's reply (Running) is written before a STOP. The eventLoop writes Paused; then QueryState writes and notifies Running before the eventLoop's callback runs; then RESUME changes nothing. The user's callback was last told Paused, while State() and QEMU say Running (finding). |

**Findings without a run.** These properties are also stated in the
modules. TLC finds each one violated under the cfg named beside it, but
`PROJECT.json` records them as findings only:
- `StateTracksVM` (Qmp, `MCQmpStale.cfg`): the initial QueryState times
  out, and the state stays `Prelaunch` while the VM runs.
- `ExitedWhenReturned` (Instance, `MCInstanceAttachedWait.cfg`): Wait on an
  attached instance returns while QEMU runs.
- `QuitCleansUp` (Instance, `MCInstanceQuit.cfg`): Quit skips cleanup when
  Execute fails.
- `StopNoTimeoutAfterExit` (Instance, `MCInstanceZombie.cfg`): a
  graceful Stop of a spawned VM whose QEMU has exited still times out,
  because `kill(pid, 0)` succeeds on the unreaped zombie.
- `ForceStopSignalsOwnOnly` (Instance, `MCInstanceGroupKill.cfg`):
  ForceStop on a pid-attached instance kills the process group. The
  `inst_stale_group` run checks the same property on a spawned instance.
- `BuildDeterministic` (Builder, with `MaxBuilds = 2`): a second Build on
  the same builder moves balloon and rng from 0x3/0x4 to 0x5/0x6, because
  Build resets `args` but not `pciAlloc` (spec 8.2 says Build is
  deterministic).
- `BusesResolve` for a `scsi` disk: `buildDiskArgs` emits `scsi-hd` on a
  bus no step creates (the comment at `disk.go:458` says it is "handled
  separately", but nothing does). The `builder` run leaves `scsi` out of
  `DiskIfaces` so that the rest is checked.
- `AllocInRange` (PciSlotAllocator, `MCPciSlotRange.cfg`): the 30th
  allocation returns `0x20` instead of panicking.
- `ShutdownIsFinal` (Instance, `MCInstanceShutdownFinal.cfg`): the reader
  applies a RESET it read before cleanup, after Shutdown was published.
- `CallsReturn` (Launch, `MCLaunchAttach.cfg`): an AttachContext holds the
  monitor, and a StartContext for the same VM path blocks in
  `readGreeting` for ever. The `launch` run meets the same hang another way:
  an AttachByPIDContext attaches while the start is still polling, and the
  start then blocks. That is why the run checks
  `CallsReturnUnlessMonitorHeld`.
- `ConnectedToOwnQemu` (Launch, `MCLaunchSameName.cfg`): two starts
  with one name; the second removes the first's live socket and connects
  to the first QEMU. With distinct names only a VM's own QEMU binds its
  path, so the property holds by construction there and no run checks it.
- `StartedQemuOutlivesCtx` (Launch, `MCLaunchCtx.cfg`): the start's ctx is
  cancelled after StartContext returned, and os/exec kills the running VM.
- `ClientServedAsItsOwn` (Display, `MCDisplayCoarse.cfg`): two
  AddVNCClient calls read one clock value, so `getfd` of the second
  replaces and closes the first's fd. The first client then gets the
  second's connection. With a clock that ticks between reads the names
  are distinct by construction, so no run checks the property.
- `NoFdLeak` (Display, `MCDisplayLeak.cfg`): `getfd` times out after QEMU
  took the fd, or `add_client` cannot be sent. No `closefd` follows, and
  QEMU keeps the fd.
- `SocketWhereDialed` (Locate, `MCLocateSocket.cfg`): with a relative
  `SocketDir`, QEMU binds `/<dir>/<name>.sock` while `waitForSocket` dials
  `<cwd>/<dir>/<name>.sock`.
- `UniqueNames` (BuildNames, `MCBuildNamesNoId.cfg`): two disks without an ID
  both default to `drive0` and define `drive0-file`, `drive0-format` and
  `drive0-device` twice.
- `UniqueNames` (BuildNames, `MCBuildNamesClash.cfg`): names Build
  generates share namespaces with the caller's IDs, and nothing rejects a
  clash. A disk `pflash0`, a chardev `qmp` or `serial0`, or a secret
  `rng0` or `g1` (a throttle group's id) each define a name twice.
- `FormatLayerPresent` (BuildNames, `MCBuildNamesIscsi.cfg`): spec 4.3 puts a
  format node over every backend, but the iSCSI backend emits its
  protocol node alone.

Every property of a passing run has a mutant in `PROJECT.json`, and TLC
finds the property violated when the mutant replaces the definition.

## Bounds

**Qmp** uses `MaxCmd = 4`: `qmp_capabilities` is cmd-1, StartContext's
QueryState is cmd-2, and two more commands can overlap. Two callers are
enough for two calls in flight, for a timed-out call's late reply to meet
a later call, and for the reader to die between them. `EventCap = 1`
makes the drop-when-full branch reachable, and `MaxGuest = 1` allows one
guest suspend or power-off (a wakeup is bounded by the suspends). The run
has about 960k states. `Shutdown` is left out of its Ops: its
`system_powerdown` takes the plain-reply path plus a non-state event, and
the Instance model covers it through Stop.

**Instance** uses two callers with one call each, which pairs Stop with
Wait, Quit and ForceStop, and Stop with Stop. `MaxTicks = 2` ticks happen
before the loop must reach its deadline; the deadline itself may come at
any iteration. `MaxGuest = 2` allows a reboot followed by a power-off.

**Builder** enumerates every config over small sets: both machine
types, two arches, three video and two audio choices, up to two disks over
three interfaces, one CD-ROM, one NIC of two models, one serial port and
one USB device, with and without balloon. That covers every step with and
without an addressed device. `MaxBuilds = 2` gives a second Build on the
same builder. The run has about 270k states.

**Launch** has two starters with distinct names and one pid attacher in
the passing run: a StartContext and a StartVMContext. The pid attacher
is given the StartVMContext's pid. That VM's `Build` emits a serial
socket and an HMP monitor chardev whose id contains "monitor" after the
QMP one, so a scan that took any match but the first, or a `Build` that
emitted the control socket later, would dial the wrong socket. Only the
QMP socket paths may start out stale; the serial and HMP paths start
empty, since no start or attach ever reads them. The pid attacher runs all of AttachContext's steps after
the scan. The violation cfgs use the same name for two starters, or a
starter and an attacher sharing a path. A standalone attacher makes the
passing run five times larger (1.4M states, four minutes with the
liveness check) without adding any action or branch. Each QMP path
starts free or holding a stale file. `MaxTicks = 2` polls happen before
the deadline may come. The run has about 145k states.

**Display** uses two callers, the protocols VNC and SPICE, with QEMU
started with VNC only (so `add_client` for SPICE fails in QEMU), and a
clock of two values. The passing run uses `Resolution = 1`, so each read
is later than the one before, and the two values bound the run to two
client hand-overs. `MCDisplayCoarse.cfg` uses a single clock
value and `Resolution = 0`, a clock that does not tick between two calls.

**Locate** enumerates the inputs: a host arch, `""` and an unsupported
arch, a `QemuPath` that is unset or the relative `bin`, a `$PATH` with and
without a relative entry, three search directories, a `SocketDir` that is
unset or relative, uid 0 and 1000, a cache dir or its error, and every
subset of three file locations. Each start is a single run of the four
steps.

**BuildNames** checks a union of single-field variations around one full
config (`Variants` in `MCBuildNames`): every EFI mode, memory backend, audio
backend/device/codec combination, CD-ROM list, virtio-serial and chardev
combination, USB and serial count, and every one- and two-disk list over
IDs `""`, `a`, `b`, four backends and no group or `g1`, jointly with no
NIC, one NIC on each of the six backends, or one with an explicit id.
That is 3,326 configs and 56,542 states; the run takes 2 s. Varying one
field at a time keeps every other step emitting its names, so each
reference meets every name that could shadow or satisfy it. The passing
run keeps disk IDs distinct after defaulting, and user IDs apart from
generated ones; the violation cfgs drop exactly one of those conditions.

**StateCallback** has StartContext's goroutine and one user goroutine,
each calling QueryState once, and two runstate changes of QEMU. That is
enough for an event to fall between a QueryState's command and its
reply, and for a second event to follow. The run finds the violation at
depth 14, after about 4k states; the full space has 7.6k.

**PciSlotAllocator** uses `MaxAllocs = 30`, which is more than the 29
free slots, so exhaustion happens on both machine types.

## Fairness

Weak fairness is assumed only for what the code or the OS drives forward:
- QEMU serving commands and exiting after the guest powers off;
- the reader goroutine;
- each step of a call already under way. `Execute` returns within its
  30 s timer, the ticker ticks, and the deadline comes.
  `process.Wait` returns once the child has exited (or at once with
  ECHILD), and Wait's probe loop wakes every 100 ms. A `ctx` being done
  is never assumed, so WaitContext's early return is only possible.

In `Launch`, weak fairness is assumed for `cmd.Start` returning, QEMU
binding its socket after it starts, each `waitForSocket` poll, and each
step of `newQMP` and of AttachByPIDContext, since each is a call that returns or a loop with a
deadline. `Greet` is enabled only while the monitor is free, so a client
waiting behind another is not forced forward. That is how QEMU's monitor
behaves. os/exec's kill on a done ctx is fair because its watcher
goroutine runs whenever ctx is done.

In `Display`, weak fairness holds for each caller's steps after `Call`,
for QEMU serving its queue, and for the reader exiting once QEMU or the
connection is gone. `Timeout` is not fair: a reply or close may always
come first. `Locate` and `BuildNames` are runs of one call with no
concurrency, and check safety only.

A guest action, a crash, a cancellation, a timer firing early, and a
caller starting a new call are never assumed to happen.

## Refinement

`Qmp!ImplementsQmpCall` is `QC!Spec`, where `QC` is `QmpCall` under the
mapping at the end of `Qmp`. It is checked as a property of the
`qmp_transport` run. `QmpCall!Spec` is the safety half of the contract.
That every call returns is `ExecuteReturns`, checked in the same run:
carrying the abstract weak fairness through the mapping doubled the run
time without adding a behaviour. The abstract `Run` lets a command move
the VM to any state, so the contract does not restate QEMU's command
semantics.

## Not modelled (yet)

- **Callbacks that call back into the transport:** the event and
  state-change callbacks run on the eventLoop goroutine. One that calls
  Execute would wait for a reply only that goroutine can read, and would
  time out. The callbacks are the program's code, so the model's callbacks
  only record their arguments.
- **`SetEventCallback` and `Events()`:** the event callback and channel
  consumers change no state of the Instance. The unsynchronised write of
  `q.onEvent` is therefore unobservable in the model. The bounded `eventCh`
  is modelled in `Qmp`.
- **What `StartVMContext` does differently from `StartContext` with no
  state to show for it:** it skips `Validate`, does not keep the config,
  and calls `ensureSocketDirFromCfg` (a `MkdirAll`).
- **Commas inside option values** (`-name guest=<name>`, `path=<path>`):
  the model keeps each value whole, so a value that QEMU or
  `findSocketFromArgs` would split at a comma cannot be expressed; that
  hazard has no property.
- **QEMU's own placement of devices without `addr`** (a video device
  other than qxl-vga, virtio-vga and vga, a NIC model outside the code's
  four, a disk interface other than virtio and nvme; the SATA and USB
  controllers do get an `addr`): checking them
  against the explicit slots needs a model of QEMU's placement rules.
- **pid reuse** after a QEMU has been reaped: the model records that a
  kill went to a freed pid (`"stale-group"`), not whom it reached.
- **References the caller writes:** `pflash0=` (`buildMachine`), the
  `password-secret=`/`key-secret=` of backends and the `chardev=` of ports
  and USB devices name IDs the caller chose; `BuildNames` checks only the
  references Build generates. `buildMachine`, `buildCPU`, `buildRTC` and
  `buildBoot` define no names, so they are not steps of the model.
- **Left out for good:** the values inside arguments (`buildArgs`, the
  option values of the backends, the `BuildNetdevArgs` options other than
  `id=`) and JSON encoding. They are string formatting with no state, and
  no property depends on them.
