------------------------------- MODULE Locate -------------------------------
(***************************************************************************)
(* The file-system prefix of StartContext (src/instance.go) and            *)
(* StartVMContext (src/builder.go): LocateQemu (src/locate.go) finds the   *)
(* binary, ensureSocketDir / ensureSocketDirFromCfg (src/config.go,        *)
(* src/builder.go) make the socket directory, and cmd.Start runs QEMU with *)
(* cmd.Dir = "/". The caller's stat calls resolve a relative path against  *)
(* the caller's working directory, the child resolves the same string      *)
(* against "/". One start runs against a file system chosen at Init.       *)
(*                                                                         *)
(* A path is [abs, at]: absolute or not, and its components. A location   *)
(* is the component sequence from the root.                                *)
(***************************************************************************)
EXTENDS Integers, Sequences, FiniteSets

CONSTANTS
    HostArch,       \* runtime.GOARCH
    ArchToQemu,     \* archToQemu, restricted to the arches used
    Arches,         \* cfg.Arch values ("" for the host's)
    CustomPaths,    \* cfg.QemuPath values (NoPath for "")
    PathEnvs,       \* $PATH values: sequences of directory paths
    SearchPaths,    \* qemuSearchPaths
    SocketDirs,     \* cfg.SocketDir values (NoPath for "")
    CacheDirs,      \* os.UserCacheDir() results (NoPath for its error)
    Cwd,            \* the caller's working directory, a location
    Files           \* the locations that may hold a regular file

NoPath == [abs |-> TRUE, at |-> <<"none">>]

Root == <<>>

\* filepath.Join(dir, name).
Join(p, n) == [p EXCEPT !.at = Append(@, n)]

\* The location a path names for a process whose working directory is d.
Resolve(p, d) == IF p.abs THEN p.at ELSE d \o p.at

VARIABLES
    arch, custom, pathEnv, sockCfg, uid, cache,   \* the inputs
    files,      \* the regular files present
    mkdirOK,    \* os.MkdirAll succeeds (permissions)
    pc,
    qemuPath,   \* what LocateQemu returned
    sockPath,   \* filepath.Join(socketDir, name+".sock")
    ran,        \* the location of the binary QEMU was executed from
    bound       \* where QEMU bound its QMP socket

inputs == <<arch, custom, pathEnv, sockCfg, uid, cache, files, mkdirOK>>
vars == <<inputs, pc, qemuPath, sockPath, ran, bound>>

IsFile(p, d) == Resolve(p, d) \in files

\* "qemu-system-" + qemuArch.
BinaryName(a) == <<"qemu-system", ArchToQemu[a]>>

\* exec.LookPath: the first $PATH entry holding the binary; a relative
\* entry yields that relative path with ErrDot (Go 1.19 on), an error.
LookPath(b, env) ==
    LET hits == {k \in DOMAIN env : IsFile(Join(env[k], b), Cwd)}
        k    == CHOOSE k \in hits : \A j \in hits : k <= j
    IN IF hits = {} \/ ~env[k].abs THEN NoPath ELSE Join(env[k], b)

\* The first qemuSearchPaths directory holding the binary.
SearchKnown(b) ==
    LET hits == {k \in DOMAIN SearchPaths : IsFile(Join(SearchPaths[k], b), Cwd)}
    IN IF hits = {} THEN NoPath
       ELSE Join(SearchPaths[CHOOSE k \in hits : \A j \in hits : k <= j], b)

\* LocateQemu(arch, customPath): NoPath stands for both errors.
LocateQemu(a, c, env) ==
    LET ga == IF a = "" THEN HostArch ELSE a
        b  == BinaryName(ga)
    IN CASE ga \notin DOMAIN ArchToQemu               -> NoPath
         [] c # NoPath /\ IsFile(c, Cwd)              -> c
         [] c # NoPath /\ IsFile(Join(c, b), Cwd)     -> Join(c, b)
         [] LookPath(b, env) # NoPath                 -> LookPath(b, env)
         [] OTHER                                     -> SearchKnown(b)

\* defaultSocketDir: /var/run/qemu for root, else <UserCacheDir>/qemuctl.
DefaultSocketDir(u, cd) ==
    CASE u = 0       -> [abs |-> TRUE, at |-> <<"var", "run", "qemu">>]
      [] cd # NoPath -> Join(cd, "qemuctl")
      [] OTHER       -> NoPath

\* socketDir: cfg.SocketDir if set.
SocketDir(s, u, cd) == IF s # NoPath THEN s ELSE DefaultSocketDir(u, cd)

Init ==
    /\ arch \in Arches
    /\ custom \in CustomPaths
    /\ pathEnv \in PathEnvs
    /\ sockCfg \in SocketDirs
    /\ uid \in {0, 1000}
    /\ cache \in CacheDirs
    /\ files \in SUBSET Files
    /\ mkdirOK \in BOOLEAN
    /\ pc = "locate"
    /\ qemuPath = NoPath
    /\ sockPath = NoPath
    /\ ran = Root
    /\ bound = Root

\* LocateQemu, then ensureSocketDir; either error returns from the start.
Locate ==
    LET q == LocateQemu(arch, custom, pathEnv)
        d == SocketDir(sockCfg, uid, cache)
    IN
    /\ pc = "locate"
    /\ IF q = NoPath \/ d = NoPath \/ ~mkdirOK
          THEN pc' = "failed" /\ UNCHANGED <<qemuPath, sockPath>>
          ELSE /\ qemuPath' = q
               /\ sockPath' = Join(d, "vm.sock")
               /\ pc' = "spawn"
    /\ UNCHANGED <<inputs, ran, bound>>

\* cmd.Start with cmd.Dir = "/": the child changes to "/" and executes
\* qemuPath from there.
Spawn ==
    /\ pc = "spawn"
    /\ IF IsFile(qemuPath, Root)
          THEN ran' = Resolve(qemuPath, Root) /\ pc' = "bind"
          ELSE pc' = "failed" /\ UNCHANGED ran
    /\ UNCHANGED <<inputs, qemuPath, sockPath, bound>>

\* QEMU binds -chardev socket,path=<sockPath> from its working directory.
Bind ==
    /\ pc = "bind"
    /\ bound' = Resolve(sockPath, Root)
    /\ pc' = "wait"
    /\ UNCHANGED <<inputs, qemuPath, sockPath, ran>>

\* waitForSocket dials sockPath from the caller's working directory: it
\* connects when that is where QEMU listens, else it times out and the
\* start kills QEMU.
WaitForSocket ==
    /\ pc = "wait"
    /\ pc' = IF Resolve(sockPath, Cwd) = bound THEN "done" ELSE "failed"
    /\ UNCHANGED <<inputs, qemuPath, sockPath, ran, bound>>

Next == Locate \/ Spawn \/ Bind \/ WaitForSocket

Spec == Init /\ [][Next]_vars

-----------------------------------------------------------------------------
(* Properties.                                                             *)

TypeOK ==
    /\ pc \in {"locate", "spawn", "bind", "wait", "done", "failed"}
    /\ files \subseteq Files
    /\ qemuPath.abs \in BOOLEAN /\ sockPath.abs \in BOOLEAN

\* The QEMU a start runs is the binary LocateQemu found and stat'ed (spec
\* 4.6: the locator returns an absolute path), not whatever that string
\* names from "/".
ExecutesLocatedBinary ==
    ran # Root => ran = Resolve(qemuPath, Cwd)

\* QEMU binds its QMP socket where waitForSocket and newQMP look for it
\* (spec 6: one socket per instance at <socket_dir>/<name>.sock).
SocketWhereDialed ==
    bound # Root => bound = Resolve(sockPath, Cwd)
=============================================================================
