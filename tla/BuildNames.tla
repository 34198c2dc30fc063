----------------------------- MODULE BuildNames -----------------------------
(***************************************************************************)
(* The names on the command line VMBuilder.Build composes (src/builder.go, *)
(* disk.go, network.go, config.go): every build* step that emits an option *)
(* QEMU resolves by name, in Build's order.                                *)
(*                                                                         *)
(* An argument is abstracted to what QEMU resolves: the namespace and name *)
(* it defines and the names it refers to. A -blockdev or -drive defines a  *)
(* block node ("node"; QEMU refuses a node-name equal to a drive id, so    *)
(* they share one namespace) and a -blockdev refers to its file= node and  *)
(* throttle-group= object; -object defines an object id (throttle groups,  *)
(* secrets, the memory backend, the RNG); -netdev a netdev id; -chardev a  *)
(* chardev id; -audiodev an audiodev id; -device a device id and refers to *)
(* its drive=, netdev=, chardev=, audiodev= or rng=; -numa refers to its   *)
(* memdev= and -mon to its chardev=. A name built as id + "-" + suffix is  *)
(* <<id, suffix>>, a bare id <<id>>; the IDs of a configuration contain no *)
(* "-". Options that name nothing (paths, sizes, bus, addr, the limits),   *)
(* the references the caller writes into the VMConfig (pflash0=,           *)
(* password-secret=, key-secret=, a port's or USB device's chardev=) and   *)
(* the buses (Builder's BusesResolve) are left out. Build runs on one      *)
(* goroutine; each build* step is one action.                              *)
(***************************************************************************)
EXTENDS Integers, Sequences, SequencesExt

CONSTANTS
    Configs     \* the VMConfigs, by the fields that decide names

Ref(ns, n) == <<ns, n>>

Item(ns, n, refs) == [ns |-> ns, name |-> n, refs |-> refs]

\* fmt.Sprintf("%s%d", prefix, i) for the small indices of a model.
Indexed(prefix, i) == prefix \o <<"0", "1", "2", "3">>[i + 1]

-----------------------------------------------------------------------------
(* Disks (disk.go).                                                        *)

\* The node-name BuildBlockdevArgs gives the protocol layer: id + "-" +
\* Type() for each of the file, nbd, rbd and iscsi backends.
BackendNode(id, t) == <<id, t>>

\* A protocol node and a format node whose file= is the protocol node.
TwoLayer(id, t) ==
    << Item("node", BackendNode(id, t), {}),
       Item("node", <<id, "format">>, {Ref("node", BackendNode(id, t))}) >>

\* FileDiskBackend.BuildBlockdevArgs: <id>-file under <id>-format.
FileBlockdevArgs(id) == TwoLayer(id, "file")

\* NBDDiskBackend.BuildBlockdevArgs: <id>-nbd under a raw <id>-format.
NBDBlockdevArgs(id) == TwoLayer(id, "nbd")

\* RBDDiskBackend.BuildBlockdevArgs: <id>-rbd under a raw <id>-format.
RBDBlockdevArgs(id) == TwoLayer(id, "rbd")

\* ISCSIDiskBackend.BuildBlockdevArgs: the protocol node alone.
ISCSIBlockdevArgs(id) == << Item("node", BackendNode(id, "iscsi"), {}) >>

\* cfg.Backend.BuildBlockdevArgs(id), dispatched on the backend's Type().
BlockdevArgs(t, id) ==
    CASE t = "file"  -> FileBlockdevArgs(id)
      [] t = "nbd"   -> NBDBlockdevArgs(id)
      [] t = "rbd"   -> RBDBlockdevArgs(id)
      [] t = "iscsi" -> ISCSIBlockdevArgs(id)

\* ThrottleConfig.BuildThrottleGroupArgs: -object throttle-group,id=<Group>.
BuildThrottleGroupArgs(g) ==
    IF g = "" THEN << >> ELSE << Item("object", <<g>>, {}) >>

\* ThrottleConfig.BuildThrottleBlockdevArgs(id, fileNode).
BuildThrottleBlockdevArgs(g, id, fileNode) ==
    IF g = "" THEN << >>
    ELSE << Item("node", id, {Ref("node", fileNode), Ref("object", <<g>>)}) >>

\* A final node that forgets iSCSI has no format layer.
FinalNodeNoIscsi(t, id) == <<id, "format">>

\* buildDiskArgs: "Determine the final node name".
FinalNode(t, id) ==
    IF t = "iscsi" THEN <<id, "iscsi">> ELSE <<id, "format">>

\* A throttle layer added without finalNode = throttleNode.
TopNodeNoUpdate(g, id, inner) == inner

\* buildDiskArgs: with a throttle group the throttle node becomes final.
TopNode(g, id, inner) == IF g = "" THEN inner ELSE <<id, "throttle">>

\* buildDiskArgs: the id defaults to "drive0".
DiskId(cfg) == IF cfg.id = "" THEN "drive0" ELSE cfg.id

buildDiskArgs(cfg) ==
    LET id    == DiskId(cfg)
        inner == FinalNode(cfg.backend, id)
    IN  BuildThrottleGroupArgs(cfg.group)
        \o BlockdevArgs(cfg.backend, id)
        \o BuildThrottleBlockdevArgs(cfg.group, <<id, "throttle">>, inner)
        \o << Item("device", <<id, "device">>,
                   {Ref("node", TopNode(cfg.group, id, inner))}) >>

\* buildCDROMArgs(cdrom, i, "sata0"): nothing without a path; else -drive
\* id=cdrom<i> and -device ide-cd,drive=cdrom<i>,id=cdrom<i>-device.
buildCDROMArgs(hasPath, i) ==
    IF ~hasPath THEN << >>
    ELSE << Item("node", <<Indexed("cdrom", i)>>, {}),
            Item("device", <<Indexed("cdrom", i), "device">>,
                 {Ref("node", <<Indexed("cdrom", i)>>)}) >>

-----------------------------------------------------------------------------
(* Networks (network.go). Every backend's BuildNetdevArgs emits            *)
(* -netdev <Type()>,id=<id> and options that name nothing.                 *)

NetdevArgs(id) == << Item("netdev", <<id>>, {}) >>

UserBuildNetdevArgs(id) == NetdevArgs(id)
TapBuildNetdevArgs(id) == NetdevArgs(id)
SocketBuildNetdevArgs(id) == NetdevArgs(id)
StreamBuildNetdevArgs(id) == NetdevArgs(id)
VDEBuildNetdevArgs(id) == NetdevArgs(id)
BridgeBuildNetdevArgs(id) == NetdevArgs(id)

\* cfg.Backend.BuildNetdevArgs(id), dispatched on the backend.
BuildNetdevArgs(t, id) ==
    CASE t = "user"   -> UserBuildNetdevArgs(id)
      [] t = "tap"    -> TapBuildNetdevArgs(id)
      [] t = "socket" -> SocketBuildNetdevArgs(id)
      [] t = "stream" -> StreamBuildNetdevArgs(id)
      [] t = "vde"    -> VDEBuildNetdevArgs(id)
      [] t = "bridge" -> BridgeBuildNetdevArgs(id)

\* buildNetworkArgs: the id defaults to "net0"; the device names netdev=<id>.
NetId(cfg) == IF cfg.id = "" THEN "net0" ELSE cfg.id

buildNetworkArgs(cfg) ==
    BuildNetdevArgs(cfg.backend, NetId(cfg))
    \o << Item("device", <<NetId(cfg), "device">>, {Ref("netdev", <<NetId(cfg)>>)}) >>

-----------------------------------------------------------------------------
(* The other named options of Build's steps (builder.go, config.go).        *)

\* buildEFI: nothing without EFI code; pflash0-file under pflash0, and with
\* a vars file pflash1-file under pflash1.
EFIArgs(efi) ==
    LET Pair(p) == << Item("node", <<p, "file">>, {}),
                      Item("node", <<p>>, {Ref("node", <<p, "file">>)}) >>
    IN  CASE efi = "none" -> << >>
          [] efi = "code" -> Pair("pflash0")
          [] efi = "vars" -> Pair("pflash0") \o Pair("pflash1")

\* buildMemory: a "file" or "memfd" backend is -object ...,id=mem0 and
\* -numa node,memdev=mem0; any other backend type emits nothing.
MemoryArgs(mem) ==
    IF mem \in {"file", "memfd"}
    THEN << Item("object", <<"mem0">>, {}),
            Item("numa", << >>, {Ref("object", <<"mem0">>)}) >>
    ELSE << >>

\* buildSecretArgs: -object secret,id=<ID>; nothing for an empty ID.
buildSecretArgs(id) == IF id = "" THEN << >> ELSE << Item("object", <<id>>, {}) >>

\* buildVideoDevice: -device <type>,id=video0 for a video type.
VideoArgs(video) == IF video THEN << Item("device", <<"video0">>, {}) >> ELSE << >>

\* Mutant of AudioArgs: the codec names audiodev=audio0 unconditionally.
AudioArgsCodecAlways(a) ==
    LET backend == a.backend \notin {"", "none"} IN
    (IF backend THEN << Item("audiodev", <<"audio0">>, {}) >> ELSE << >>)
    \o (IF a.device = "" THEN << >>
        ELSE << Item("device", <<"sound0">>, {}) >>
             \o (IF a.codec /\ a.device \in {"intel-hda", "ich9-intel-hda"}
                 THEN << Item("device", << >>, {Ref("audiodev", <<"audio0">>)}) >>
                 ELSE << >>))

\* buildAudio: -audiodev <backend>,id=audio0 unless the backend is "" or
\* "none"; the device as sound0; an HDA device's codec, naming audio0
\* only when the backend was emitted.
AudioArgs(a) ==
    LET backend == a.backend \notin {"", "none"} IN
    (IF backend THEN << Item("audiodev", <<"audio0">>, {}) >> ELSE << >>)
    \o (IF a.device = "" THEN << >>
        ELSE << Item("device", <<"sound0">>, {}) >>
             \o (IF a.codec /\ a.device \in {"intel-hda", "ich9-intel-hda"}
                 THEN << Item("device", << >>,
                              IF backend THEN {Ref("audiodev", <<"audio0">>)} ELSE {}) >>
                 ELSE << >>))

\* buildControlSocket: -chardev socket,id=qmp,... and -mon chardev=qmp.
ControlSocketArgs(socket) ==
    IF ~socket THEN << >>
    ELSE << Item("chardev", <<"qmp">>, {}),
            Item("mon", <<"monitor">>, {Ref("chardev", <<"qmp">>)}) >>

\* buildSATAController: ich9-ahci or ahci with id=sata0, when there are
\* CD-ROMs.
SATAArgs(cdroms) ==
    IF cdroms = << >> THEN << >> ELSE << Item("device", <<"sata0">>, {}) >>

\* buildVirtioSerial: the controller virtio-serial0 when there is a
\* VirtioSerial config (vserial >= 0) or a chardev; the ports carry no id.
VirtioSerialArgs(vserial, chardevs) ==
    IF vserial = -1 /\ chardevs = << >> THEN << >>
    ELSE << Item("device", <<"virtio-serial0">>, {}) >>

\* Mutant of buildSerial: the device names the chardev of the next port.
buildSerialOffByOne(i) ==
    << Item("chardev", <<Indexed("serial", i)>>, {}),
       Item("device", <<Indexed("serial", i), "device">>,
            {Ref("chardev", <<Indexed("serial", i + 1)>>)}) >>

\* buildSerials, port i: -chardev <type>,id=serial<i> and -device
\* <device>,chardev=serial<i>,id=serial<i>-device.
buildSerial(i) ==
    << Item("chardev", <<Indexed("serial", i)>>, {}),
       Item("device", <<Indexed("serial", i), "device">>,
            {Ref("chardev", <<Indexed("serial", i)>>)}) >>

\* buildChardevArgs: -chardev <backend>,id=<ID>; nothing for an empty ID.
ChardevArgs(id) == IF id = "" THEN << >> ELSE << Item("chardev", <<id>>, {}) >>

\* buildUSB: the controller usb0 when there is a USB config or a device,
\* then usb-dev<i> for each device.
USBArgs(usb, n) ==
    IF ~usb /\ n = 0 THEN << >>
    ELSE << Item("device", <<"usb0">>, {}) >>
         \o [i \in 1..n |-> Item("device", <<Indexed("usb-dev", i - 1)>>, {})]

\* buildBalloon: virtio-balloon-pci,id=balloon0 when enabled.
BalloonArgs(balloon) ==
    IF balloon THEN << Item("device", <<"balloon0">>, {}) >> ELSE << >>

\* buildMiscDevices: -object rng-random,id=rng0 and -device
\* virtio-rng-pci,rng=rng0,id=rng-dev0, always.
MiscArgs ==
    << Item("object", <<"rng0">>, {}),
       Item("device", <<"rng-dev0">>, {Ref("object", <<"rng0">>)}) >>

\* The items of a loop over a sequence, in order.
Each(s, F(_)) == FlattenSeq([k \in DOMAIN s |-> F(s[k])])
EachIndex(n, F(_)) == FlattenSeq([k \in 1..n |-> F(k - 1)])

-----------------------------------------------------------------------------
(* Build.                                                                  *)

VARIABLES
    cfg,    \* b.config
    at,     \* the next step of Build
    args    \* b.args as built so far

vars == <<cfg, at, args>>

\* The named steps of Build, in its order (buildMachine, buildCPU, buildRTC
\* and buildBoot name nothing of their own).
Steps == <<"efi", "memory", "secrets", "display", "audio", "control", "sata",
           "disks", "cdroms", "networks", "virtio-serial", "serials",
           "chardevs", "usb", "balloon", "misc">>

\* Build: b.args = nil; the steps run from buildMachine on.
Init ==
    /\ cfg \in Configs
    /\ at = 1
    /\ args = << >>

\* A step appends its arguments to b.args.
Emit(s, items) ==
    /\ at <= Len(Steps) /\ Steps[at] = s
    /\ args' = args \o items
    /\ at' = at + 1
    /\ UNCHANGED cfg

BuildEFI == Emit("efi", EFIArgs(cfg.efi))
BuildMemory == Emit("memory", MemoryArgs(cfg.mem))
BuildSecrets == Emit("secrets", Each(cfg.secrets, buildSecretArgs))
BuildDisplay == Emit("display", VideoArgs(cfg.video))
BuildAudio == Emit("audio", AudioArgs(cfg.audio))
BuildControlSocket == Emit("control", ControlSocketArgs(cfg.socket))
BuildSATAController == Emit("sata", SATAArgs(cfg.cdroms))
BuildDisks == Emit("disks", Each(cfg.disks, buildDiskArgs))
BuildCDROMs ==
    Emit("cdroms", FlattenSeq([i \in DOMAIN cfg.cdroms |->
                                  buildCDROMArgs(cfg.cdroms[i], i - 1)]))
BuildNetworks == Emit("networks", Each(cfg.nets, buildNetworkArgs))
BuildVirtioSerial == Emit("virtio-serial", VirtioSerialArgs(cfg.vserial, cfg.chardevs))
BuildSerials == Emit("serials", EachIndex(cfg.serials, buildSerial))
BuildChardevs == Emit("chardevs", Each(cfg.chardevs, ChardevArgs))
BuildUSB == Emit("usb", USBArgs(cfg.usb, cfg.usbdevs))
BuildBalloon == Emit("balloon", BalloonArgs(cfg.balloon))
BuildMiscDevices == Emit("misc", MiscArgs)

Next ==
    \/ BuildEFI \/ BuildMemory \/ BuildSecrets \/ BuildDisplay \/ BuildAudio
    \/ BuildControlSocket \/ BuildSATAController \/ BuildDisks \/ BuildCDROMs
    \/ BuildNetworks \/ BuildVirtioSerial \/ BuildSerials \/ BuildChardevs
    \/ BuildUSB \/ BuildBalloon \/ BuildMiscDevices

Spec == Init /\ [][Next]_vars

-----------------------------------------------------------------------------
(* Properties.                                                             *)

Namespaces == {"node", "object", "netdev", "device", "chardev", "audiodev",
               "numa", "mon"}

Defines(k, r) == args[k].ns = r[1] /\ args[k].name = r[2]

TypeOK ==
    /\ at \in 1..Len(Steps) + 1
    /\ \A k \in DOMAIN args : args[k].ns \in Namespaces
                              /\ \A r \in args[k].refs : r[1] \in Namespaces

\* Every name the builder itself writes into an option (file=, drive=,
\* throttle-group=, netdev=, memdev=, chardev= of the monitor and the
\* serial ports, the codec's audiodev=, rng=) names something the command
\* line defines, and a -blockdev's file= names a node of an earlier
\* -blockdev, since QEMU opens -blockdev options in order.
RefsResolve ==
    \A k \in DOMAIN args : \A r \in args[k].refs :
        \E j \in DOMAIN args :
            /\ Defines(j, r)
            /\ (args[k].ns = "node" /\ r[1] = "node") => j < k

\* A disk's -device drives the outermost node of its chain (spec 4.3): no
\* other node is layered on top of it, so the throttle filter buildDiskArgs
\* adds is never bypassed.
OutermostDrive ==
    \A k \in DOMAIN args : \A r \in args[k].refs :
        (args[k].ns = "device" /\ r[1] = "node")
            => ~\E j \in DOMAIN args : args[j].ns = "node" /\ Ref("node", r[2]) \in args[j].refs

\* No two arguments define the same name in one namespace: QEMU refuses a
\* duplicate node-name or drive id, object id, netdev, chardev or device id
\* and does not start. Configurations the Go API accepts (disks without an
\* ID, disks sharing a throttle group, a disk named like a generated node
\* such as pflash0, a chardev named qmp or serial0, a secret named like a
\* throttle group) must not make Build emit one.
UniqueNames ==
    \A j, k \in DOMAIN args :
        (j # k /\ args[j].ns = args[k].ns /\ args[j].name # << >>)
            => args[j].name # args[k].name

\* Every disk's -device sits on a format node <id>-format, the two-layer
\* form spec 4.3 gives every backend, iSCSI included.
FormatLayerPresent ==
    \A k \in DOMAIN args : \A r \in args[k].refs :
        (args[k].name # << >> /\ args[k].name[Len(args[k].name)] = "device"
         /\ r[1] = "node" /\ Len(r[2]) = 2)
            => \E j \in DOMAIN args : args[j].name = <<r[2][1], "format">>
=============================================================================
