------------------------------- MODULE Builder -------------------------------
(***************************************************************************)
(* VMBuilder (src/builder.go, disk.go, network.go): NewVMBuilder picks the *)
(* machine family and creates the builder's pciSlotAllocator; Build resets *)
(* b.args and runs the build* steps in a fixed order, each -device line of *)
(* a root-bus device taking its addr= from the allocator.                  *)
(*                                                                         *)
(* The command line is abstracted to its -device lines: which device, on   *)
(* which bus, at which addr (the allocator's "0x%x" string, or <<>> when   *)
(* the line has no addr= key). Lines that add no device (-machine, -cpu,  *)
(* -m, -rtc, -boot, -object, -chardev, -blockdev, -netdev, -audiodev,     *)
(* -mon), the ISA serial ports and the HDA codec are left out. A Build    *)
(* runs on one goroutine, so it is one step; the builder may be asked to  *)
(* Build again.                                                            *)
(***************************************************************************)
EXTENDS Integers, Sequences, FiniteSets, SequencesExt

CONSTANTS
    MachineTypes,   \* cfg.Machine.Type values; NoMachine is a nil Machine
    NoMachine,
    Arches,         \* cfg.Arch values
    VideoTypes,     \* cfg.Display.Video.Type ("" for no video device)
    AudioDevices,   \* cfg.Audio.Device ("" for none)
    DiskIfaces,     \* DiskConfig.Interface values
    NicModels,      \* NetworkConfig.Model values
    MaxCdroms, MaxDisks, MaxNets, MaxPorts, MaxUsbDevs,
    MaxBuilds       \* bound on the Build calls on one builder

ASSUME MaxBuilds \in Nat \ {0}

VARIABLES
    cfg,        \* b.config, the VMConfig the builder was made from
    isQ35,      \* b.isQ35
    nextSlot,   \* b.pciAlloc.nextSlot
    used,       \* {s : b.pciAlloc.used[s]}
    panicked,   \* a Build panicked with "ran out of PCI slots"
    builds      \* the -device lines each completed Build returned

vars == <<cfg, isQ35, nextSlot, used, panicked, builds>>

\* The allocator's pure operators, from its own module.
P == INSTANCE PciSlotAllocator
        WITH returned <- <<>>, ReserveSlots <- {}, MaxAllocs <- 32

-----------------------------------------------------------------------------
(* The VMConfig inputs, by the fields that decide -device lines.            *)

\* vserial = -1 is a nil cfg.VirtioSerial, n >= 0 one with n Ports; usb is
\* cfg.USB != nil; chardevs is len(cfg.Chardevs) > 0.
Configs ==
    {c \in [machine: MachineTypes \cup {NoMachine}, arch: Arches,
            video: VideoTypes, audio: AudioDevices, cdroms: 0..MaxCdroms,
            disks: BoundedSeq(DiskIfaces, MaxDisks),
            nets: BoundedSeq(NicModels, MaxNets),
            vserial: -1..MaxPorts, chardevs: BOOLEAN,
            usb: BOOLEAN, usbdevs: 0..MaxUsbDevs, balloon: BOOLEAN] :
        c.machine # NoMachine => c.arch = ""}

\* strings.HasPrefix(cfg.Machine.Type, "q35") over the modelled type names.
Q35Named == {"q35"}

\* NewVMBuilder: Q35 when the machine type says so, or by default on x86.
NewVMBuilder(c) ==
    \/ c.machine \in Q35Named
    \/ c.machine = NoMachine /\ c.arch \in {"", "amd64", "386"}

\* pciSlotAllocator.Bus(): the root bus name set by newPCISlotAllocator.
Bus(q35) == IF q35 THEN "pcie.0" ELSE "pci.0"

-----------------------------------------------------------------------------
(* One Build in progress: the allocator and the -device lines so far.       *)
(* A panic in Alloc unwinds the rest of Build.                              *)

\* A -device line with bus=<root> and addr=<pciAlloc.Alloc()>.
AllocDevice(s, dev) ==
    LET slot == P!Scan(s.next, s.used) IN
    IF s.panicked THEN s
    ELSE IF slot = -1 THEN [s EXCEPT !.panicked = TRUE]
    ELSE [s EXCEPT !.next = slot + 1, !.used = @ \cup {slot},
                   !.devs = Append(@, [dev |-> dev, bus |-> Bus(isQ35),
                                       addr |-> P!FormatSlot(slot)])]

\* A -device line with no addr= key, on the named bus ("" when none).
AddDevice(s, dev, bus) ==
    IF s.panicked THEN s
    ELSE [s EXCEPT !.devs = Append(@, [dev |-> dev, bus |-> bus, addr |-> <<>>])]

\* buildDisplay, with buildVideoDevice: only qxl-vga, virtio-vga and vga
\* get a slot; any other type is emitted without bus or addr.
BuildDisplay(s) ==
    CASE cfg.video = "" -> s
      [] cfg.video \in {"qxl-vga", "virtio-vga", "vga"} -> AllocDevice(s, "video")
      [] OTHER -> AddDevice(s, "video", "")

\* buildAudio: the sound device always gets a slot.
BuildAudio(s) == IF cfg.audio = "" THEN s ELSE AllocDevice(s, "sound")

\* Mutant of BuildSATAController: the controller keyed on the disks.
BuildSATAControllerOnDisks(s) ==
    IF cfg.disks = <<>> THEN s ELSE AllocDevice(s, "sata")

\* buildSATAController: ich9-ahci or ahci, only when there are CD-ROMs.
BuildSATAController(s) == IF cfg.cdroms = 0 THEN s ELSE AllocDevice(s, "sata")

\* buildDiskArgs: virtio-blk-pci and nvme get a slot; scsi-hd goes on a
\* SCSI bus, ide-hd on the machine's IDE bus; any other interface is
\* emitted as virtio-blk-pci without bus or addr.
DiskArgs(s, iface) ==
    CASE iface \in {"virtio", "nvme"} -> AllocDevice(s, "disk")
      [] iface = "scsi" -> AddDevice(s, "disk", "scsi")
      [] OTHER -> AddDevice(s, "disk", "")

\* Mutant of BuildDisks: each disk is given a fresh allocator.
BuildDisksFreshAlloc(s) ==
    LET Fresh(t, iface) ==
            LET f == DiskArgs([t EXCEPT !.next = 3, !.used = P!InitialUsed(isQ35)],
                              iface)
            IN [t EXCEPT !.devs = f.devs, !.panicked = f.panicked]
    IN FoldLeft(Fresh, s, cfg.disks)

\* buildDisks.
BuildDisks(s) == FoldLeft(DiskArgs, s, cfg.disks)

\* buildCDROMs: ide-cd on bus sata0.<i>.
BuildCDROMs(s) ==
    FoldLeft(LAMBDA t, i : AddDevice(t, "cdrom", "sata0"), s, [i \in 1..cfg.cdroms |-> i])

\* buildNetworkArgs: the four listed NIC models get a slot, any other model
\* is emitted without bus or addr.
NetworkArgs(s, model) ==
    IF model \in {"virtio-net-pci", "e1000", "e1000e", "rtl8139"}
    THEN AllocDevice(s, "nic") ELSE AddDevice(s, "nic", "")

\* buildNetworks.
BuildNetworks(s) == FoldLeft(NetworkArgs, s, cfg.nets)

\* buildVirtioSerial: the controller when there is a VirtioSerial config or
\* a chardev, then the configured ports on virtio-serial0.0.
BuildVirtioSerial(s) ==
    IF cfg.vserial = -1 /\ ~cfg.chardevs THEN s
    ELSE FoldLeft(LAMBDA t, i : AddDevice(t, "port", "virtio-serial0"),
                  AllocDevice(s, "virtio-serial"),
                  [i \in 1..cfg.vserial |-> i])

\* buildUSB: the controller when there is a USB config or a USB device,
\* then the devices on usb0.0.
BuildUSB(s) ==
    IF ~cfg.usb /\ cfg.usbdevs = 0 THEN s
    ELSE FoldLeft(LAMBDA t, i : AddDevice(t, "usb-device", "usb0"),
                  AllocDevice(s, "usb"),
                  [i \in 1..cfg.usbdevs |-> i])

\* buildBalloon.
BuildBalloon(s) == IF cfg.balloon THEN AllocDevice(s, "balloon") ELSE s

\* buildMiscDevices: virtio-rng-pci, always.
BuildMiscDevices(s) == AllocDevice(s, "rng")

\* Mutant of BuildSteps: networks composed before disks.
BuildStepsNetsFirst(s) ==
    BuildMiscDevices(BuildBalloon(BuildUSB(BuildVirtioSerial(
      BuildDisks(BuildCDROMs(BuildNetworks(BuildSATAController(
        BuildAudio(BuildDisplay(s))))))))))

\* The device-adding steps of Build, in Build's order.
BuildSteps(s) ==
    BuildMiscDevices(BuildBalloon(BuildUSB(BuildVirtioSerial(
      BuildNetworks(BuildCDROMs(BuildDisks(BuildSATAController(
        BuildAudio(BuildDisplay(s))))))))))

\* Mutant of Init: the allocator built as a literal, nextSlot left at 0.
InitZeroNext ==
    /\ cfg \in Configs
    /\ isQ35 = NewVMBuilder(cfg)
    /\ nextSlot = 0
    /\ used = P!InitialUsed(isQ35)
    /\ panicked = FALSE
    /\ builds = <<>>

\* NewVMBuilder(cfg), with its newPCISlotAllocator(isQ35).
Init ==
    /\ cfg \in Configs
    /\ isQ35 = NewVMBuilder(cfg)
    /\ nextSlot = 3
    /\ used = P!InitialUsed(isQ35)
    /\ panicked = FALSE
    /\ builds = <<>>

\* b.Build(name, socketPath): b.args = nil, then every step; pciAlloc is
\* the builder's and is not renewed. A panic returns nothing.
Build ==
    LET r == BuildSteps([next |-> nextSlot, used |-> used, devs |-> <<>>,
                         panicked |-> FALSE])
    IN /\ ~panicked
       /\ Len(builds) < MaxBuilds
       /\ nextSlot' = r.next
       /\ used' = r.used
       /\ panicked' = r.panicked
       /\ builds' = IF r.panicked THEN builds ELSE Append(builds, r.devs)
       /\ UNCHANGED <<cfg, isQ35>>

Next == Build

Spec == Init /\ [][Next]_vars

-----------------------------------------------------------------------------
(* Properties.                                                             *)

DeviceLines ==
    [dev: {"video", "sound", "sata", "disk", "cdrom", "nic", "virtio-serial",
           "port", "usb", "usb-device", "balloon", "rng"},
     bus: {"", "pcie.0", "pci.0", "scsi", "sata0", "virtio-serial0", "usb0"},
     addr: {<<>>} \cup {P!FormatSlot(n) : n \in 0..31}]

TypeOK ==
    /\ cfg \in Configs
    /\ isQ35 \in BOOLEAN
    /\ nextSlot \in 3..32
    /\ used \subseteq 0..31
    /\ panicked \in BOOLEAN
    /\ builds \in Seq(Seq(DeviceLines))
    /\ Len(builds) <= MaxBuilds

\* The indices of the lines of one Build that carry an addr=.
Addressed(out) == {i \in DOMAIN out : out[i].addr # <<>>}

\* Within every Build's command line, no two devices are put at the same
\* root-bus address, and none at a slot newPCISlotAllocator reserved (the
\* root complex, Q35's root ports): the whole composition of build* steps
\* shares one allocator (spec 4.2, "conflict-free PCI slots").
SlotMapConflictFree ==
    \A b \in DOMAIN builds :
        \A i, j \in Addressed(builds[b]) :
            /\ i # j => builds[b][i].addr # builds[b][j].addr
            /\ P!ParseSlot(builds[b][i].addr) \notin P!InitialUsed(isQ35)

\* The allocation order of spec 4.2: video (inline with display), audio,
\* SATA, disks, networks, virtio-serial, USB, balloon, RNG.
ContractOrder ==
    <<"video", "sound", "sata", "disk", "nic", "virtio-serial", "usb",
      "balloon", "rng">>

ContractRank(dev) == CHOOSE k \in DOMAIN ContractOrder : ContractOrder[k] = dev

\* The first Build of a fresh builder hands out slots in the contract's
\* order of device kinds, and the k-th addressed device gets the k-th free
\* slot (3, 4, 5, ...), so the slot map is a function of the VMConfig.
SlotMapFollowsContract ==
    Len(builds) >= 1 =>
        LET out == builds[1]
            idx == SelectSeq([i \in DOMAIN out |-> i], LAMBDA i : i \in Addressed(out))
        IN \A k \in DOMAIN idx :
              /\ P!ParseSlot(out[idx[k]].addr) = 2 + k
              /\ k > 1 => ContractRank(out[idx[k - 1]].dev)
                             <= ContractRank(out[idx[k]].dev)

\* The bus a controller line creates for the lines after it.
Provides(dev) ==
    CASE dev = "sata" -> "sata0"
      [] dev = "virtio-serial" -> "virtio-serial0"
      [] dev = "usb" -> "usb0"
      [] OTHER -> "none"

\* Every device put on a named secondary bus (ide-cd on sata0, ports on
\* virtio-serial0, USB devices on usb0, scsi-hd on a SCSI bus) follows the
\* -device line of the controller that creates the bus, so QEMU can place it.
BusesResolve ==
    \A b \in DOMAIN builds :
        \A i \in DOMAIN builds[b] :
            \/ builds[b][i].bus \in {"", Bus(isQ35)}
            \/ \E j \in 1..(i - 1) : Provides(builds[b][j].dev) = builds[b][i].bus

\* Spec 8.2: build is deterministic, so every Build of the same VMConfig
\* returns the same command line.
BuildDeterministic ==
    \A b \in DOMAIN builds : builds[b] = builds[1]
=============================================================================
