\* The slot map of Build over every small VMConfig: q35 by name, by
\* default on x86 and not on arm64, and pc; PCI and non-PCI video, disk and
\* NIC kinds; CD-ROMs, virtio-serial ports, USB devices, balloon; two
\* Builds on the same builder.
CONSTANTS
    NoMachine = NoMachine
    MachineTypes = {"q35", "pc"}
    Arches = {"", "arm64"}
    VideoTypes = {"", "virtio-vga", "virtio-gpu-pci"}
    AudioDevices = {"", "intel-hda"}
    DiskIfaces = {"virtio", "nvme", "ide"}
    NicModels = {"virtio-net-pci", "vmxnet3"}
    MaxCdroms = 1
    MaxDisks = 2
    MaxNets = 1
    MaxPorts = 1
    MaxUsbDevs = 1
    MaxBuilds = 2
SPECIFICATION Spec
\* The program may stop: nobody calls Build a third time.
CHECK_DEADLOCK FALSE
INVARIANTS
    TypeOK
    SlotMapConflictFree
    SlotMapFollowsContract
    BusesResolve
