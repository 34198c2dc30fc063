---------------------------- MODULE MCBuildNames ----------------------------
EXTENDS BuildNames

\* One disk configuration: an ID ("" for none), a backend type and a
\* throttle group ("" for none).
DiskCfgs == [id : {"", "a", "b"}, backend : {"file", "nbd", "rbd", "iscsi"},
             group : {"", "g1"}]

DiskIdsDistinct(s) ==
    \A j, k \in DOMAIN s : j # k => DiskId(s[j]) # DiskId(s[k])

AllDiskSeqs == {<< >>} \cup {<<d>> : d \in DiskCfgs}
               \cup {<<d, e>> : d, e \in DiskCfgs}

\* Disks whose IDs are distinct once defaulted.
MCDisksDistinct == {s \in AllDiskSeqs : DiskIdsDistinct(s)}

NetBackends == {"user", "tap", "socket", "stream", "vde", "bridge"}

\* No network, one NIC of each backend without an ID, or one named c.
MCNetsApart == {<< >>} \cup {<<[id |-> "", backend |-> t]>> : t \in NetBackends}
               \cup {<<[id |-> "c", backend |-> "tap"]>>}

\* A configuration with every named step present.
Full ==
    [efi |-> "vars", mem |-> "file", secrets |-> <<"s1">>, video |-> TRUE,
     audio |-> [backend |-> "pa", device |-> "intel-hda", codec |-> TRUE],
     socket |-> TRUE, cdroms |-> <<TRUE>>,
     disks |-> <<[id |-> "a", backend |-> "file", group |-> "g1"]>>,
     nets |-> <<[id |-> "", backend |-> "user"]>>,
     vserial |-> 1, serials |-> 1, chardevs |-> <<"qga0">>,
     usb |-> TRUE, usbdevs |-> 1, balloon |-> TRUE]

\* The values each field, or pair of fields that interact, ranges over.
Variants ==
    {[Full EXCEPT !.efi = v] : v \in {"none", "code", "vars"}}
    \cup {[Full EXCEPT !.mem = v] : v \in {"", "file", "memfd", "hugepage"}}
    \cup {[Full EXCEPT !.secrets = v] : v \in {<< >>, <<"">>, <<"s1", "s2">>}}
    \cup {[Full EXCEPT !.video = v] : v \in BOOLEAN}
    \cup {[Full EXCEPT !.audio = v] :
             v \in [backend : {"", "none", "pa"},
                    device : {"", "intel-hda", "ich9-intel-hda", "ac97"},
                    codec : BOOLEAN]}
    \cup {[Full EXCEPT !.socket = v] : v \in BOOLEAN}
    \cup {[Full EXCEPT !.cdroms = v] :
             v \in {<< >>, <<FALSE>>, <<FALSE, TRUE>>, <<TRUE, TRUE>>}}
    \cup {[Full EXCEPT !.disks = d, !.nets = n] : d \in MCDisksDistinct, n \in MCNetsApart}
    \cup {[Full EXCEPT !.vserial = v, !.chardevs = c] :
             v \in -1..1, c \in {<< >>, <<"">>, <<"qga0">>}}
    \cup {[Full EXCEPT !.serials = v] : v \in 0..3}
    \cup {[Full EXCEPT !.usb = u, !.usbdevs = n] : u \in BOOLEAN, n \in 0..2}
    \cup {[Full EXCEPT !.balloon = v] : v \in BOOLEAN}

\* Two disks, neither with an ID.
MCNoId == {[Full EXCEPT !.disks = <<d, e>>] : d, e \in {c \in DiskCfgs : c.id = ""}}

\* Two disks with distinct explicit IDs.
MCExplicit == {[Full EXCEPT !.disks = s] :
                  s \in {s \in MCDisksDistinct : Len(s) = 2 /\ \A i \in 1..2 : s[i].id # ""}}

\* Disks with distinct IDs and no network.
MCDisksOnly == {[Full EXCEPT !.disks = s, !.nets = << >>] : s \in MCDisksDistinct}

\* Names a caller may pick that Build also generates: a disk named pflash0,
\* a chardev named qmp or serial0, a secret named like the disk's throttle
\* group or like the RNG object.
MCGeneratedClash ==
    {[Full EXCEPT !.disks = <<[id |-> "pflash0", backend |-> "file", group |-> ""]>>],
     [Full EXCEPT !.chardevs = <<"qmp">>],
     [Full EXCEPT !.chardevs = <<"serial0">>],
     [Full EXCEPT !.secrets = <<"g1">>],
     [Full EXCEPT !.secrets = <<"rng0">>]}
=============================================================================
