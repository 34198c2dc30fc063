\* Every named step of Build: the configuration with all of them, and each
\* field (disks and NICs together, virtio-serial and chardevs together)
\* varied over its values with the others as in Full.
CONSTANTS
    Configs <- Variants
SPECIFICATION Spec
\* Build returns once its last step has run.
CHECK_DEADLOCK FALSE
INVARIANTS
    RefsResolve
    OutermostDrive
