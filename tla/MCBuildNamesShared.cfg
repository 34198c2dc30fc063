CONSTANTS
    Configs <- MCExplicit
SPECIFICATION Spec
CHECK_DEADLOCK FALSE
INVARIANTS
    UniqueNames
