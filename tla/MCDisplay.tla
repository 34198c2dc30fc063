------------------------------ MODULE MCDisplay ------------------------------
EXTENDS Display, TLC

CONSTANTS c1, c2

MCCallers == {c1, c2}

MCProtocols == {"vnc", "spice"}

\* QEMU started with VNC only, so a SPICE call fails inside QEMU.
MCDisplays == {"vnc"}

\* Distinct clock readings for the two calls (nanosecond clock).
MCClockDistinct == {1, 2}

\* One reading for both calls (a coarse clock).
MCClockCoarse == {1}
=============================================================================
