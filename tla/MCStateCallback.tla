--------------------------- MODULE MCStateCallback ---------------------------
EXTENDS StateCallback

CONSTANTS u1

\* One goroutine of the program calling QueryState.
MCUsers == {u1}
=============================================================================
