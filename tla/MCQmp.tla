-------------------------------- MODULE MCQmp --------------------------------
(* Model-checking instance of Qmp: two callers, the first of which runs    *)
(* StartContext.                                                           *)
EXTENDS Qmp

CONSTANTS c1, c2

MCCallers == {c1, c2}
MCStarter == c1
\* StartContext's goroutine alone
MCSoleCaller == {c1}
=============================================================================
