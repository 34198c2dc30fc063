------------------------------ MODULE MCInstance ------------------------------
(* Instance with two concurrent callers.                                   *)
EXTENDS Instance

CONSTANTS c1, c2

MCCallers == {c1, c2}
=============================================================================
