------------------------------ MODULE MCContexts ------------------------------
(* Two users, one with a goroutine that waits, whose contexts may be the   *)
(* same object one after the other, on a wheel that is started and stopped.*)
EXTENDS Contexts

CONSTANTS u1, u2, o1, o2
=============================================================================
