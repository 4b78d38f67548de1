----------------------------- MODULE MCFramework -----------------------------
(* Two calls of Start, so one restart or one Start of a framework that is  *)
(* up, with any number of Shutdowns, and two connections.                  *)
EXTENDS Framework

CONSTANTS c1, c2
=============================================================================
