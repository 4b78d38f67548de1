---------------------------- MODULE MCTimingWheel ----------------------------
(* Three levels of two slots whose periods (2, 4 and 8) differ from their   *)
(* tick intervals, as those of the default configuration do.               *)
EXTENDS TimingWheel

CONSTANTS u1, u2

MCTickInterval == <<2, 3, 6>>
MCSlotCount == <<2, 2, 2>>
=============================================================================
