----------------------------- MODULE MCAsyncCall -----------------------------
(* AsyncCall with one worker and the two expiry goroutines; the cfg chooses *)
(* callback calls, future calls or both.                                    *)
EXTENDS AsyncCall

CONSTANTS f1, f2, g1, w1, o1, o2, o3, o4, o5, o6
=============================================================================
