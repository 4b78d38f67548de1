--------------------------- MODULE MCCoroutinePool ---------------------------
(* CoroutinePool on a small instance: one worker that the scaling loop may  *)
(* join by a second, a backlog of two, and three tasks: two of them share a *)
(* queue, one by its out-of-range priority, and one of these runs in its    *)
(* caller when refused.                                                     *)
EXTENDS CoroutinePool, TLC

CONSTANTS w1, w2, t1, t2, t3

MCPriority == [t \in Tasks |-> CASE t = t1 -> High [] t = t2 -> 7 [] OTHER -> Medium]
MCOrExecute == {t3}
=============================================================================
