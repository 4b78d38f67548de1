------------------------------ MODULE TaskPool ------------------------------
(***************************************************************************)
(* What component.CoroutinePool promises to the goroutines that submit     *)
(* tasks to it, without workers, locks, condition variables or a stop      *)
(* channel: every task has one fate, tasks start in priority order and     *)
(* first-in-first-out within a priority, and the backlog is bounded.       *)
(***************************************************************************)
EXTENDS Integers, Sequences

CONSTANTS Tasks,      \* the closures handed to the pool
          Capacity,   \* config.InitialQueue
          Class       \* the queue of each task, in 0..2

Priorities == 0..2    \* PriorityLow, PriorityMedium, PriorityHigh

VARIABLES status,     \* the fate of each task so far
          backlog     \* the tasks waiting to start, by priority

abstractVars == <<status, backlog>>

Size == Len(backlog[0]) + Len(backlog[1]) + Len(backlog[2])

Init ==
    /\ status = [t \in Tasks |-> "new"]
    /\ backlog = [p \in Priorities |-> <<>>]

\* The pool takes the task in and answers true.
Accept(t) ==
    /\ status[t] = "new"
    /\ Size < Capacity
    /\ status' = [status EXCEPT ![t] = "queued"]
    /\ backlog' = [backlog EXCEPT ![Class[t]] = Append(@, t)]

\* The pool answers false; only an *OrExecute task runs, in its caller.
Refuse(t) ==
    /\ status[t] = "new"
    /\ \E fate \in {"rejected", "inlined"} : status' = [status EXCEPT ![t] = fate]
    /\ UNCHANGED backlog

\* The oldest task of the highest priority that has any starts.
Start(p) ==
    /\ backlog[p] # <<>>
    /\ \A q \in Priorities : q > p => backlog[q] = <<>>
    /\ status' = [status EXCEPT ![Head(backlog[p])] = "running"]
    /\ backlog' = [backlog EXCEPT ![p] = Tail(@)]

Finish(t) ==
    /\ status[t] = "running"
    /\ status' = [status EXCEPT ![t] = "done"]
    /\ UNCHANGED backlog

\* Stop throws away whatever has not started.
Discard ==
    /\ status' = [t \in Tasks |-> IF status[t] = "queued" THEN "discarded" ELSE status[t]]
    /\ backlog' = [p \in Priorities |-> <<>>]

Next ==
    \/ \E t \in Tasks : Accept(t) \/ Refuse(t) \/ Finish(t)
    \/ \E p \in Priorities : Start(p)
    \/ Discard

Spec == Init /\ [][Next]_abstractVars
=============================================================================
