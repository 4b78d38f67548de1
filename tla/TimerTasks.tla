------------------------------ MODULE TimerTasks ------------------------------
(***************************************************************************)
(* The timers of component/timing_wheel.go that run on goroutines of their *)
(* own: AddTaskAt, AddRepeatedTask and CancelTask, against Init and Stop   *)
(* of the wheel they belong to.                                            *)
(*                                                                         *)
(* A timer stands for its TimerId and is added once.  Durations are        *)
(* abstracted: a timer may fire at any moment after its goroutine waits.   *)
(* The stop channels the wheel makes are numbered: 0 is the one made by    *)
(* GetTimingWheel, n the one made by the n-th Init.                        *)
(***************************************************************************)
EXTENDS Integers, FiniteSets

CONSTANTS
    Timers,
    Repeated,  \* the timers added with AddRepeatedTask
    MaxInits   \* bound: how often the wheel is initialised

ASSUME TimerTasksAssumption ==
    /\ Repeated \subseteq Timers
    /\ MaxInits \in Nat

VARIABLES
    initialized, stopped,
    stopCh, closed,  \* the stop channel of the wheel, and those that are closed
    ticking,         \* the goroutine of tickLoop, which Stop waits for
    spc,             \* where Stop is
    timerTasks,      \* the keys of tw.timerTasks
    tpc,             \* where the adding and then the goroutine of each timer is
    watch,           \* the stop channel the goroutine's select looks at, else 0
    cancelled,       \* ghost: the timers for which CancelTask has returned true
    tooLate,         \* ghost: the callbacks that began after that, per timer
    raced            \* ghost: the timers entered when stopped was set

lifeVars == <<initialized, stopped, stopCh, closed, ticking, spc>>
timerGhosts == <<cancelled, tooLate, raced>>
timerVars == <<lifeVars, timerTasks, tpc, watch, timerGhosts>>

InitTimers ==
    /\ initialized = FALSE
    /\ stopped = FALSE
    /\ stopCh = 0
    /\ closed = {}
    /\ ticking = FALSE
    /\ spc = "idle"
    /\ timerTasks = {}
    /\ tpc = [t \in Timers |-> "new"]
    /\ watch = [t \in Timers |-> 0]
    /\ cancelled = {}
    /\ tooLate = [t \in Timers |-> 0]
    /\ raced = {}

GoTimer(t, there) == tpc' = [tpc EXCEPT ![t] = there]

-----------------------------------------------------------------------------
(* Faulty variants of the actions, used only to show that the properties   *)
(* can fail.  The specification uses none of them.                         *)

InitKeepsStopped ==
    /\ ~initialized
    /\ stopCh < MaxInits
    /\ initialized' = TRUE
    /\ stopCh' = stopCh + 1
    /\ ticking' = TRUE
    /\ UNCHANGED <<stopped, closed, spc, timerTasks, tpc, watch, timerGhosts>>

TimerFiresKeeps(t) ==
    /\ tpc[t] = "waiting" \/ (tpc[t] = "entered" /\ t \in Repeated)
    /\ GoTimer(t, IF t \in timerTasks THEN "passed" ELSE "ended")
    /\ watch' = [watch EXCEPT ![t] = 0]
    /\ UNCHANGED <<lifeVars, timerTasks, timerGhosts>>

StopKeepsTimers ==
    /\ spc = "wait"
    /\ ~ticking
    /\ initialized' = FALSE
    /\ spc' = "idle"
    /\ UNCHANGED <<stopped, stopCh, closed, ticking, timerTasks, tpc, watch, timerGhosts>>

-----------------------------------------------------------------------------
\* Init: a new stop channel and a new tick loop; tw.timerTasks stays as it is.
InitWheel ==
    /\ ~initialized
    /\ stopCh < MaxInits
    /\ initialized' = TRUE
    /\ stopped' = FALSE
    /\ stopCh' = stopCh + 1
    /\ ticking' = TRUE
    /\ UNCHANGED <<closed, spc, timerTasks, tpc, watch, timerGhosts>>

\* AddTaskAt and AddRepeatedTask look at stopped without the lock.
AddCheck(t) ==
    /\ tpc[t] = "new"
    /\ GoTimer(t, IF stopped THEN "refused" ELSE "checked")
    /\ UNCHANGED <<lifeVars, timerTasks, watch, timerGhosts>>

\* AddTaskAt, past the deadline: the callback runs at once, and there is no
\* identifier to cancel it by.
AddLate(t) ==
    /\ tpc[t] = "checked"
    /\ t \notin Repeated
    /\ GoTimer(t, "passed")
    /\ UNCHANGED <<lifeVars, timerTasks, watch, timerGhosts>>

\* The entry under tw.mu, and the start of the goroutine.
AddEnter(t) ==
    /\ tpc[t] = "checked"
    /\ timerTasks' = timerTasks \union {t}
    /\ GoTimer(t, "entered")
    /\ raced' = IF stopped THEN raced \union {t} ELSE raced
    /\ UNCHANGED <<lifeVars, watch, cancelled, tooLate>>

\* CancelTask, true for the timers that have an entry.
CancelTask(t) ==
    /\ timerTasks' = timerTasks \ {t}
    /\ cancelled' = cancelled \union ({t} \intersect timerTasks)
    /\ UNCHANGED <<lifeVars, tpc, watch, tooLate, raced>>

-----------------------------------------------------------------------------
\* The goroutine of a timer.

\* It comes to its select, which reads tw.stopCh now.
TimerWaits(t) ==
    /\ tpc[t] \in {"entered", "returned"}
    /\ watch' = [watch EXCEPT ![t] = stopCh]
    /\ GoTimer(t, "waiting")
    /\ UNCHANGED <<lifeVars, timerTasks, timerGhosts>>

(* The timer fires, or a repeated one has no initial delay.  Under tw.mu   *)
(* the goroutine looks for its entry; a one-shot timer takes it out.       *)
TimerFires(t) ==
    /\ tpc[t] = "waiting" \/ (tpc[t] = "entered" /\ t \in Repeated)
    /\ GoTimer(t, IF t \in timerTasks THEN "passed" ELSE "ended")
    /\ timerTasks' = IF t \in Repeated THEN timerTasks ELSE timerTasks \ {t}
    /\ watch' = [watch EXCEPT ![t] = 0]
    /\ UNCHANGED <<lifeVars, timerGhosts>>

\* The channel its select looks at is closed.
TimerStops(t) ==
    /\ tpc[t] = "waiting"
    /\ watch[t] \in closed
    /\ GoTimer(t, "ended")
    /\ watch' = [watch EXCEPT ![t] = 0]
    /\ UNCHANGED <<lifeVars, timerTasks, timerGhosts>>

\* The callback begins after the unlock.
CallbackBegins(t) ==
    /\ tpc[t] = "passed"
    /\ GoTimer(t, "callback")
    /\ tooLate' = IF t \in cancelled THEN [tooLate EXCEPT ![t] = @ + 1] ELSE tooLate
    /\ UNCHANGED <<lifeVars, timerTasks, watch, cancelled, raced>>

CallbackReturns(t) ==
    /\ tpc[t] = "callback"
    /\ GoTimer(t, IF t \in Repeated THEN "returned" ELSE "ended")
    /\ UNCHANGED <<lifeVars, timerTasks, watch, timerGhosts>>

TimerStep(t) ==
    TimerWaits(t) \/ TimerFires(t) \/ TimerStops(t) \/ CallbackBegins(t)

-----------------------------------------------------------------------------
\* Stop: one caller gets past stopped.Swap(true) ...
StopWheel ==
    /\ initialized
    /\ ~stopped
    /\ stopped' = TRUE
    /\ spc' = "close"
    /\ UNCHANGED <<initialized, stopCh, closed, ticking, timerTasks, tpc, watch, timerGhosts>>

\* ... closes the channel and waits for the tick loop ...
StopCloses ==
    /\ spc = "close"
    /\ closed' = closed \union {stopCh}
    /\ spc' = "wait"
    /\ UNCHANGED <<initialized, stopped, stopCh, ticking, timerTasks, tpc, watch, timerGhosts>>

TickLoopEnds ==
    /\ ticking
    /\ stopCh \in closed
    /\ ticking' = FALSE
    /\ UNCHANGED <<initialized, stopped, stopCh, closed, spc, timerTasks, tpc, watch,
                   timerGhosts>>

\* ... and then clears the tables under tw.mu.
StopClears ==
    /\ spc = "wait"
    /\ ~ticking
    /\ timerTasks' = {}
    /\ initialized' = FALSE
    /\ spc' = "idle"
    /\ UNCHANGED <<stopped, stopCh, closed, ticking, tpc, watch, timerGhosts>>

StopStep == StopCloses \/ TickLoopEnds \/ StopClears

-----------------------------------------------------------------------------
TimersTypeOK ==
    /\ initialized \in BOOLEAN /\ stopped \in BOOLEAN /\ ticking \in BOOLEAN
    /\ stopCh \in 0..MaxInits
    /\ closed \subseteq 0..MaxInits
    /\ spc \in {"idle", "close", "wait"}
    /\ timerTasks \subseteq Timers
    /\ tpc \in [Timers -> {"new", "refused", "checked", "entered", "waiting", "passed",
                           "callback", "returned", "ended"}]
    /\ watch \in [Timers -> 0..MaxInits]
    /\ cancelled \subseteq Timers
    /\ tooLate \in [Timers -> Nat]
    /\ raced \subseteq Timers

\* When CancelTask has returned true, the callback of a one-shot timer never
\* begins, and that of a repeated timer at most once more: when the goroutine has
\* found its entry and not yet made the call (AddTaskAt, AddRepeatedTask).
CancelIsFinal ==
    \A t \in Timers : tooLate[t] <= IF t \in Repeated THEN 1 ELSE 0

\* From the return of Stop to the next Init no timer gets past the check that
\* leads to its callback, except one whose adding had looked at stopped before
\* Stop set it and entered it after Stop had cleared the table.
StopIsFinal ==
    [][\A t \in Timers :
          stopped /\ spc = "idle" /\ tpc[t] # "passed" /\ tpc'[t] = "passed" =>
              t \in raced \/ tpc[t] = "checked"]_tpc
=============================================================================
