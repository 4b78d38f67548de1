------------------------------ MODULE TimingWheel ------------------------------
(***************************************************************************)
(* The hierarchical wheel of component/timing_wheel.go: Init, AddTask,     *)
(* RemoveTask, the tick loop with its cascade, and Stop.                   *)
(*                                                                         *)
(* Levels and slots are numbered from 1 and from 0.  A slot is a set: the  *)
(* order of its entries only orders callbacks of one tick.  A task's UUID  *)
(* is added once, as the UUIDs of requests are.  Time advances by one unit *)
(* at a time and not past a tick that is due: the ticks are punctual.      *)
(***************************************************************************)
EXTENDS Integers, Sequences, FiniteSets

CONSTANTS
    TickInterval,  \* tickIntervalMs of each level
    SlotCount,     \* slotCount of each level
    Uuids,
    Timeouts,      \* the timeouts tasks are added with
    MaxLate        \* bound: how far past its deadline a task is told apart

Levels == 1..Len(TickInterval)
Last == Len(TickInterval)

ASSUME TimingWheelAssumption ==
    /\ TickInterval \in Seq(Nat \ {0})
    /\ SlotCount \in Seq(Nat \ {0})
    /\ Len(TickInterval) = Len(SlotCount)
    /\ Len(TickInterval) > 0
    /\ Timeouts \subseteq Nat
    /\ MaxLate \in Nat

VARIABLES
    wheel,        \* off: no levels; stopping: stopped is set, levels still there
    cur,          \* currentSlot of each level
    entries,      \* the TaskEntry records in the slots, with the time they have left
    taskLocation, \* the keys of tw.taskLocation: the tasks still wanted
    ticksAt,      \* the level tick() is at under tw.mu, or 0
    phase, due,   \* time since the ticker last fired, and whether that is pending
    life          \* where each task is

wheelVars == <<wheel, cur, entries, taskLocation, ticksAt, phase, due, life>>

tasks == <<entries, taskLocation>>
clock == <<phase, due>>

WheelInit ==
    /\ wheel = "off"
    /\ cur = [i \in Levels |-> 0]
    /\ entries = {}
    /\ taskLocation = {}
    /\ ticksAt = 0
    /\ phase = 0
    /\ due = FALSE
    /\ life = [u \in Uuids |-> "new"]

-----------------------------------------------------------------------------
\* The time the levels up to i cover.
MaxRange[i \in 0..Last] ==
    IF i = 0 THEN 0 ELSE MaxRange[i - 1] + TickInterval[i] * SlotCount[i]

\* selectLevel: the first level whose range holds the timeout, or the last.
SelectLevel(timeout) ==
    CHOOSE i \in Levels :
        /\ timeout <= MaxRange[i] \/ i = Last
        /\ timeout > MaxRange[i - 1] \/ i = 1

(* A faulty variant of CalculateSlot, used only to show that a property    *)
(* below can fail.  The specification does not use it.                     *)

CalculateSlotRoundsDown(at, i, timeout) ==
    (at[i] + timeout \div TickInterval[i]) % SlotCount[i]

\* calculateSlot, with the current slots at.
CalculateSlot(at, i, timeout) ==
    (at[i] + (timeout + TickInterval[i] - 1) \div TickInterval[i]) % SlotCount[i]

\* Task e is filed in the slot for the time it has left.
Filed(e, at) ==
    LET i == SelectLevel(e.left)
    IN  [e EXCEPT !.level = i, !.slot = CalculateSlot(at, i, e.left)]

-----------------------------------------------------------------------------
(* Faulty variants of the tick, used only to show that the properties      *)
(* below can fail.  The specification uses none of them.                   *)

ExpireDropsEarly(slot, at) ==
    /\ entries' = entries \ slot
    /\ taskLocation' = taskLocation \ {e.uuid : e \in {x \in slot : x.left <= 0}}
    /\ life' = [u \in Uuids |->
                  IF \E e \in slot : e.uuid = u /\ u \in taskLocation /\ e.left <= 0
                  THEN "expired" ELSE life[u]]

ExpireRemovedToo(slot, at) ==
    LET early == {e \in slot : e.left > 0}
    IN  /\ entries' = (entries \ slot) \union {Filed(e, at) : e \in early}
        /\ taskLocation' = taskLocation \ {e.uuid : e \in slot \ early}
        /\ life' = [u \in Uuids |->
                      IF \E e \in slot \ early : e.uuid = u THEN "expired" ELSE life[u]]

NextLevelNever(i, at) == 0

-----------------------------------------------------------------------------
\* Init: fresh levels and a new tick loop.
Start ==
    /\ wheel = "off"
    /\ wheel' = "running"
    /\ cur' = [i \in Levels |-> 0]
    /\ phase' = 0
    /\ due' = FALSE
    /\ UNCHANGED <<tasks, ticksAt, life>>

\* AddTask looks at stopped and at the levels before it takes tw.mu.
CheckStopped(u) ==
    /\ life[u] = "new"
    /\ life' = [life EXCEPT ![u] = IF wheel = "running" THEN "checked" ELSE "refused"]
    /\ UNCHANGED <<wheel, cur, tasks, ticksAt, clock>>

AddTask(u, timeout) ==
    /\ life[u] = "checked"
    /\ ticksAt = 0
    /\ wheel # "off"
    /\ entries' = entries \union
                    {Filed([uuid |-> u, timeout |-> timeout, left |-> timeout,
                            level |-> 1, slot |-> 0], cur)}
    /\ taskLocation' = taskLocation \union {u}
    /\ life' = [life EXCEPT ![u] = "added"]
    /\ UNCHANGED <<wheel, cur, ticksAt, clock>>

\* Stop has taken the levels away in between: selectLevel returns -1 and
\* calculateSlot indexes with it.
AddTaskPanics(u) ==
    /\ life[u] = "checked"
    /\ wheel = "off"
    /\ life' = [life EXCEPT ![u] = "panicked"]
    /\ UNCHANGED <<wheel, cur, tasks, ticksAt, clock>>

\* RemoveTask: the entry stays in its slot.
RemoveTask(u) ==
    /\ life[u] = "added"
    /\ ticksAt = 0
    /\ taskLocation' = taskLocation \ {u}
    /\ life' = [life EXCEPT ![u] = "removed"]
    /\ UNCHANGED <<wheel, cur, entries, ticksAt, clock>>

-----------------------------------------------------------------------------
\* The tick loop.

\* One unit of time; the ticker fires every TickInterval[1] units.
PassTime ==
    /\ wheel = "running"
    /\ ~due
    /\ ticksAt = 0
    /\ phase' = (phase + 1) % TickInterval[1]
    /\ due' = (phase' = 0)
    /\ entries' = {[e EXCEPT !.left = IF @ > -MaxLate THEN @ - 1 ELSE @] : e \in entries}
    /\ UNCHANGED <<wheel, cur, taskLocation, ticksAt, life>>

\* The loop receives the tick, sees that the wheel runs and locks tw.mu.
TickBegins ==
    /\ wheel = "running"
    /\ due
    /\ due' = FALSE
    /\ ticksAt' = 1
    /\ UNCHANGED <<wheel, cur, tasks, phase, life>>

\* processExpiredTasks: removed tasks vanish, early ones are filed again, the
\* others expire and their callbacks run.
ProcessExpired(slot, at) ==
    LET wanted == {e \in slot : e.uuid \in taskLocation}
        early == {e \in wanted : e.left > 0}
        over == {e.uuid : e \in wanted \ early}
    IN  /\ entries' = (entries \ slot) \union {Filed(e, at) : e \in early}
        /\ taskLocation' = taskLocation \ over
        /\ life' = [u \in Uuids |-> IF u \in over THEN "expired" ELSE life[u]]

\* Only a level that wraps around to slot 0 advances the next one.
NextLevel(i, at) == IF at[i] = 0 /\ i < Last THEN i + 1 ELSE 0

TickLevel ==
    /\ ticksAt # 0
    /\ LET i == ticksAt
           at == [cur EXCEPT ![i] = (@ + 1) % SlotCount[i]]
       IN  /\ cur' = at
           /\ ProcessExpired({e \in entries : e.level = i /\ e.slot = at[i]}, at)
           /\ ticksAt' = NextLevel(i, at)
    /\ UNCHANGED <<wheel, clock>>

-----------------------------------------------------------------------------
\* Stop sets stopped and closes stopCh, waits for the tick loop, and then
\* clears the tables and drops the levels under tw.mu.

StopBegins ==
    /\ wheel = "running"
    /\ wheel' = "stopping"
    /\ UNCHANGED <<cur, tasks, ticksAt, clock, life>>

StopEnds ==
    /\ wheel = "stopping"
    /\ ticksAt = 0
    /\ wheel' = "off"
    /\ entries' = {}
    /\ taskLocation' = {}
    /\ life' = [u \in Uuids |-> IF life[u] = "added" THEN "cleared" ELSE life[u]]
    /\ UNCHANGED <<cur, ticksAt, clock>>

-----------------------------------------------------------------------------
Tick == PassTime \/ TickBegins \/ TickLevel

WheelNext ==
    \/ Start \/ StopBegins \/ StopEnds
    \/ Tick
    \/ \E u \in Uuids :
        \/ CheckStopped(u)
        \/ \E timeout \in Timeouts : AddTask(u, timeout)
        \/ AddTaskPanics(u)
        \/ RemoveTask(u)

\* The tick loop runs on its own goroutine and none of its steps waits for long;
\* Stop runs to its end.
WheelSpec == WheelInit /\ [][WheelNext]_wheelVars /\ WF_wheelVars(Tick) /\ WF_wheelVars(StopEnds)

-----------------------------------------------------------------------------
TaskEntry == [uuid : Uuids, timeout : Timeouts, left : Int, level : Levels, slot : Nat]

WheelTypeOK ==
    /\ wheel \in {"off", "running", "stopping"}
    /\ cur \in [Levels -> Nat]
    /\ \A i \in Levels : cur[i] < SlotCount[i]
    /\ entries \subseteq TaskEntry
    /\ \A e \in entries : e.slot < SlotCount[e.level]
    /\ taskLocation \subseteq Uuids
    /\ ticksAt \in 0..Last
    /\ phase \in 0..(TickInterval[1] - 1)
    /\ due \in BOOLEAN
    /\ life \in [Uuids -> {"new", "refused", "checked", "panicked", "added",
                           "removed", "expired", "cleared"}]

\* A task that is neither removed nor expired has exactly one entry, in a slot
\* the tick will come to (AddTask, processExpiredTasks).
NothingLost ==
    /\ \A u \in Uuids : life[u] = "added" <=> u \in taskLocation
    /\ \A u \in taskLocation : \E e \in entries : e.uuid = u
    /\ \A d, e \in entries : d.uuid = e.uuid => d = e

\* A removed task never expires, though its entry stays in the wheel, and a task
\* expires once (RemoveTask, processExpiredTasks).
FinalMeansFinal ==
    [][\A u \in Uuids : life[u] \in {"removed", "expired"} => life'[u] = life[u]]_life

\* The real time between two steps of level i: level i + 1 moves only when level
\* i wraps around, whatever its own tick interval says.
Period[i \in Levels] ==
    IF i = 1 THEN TickInterval[1] ELSE Period[i - 1] * SlotCount[i - 1]

\* The longest time before the tick comes to a task filed with time t left.
LongestWait(t) ==
    LET i == SelectLevel(t)
        ahead == (t + TickInterval[i] - 1) \div TickInterval[i]
    IN  Period[i] * (IF ahead % SlotCount[i] = 0 THEN SlotCount[i] ELSE ahead % SlotCount[i])

\* When the ticks are punctual, a task is late by no more than the wait for the
\* slot it was filed in, when it was added or filed again, exceeds the time it had
\* left then.  For level 0 that is less than a tick; for a timeout of 0 it is a
\* full turn of level 0; for the upper levels it is many of their ticks
\* (selectLevel, calculateSlot, tick, processExpiredTasks).
LatenessBounded ==
    \A e \in entries : e.uuid \in taskLocation /\ wheel = "running" =>
        \E t \in (IF e.timeout = 0 THEN {0} ELSE 1..e.timeout) :
            -e.left <= LongestWait(t) - t

\* Every task expires unless it is removed or the wheel is stopped (tick).
TasksEnd == \A u \in Uuids : life[u] = "added" ~> life[u] # "added"
=============================================================================
