---------------------------- MODULE CoroutinePool ----------------------------
(***************************************************************************)
(* component/coroutine_pool.go: the pool with three priority queues on     *)
(* which the framework runs every message handler.                         *)
(*                                                                         *)
(* Goroutines: the workers (wpc), one submitting goroutine per task (tpc), *)
(* the caller of Stop (spc) and the scaling loop (scaler).  An action is   *)
(* what one goroutine does between two points where another can act: an    *)
(* atomic operation, or a critical section of queueMu.                     *)
(***************************************************************************)
EXTENDS Integers, Sequences, FiniteSets

CONSTANTS
    Workers,          \* worker goroutines; an identity is reused after exit
    Tasks,            \* tasks submitted, each by a goroutine of its own
    NoTask,
    Priority,         \* [Tasks -> Int], the argument of EnqueueWithPriority
    OrExecute,        \* the tasks submitted with EnqueueOrExecute*
    Capacity,         \* config.InitialQueue
    InitialWorkers,   \* config.InitialWorkers
    MaxWorkers,       \* config.Scaling.MaxWorkers
    ScaleUpStep,      \* config.Scaling.ScaleUpStep
    ScalePercent,     \* config.Scaling.ScaleThreshold, in percent
    AutoScale         \* config.Scaling.EnableAutoScale

ASSUME PoolAssumption ==
    /\ IsFiniteSet(Workers)
    /\ IsFiniteSet(Tasks)
    /\ NoTask \notin Tasks
    /\ Priority \in [Tasks -> Int]
    /\ OrExecute \subseteq Tasks
    /\ Capacity \in Nat \ {0}
    /\ InitialWorkers \in Nat \ {0}
    /\ InitialWorkers <= Cardinality(Workers)
    /\ MaxWorkers \in Nat
    /\ ScaleUpStep \in Nat
    /\ ScalePercent \in Nat
    /\ AutoScale \in BOOLEAN

Low == 0
Medium == 1
High == 2
Priorities == {Low, Medium, High}

VARIABLES
    state,        \* PoolState: "Idle", "Running", "Stopping", "Stopped"
    stopClosed,   \* stopCh has been closed
    queue,        \* highQueue, mediumQueue and lowQueue
    allNil,       \* the three slices are nil, not merely empty
    queueSize,    \* the atomic counter, updated outside queueMu
    wpc, wtask,   \* where each worker is and the task it took
    tpc,          \* where the submission of each task is
    spc, waitFor, \* where Stop is, and its argument
    scaler, toAdd,\* the scaling loop and the workers it decided to add
    started       \* ghost: the tasks whose function a worker has called

poolVars == <<state, stopClosed, queue, allNil, queueSize, wpc, wtask, tpc,
              spc, waitFor, scaler, toAdd, started>>

QueueOf(t) == IF Priority[t] \in Priorities THEN Priority[t] ELSE Medium

Total == Len(queue[Low]) + Len(queue[Medium]) + Len(queue[High])

At(l) == {w \in Workers : wpc[w] = l}
Live == {w \in Workers : wpc[w] # "off"}

Init ==
    /\ state = "Idle"
    /\ stopClosed = FALSE
    /\ queue = [p \in Priorities |-> <<>>]
    /\ allNil = TRUE
    /\ queueSize = 0
    /\ wpc = [w \in Workers |-> "off"]
    /\ wtask = [w \in Workers |-> NoTask]
    /\ tpc = [t \in Tasks |-> "new"]
    /\ spc = "idle"
    /\ waitFor = FALSE
    /\ scaler = "off"
    /\ toAdd = 0
    /\ started = {}

-----------------------------------------------------------------------------
(* Faulty variants of the actions, used only to show that the properties   *)
(* below can fail.  The specification uses none of them.                   *)

WorkerTakeAnyPriority(w) ==
    /\ \/ wpc[w] = "lock" /\ ~allNil
       \/ wpc[w] = "woken" /\ ~stopClosed
    /\ \E p \in Priorities :
          /\ queue[p] # <<>>
          /\ wtask' = [wtask EXCEPT ![w] = Head(queue[p])]
          /\ queue' = [queue EXCEPT ![p] = Tail(@)]
    /\ wpc' = [wpc EXCEPT ![w] = "took"]
    /\ UNCHANGED <<state, stopClosed, allNil, queueSize, tpc, spc, waitFor,
                   scaler, toAdd, started>>

WorkerWaitUnchecked(w) ==
    /\ \/ wpc[w] = "lock" /\ ~allNil
       \/ wpc[w] = "woken"
    /\ ~stopClosed
    /\ wpc' = [wpc EXCEPT ![w] = "wait"]
    /\ UNCHANGED <<state, stopClosed, queue, allNil, queueSize, wtask, tpc,
                   spc, waitFor, scaler, toAdd, started>>

WorkerRunUncounted(w) ==
    /\ wpc[w] = "took"
    /\ started' = started \union {wtask[w]}
    /\ wpc' = [wpc EXCEPT ![w] = "run"]
    /\ UNCHANGED <<state, stopClosed, queue, allNil, queueSize, wtask, tpc, spc,
                   waitFor, scaler, toAdd>>

EnqueueAppendOneMore(t) ==
    /\ tpc[t] = "checked"
    /\ Total <= Capacity
    /\ queue' = [queue EXCEPT ![QueueOf(t)] = Append(@, t)]
    /\ allNil' = FALSE
    /\ tpc' = [tpc EXCEPT ![t] = "appended"]
    /\ UNCHANGED <<state, stopClosed, queueSize, wpc, wtask, spc, waitFor,
                   scaler, toAdd, started>>

\* Signal only when the queues were empty.
EnqueueAppendSignalFirst(t) ==
    /\ tpc[t] = "checked"
    /\ Total < Capacity
    /\ queue' = [queue EXCEPT ![QueueOf(t)] = Append(@, t)]
    /\ allNil' = FALSE
    /\ tpc' = [tpc EXCEPT ![t] = IF Total = 0 THEN "appended" ELSE "signalled"]
    /\ UNCHANGED <<state, stopClosed, queueSize, wpc, wtask, spc, waitFor,
                   scaler, toAdd, started>>

StopJoinNoWait ==
    /\ spc = "join"
    /\ state' = "Stopped"
    /\ spc' = "done"
    /\ UNCHANGED <<stopClosed, queue, allNil, queueSize, wpc, wtask, tpc,
                   waitFor, scaler, toAdd, started>>

-----------------------------------------------------------------------------
\* InitWithConfig, startWorkers and startScalingLoop.

InitPool ==
    /\ state = "Idle"
    /\ state' = "Running"
    /\ allNil' = FALSE
    /\ \E new \in SUBSET Workers :
          /\ Cardinality(new) = InitialWorkers
          /\ wpc' = [w \in Workers |-> IF w \in new THEN "top" ELSE wpc[w]]
    /\ scaler' = IF AutoScale THEN "waiting" ELSE "off"
    /\ UNCHANGED <<stopClosed, queue, queueSize, wtask, tpc, spc, waitFor,
                   toAdd, started>>

-----------------------------------------------------------------------------
\* workerLoop.

\* The non-blocking receive from stopCh at the top of the loop.
WorkerTop(w) ==
    /\ wpc[w] = "top"
    /\ ~stopClosed
    /\ wpc' = [wpc EXCEPT ![w] = "lock"]
    /\ UNCHANGED <<state, stopClosed, queue, allNil, queueSize, wtask, tpc,
                   spc, waitFor, scaler, toAdd, started>>

\* The four returns of the loop: stopCh closed at the top, nil queues, empty
\* queues with stopCh closed, and stopCh closed on waking from the wait.
WorkerExit(w) ==
    /\ \/ wpc[w] \in {"top", "woken"} /\ stopClosed
       \/ wpc[w] = "lock" /\ (allNil \/ (Total = 0 /\ stopClosed))
    /\ wpc' = [wpc EXCEPT ![w] = "off"]
    /\ UNCHANGED <<state, stopClosed, queue, allNil, queueSize, wtask, tpc,
                   spc, waitFor, scaler, toAdd, started>>

\* queueCond.Wait on empty queues.
WorkerWait(w) ==
    /\ \/ wpc[w] = "lock" /\ ~allNil
       \/ wpc[w] = "woken"
    /\ ~stopClosed
    /\ Total = 0
    /\ wpc' = [wpc EXCEPT ![w] = "wait"]
    /\ UNCHANGED <<state, stopClosed, queue, allNil, queueSize, wtask, tpc,
                   spc, waitFor, scaler, toAdd, started>>

\* The head of the highest non-empty queue, still under queueMu.  A worker
\* that finds work at once does not look at stopCh again.
WorkerTake(w) ==
    /\ \/ wpc[w] = "lock" /\ ~allNil
       \/ wpc[w] = "woken" /\ ~stopClosed
    /\ \E p \in Priorities :
          /\ queue[p] # <<>>
          /\ \A q \in Priorities : q > p => queue[q] = <<>>
          /\ wtask' = [wtask EXCEPT ![w] = Head(queue[p])]
          /\ queue' = [queue EXCEPT ![p] = Tail(@)]
    /\ wpc' = [wpc EXCEPT ![w] = "took"]
    /\ UNCHANGED <<state, stopClosed, allNil, queueSize, tpc, spc, waitFor,
                   scaler, toAdd, started>>

\* queueSize.Add(-1), then executeTask calls the function.
WorkerRun(w) ==
    /\ wpc[w] = "took"
    /\ queueSize' = queueSize - 1
    /\ started' = started \union {wtask[w]}
    /\ wpc' = [wpc EXCEPT ![w] = "run"]
    /\ UNCHANGED <<state, stopClosed, queue, allNil, wtask, tpc, spc, waitFor,
                   scaler, toAdd>>

\* The function returned or panicked: executeTask recovers either way.
WorkerFinish(w) ==
    /\ wpc[w] = "run"
    /\ wtask' = [wtask EXCEPT ![w] = NoTask]
    /\ wpc' = [wpc EXCEPT ![w] = "top"]
    /\ UNCHANGED <<state, stopClosed, queue, allNil, queueSize, tpc, spc,
                   waitFor, scaler, toAdd, started>>

-----------------------------------------------------------------------------
\* EnqueueWithPriority and EnqueueOrExecuteWithPriority.

Refused(t) == IF t \in OrExecute THEN "inlined" ELSE "rejected"

\* state.Load(), before and outside queueMu.
EnqueueCheck(t) ==
    /\ tpc[t] = "new"
    /\ tpc' = [tpc EXCEPT ![t] = IF state = "Running" THEN "checked" ELSE Refused(t)]
    /\ UNCHANGED <<state, stopClosed, queue, allNil, queueSize, wpc, wtask,
                   spc, waitFor, scaler, toAdd, started>>

EnqueueFull(t) ==
    /\ tpc[t] = "checked"
    /\ Total >= Capacity
    /\ tpc' = [tpc EXCEPT ![t] = Refused(t)]
    /\ UNCHANGED <<state, stopClosed, queue, allNil, queueSize, wpc, wtask,
                   spc, waitFor, scaler, toAdd, started>>

\* append under queueMu; the slice appended to is not nil afterwards.
EnqueueAppend(t) ==
    /\ tpc[t] = "checked"
    /\ Total < Capacity
    /\ queue' = [queue EXCEPT ![QueueOf(t)] = Append(@, t)]
    /\ allNil' = FALSE
    /\ tpc' = [tpc EXCEPT ![t] = "appended"]
    /\ UNCHANGED <<state, stopClosed, queueSize, wpc, wtask, spc, waitFor,
                   scaler, toAdd, started>>

\* queueCond.Signal after the unlock: wakes one waiter if there is one.
EnqueueSignal(t) ==
    /\ tpc[t] = "appended"
    /\ \/ \E w \in At("wait") : wpc' = [wpc EXCEPT ![w] = "woken"]
       \/ At("wait") = {} /\ UNCHANGED wpc
    /\ tpc' = [tpc EXCEPT ![t] = "signalled"]
    /\ UNCHANGED <<state, stopClosed, queue, allNil, queueSize, wtask, spc,
                   waitFor, scaler, toAdd, started>>

\* queueSize.Add(1) comes last, possibly after a worker's Add(-1).
EnqueueCount(t) ==
    /\ tpc[t] = "signalled"
    /\ queueSize' = queueSize + 1
    /\ tpc' = [tpc EXCEPT ![t] = "accepted"]
    /\ UNCHANGED <<state, stopClosed, queue, allNil, wpc, wtask, spc, waitFor,
                   scaler, toAdd, started>>

-----------------------------------------------------------------------------
\* Stop.

\* The compare-and-swap lets one caller through; the others return at once.
StopBegin ==
    /\ state = "Running"
    /\ state' = "Stopping"
    /\ waitFor' \in BOOLEAN
    /\ spc' = "close"
    /\ UNCHANGED <<stopClosed, queue, allNil, queueSize, wpc, wtask, tpc,
                   scaler, toAdd, started>>

\* scaleTimer.Stop() and close(stopCh).
StopClose ==
    /\ spc = "close"
    /\ stopClosed' = TRUE
    /\ spc' = IF waitFor THEN "drain" ELSE "discard"
    /\ UNCHANGED <<state, queue, allNil, queueSize, wpc, wtask, tpc, waitFor,
                   scaler, toAdd, started>>

\* The polling loop of Stop(true) ends when it reads a counter of 0.
StopDrained ==
    /\ spc = "drain"
    /\ queueSize <= 0
    /\ spc' = "discard"
    /\ UNCHANGED <<state, stopClosed, queue, allNil, queueSize, wpc, wtask,
                   tpc, waitFor, scaler, toAdd, started>>

\* The queues become nil and every waiter wakes, under queueMu.
StopDiscard ==
    /\ spc = "discard"
    /\ queue' = [p \in Priorities |-> <<>>]
    /\ allNil' = TRUE
    /\ wpc' = [w \in Workers |-> IF wpc[w] = "wait" THEN "woken" ELSE wpc[w]]
    /\ spc' = "join"
    /\ UNCHANGED <<state, stopClosed, queueSize, wtask, tpc, waitFor, scaler,
                   toAdd, started>>

\* wg.Wait().
StopJoin ==
    /\ spc = "join"
    /\ Live = {}
    /\ state' = "Stopped"
    /\ spc' = "done"
    /\ UNCHANGED <<stopClosed, queue, allNil, queueSize, wpc, wtask, tpc,
                   waitFor, scaler, toAdd, started>>

-----------------------------------------------------------------------------
\* The goroutine of startScalingLoop, and checkAndScale.

Overloaded ==
    \/ Live # {} /\ Cardinality(At("run")) * 100 >= ScalePercent * Cardinality(Live)
    \/ queueSize * 100 >= ScalePercent * Capacity

\* The timer fires and the load is read; whether the cooldown has passed is
\* left open.  The timer is stopped before stopCh closes, so it does not
\* fire afterwards.  No branch of the code ever removes a worker.
ScalerCheck ==
    /\ scaler = "waiting"
    /\ ~stopClosed
    /\ \/ /\ Overloaded
          /\ Cardinality(Live) < MaxWorkers
          /\ toAdd' = IF Cardinality(Live) + ScaleUpStep <= MaxWorkers
                      THEN ScaleUpStep ELSE MaxWorkers - Cardinality(Live)
          /\ scaler' = "adding"
       \/ UNCHANGED <<toAdd, scaler>>
    /\ UNCHANGED <<state, stopClosed, queue, allNil, queueSize, wpc, wtask,
                   tpc, spc, waitFor, started>>

\* startWorkers(toAdd): nothing looks at the state of the pool again.
ScalerAdd ==
    /\ scaler = "adding"
    /\ \E new \in SUBSET (Workers \ Live) :
          /\ Cardinality(new) = toAdd
          /\ wpc' = [w \in Workers |-> IF w \in new THEN "top" ELSE wpc[w]]
    /\ scaler' = "waiting"
    /\ toAdd' = 0
    /\ UNCHANGED <<state, stopClosed, queue, allNil, queueSize, wtask, tpc,
                   spc, waitFor, started>>

ScalerExit ==
    /\ scaler = "waiting"
    /\ stopClosed
    /\ scaler' = "off"
    /\ UNCHANGED <<state, stopClosed, queue, allNil, queueSize, wpc, wtask,
                   tpc, spc, waitFor, toAdd, started>>

-----------------------------------------------------------------------------
WorkerStep(w) ==
    \/ WorkerTop(w) \/ WorkerExit(w) \/ WorkerWait(w)
    \/ WorkerTake(w) \/ WorkerRun(w) \/ WorkerFinish(w)

\* What the submitter does once it has called the pool.
SubmitStep(t) ==
    EnqueueFull(t) \/ EnqueueAppend(t) \/ EnqueueSignal(t) \/ EnqueueCount(t)

StopStep == StopClose \/ StopDrained \/ StopDiscard \/ StopJoin

ScalerStep == ScalerCheck \/ ScalerAdd \/ ScalerExit

Next ==
    \/ InitPool
    \/ \E w \in Workers : WorkerStep(w)
    \/ \E t \in Tasks : EnqueueCheck(t) \/ SubmitStep(t)
    \/ StopBegin \/ StopStep
    \/ ScalerStep

Spec == Init /\ [][Next]_poolVars

\* A started goroutine keeps running, and a task function returns.  Nobody
\* has to submit, start or stop, and the cooldown may never pass.  (One weak
\* fairness for all submitters: each takes a bounded number of steps.)
Fairness ==
    /\ \A w \in Workers : WF_poolVars(WorkerStep(w))
    /\ WF_poolVars(\E t \in Tasks : SubmitStep(t))
    /\ WF_poolVars(StopStep)
    /\ WF_poolVars(ScalerAdd \/ ScalerExit)

FairSpec == Spec /\ Fairness

-----------------------------------------------------------------------------
\* Every variable keeps its type; the slices hold submitted tasks only, and
\* exactly the workers between the pop and the return of executeTask own one.
TypeOK ==
    /\ state \in {"Idle", "Running", "Stopping", "Stopped"}
    /\ stopClosed \in BOOLEAN
    /\ queue \in [Priorities -> Seq(Tasks)]
    /\ allNil \in BOOLEAN
    /\ queueSize \in Int
    /\ wpc \in [Workers -> {"off", "top", "lock", "wait", "woken", "took", "run"}]
    /\ wtask \in [Workers -> Tasks \union {NoTask}]
    /\ \A w \in Workers : wtask[w] \in Tasks <=> wpc[w] \in {"took", "run"}
    /\ tpc \in [Tasks -> {"new", "checked", "appended", "signalled", "accepted",
                          "rejected", "inlined"}]
    /\ spc \in {"idle", "close", "drain", "discard", "join", "done"}
    /\ waitFor \in BOOLEAN
    /\ scaler \in {"off", "waiting", "adding"}
    /\ toAdd \in Nat
    /\ started \subseteq Tasks

\* No wakeup is lost between the unlock of EnqueueWithPriority and the wait
\* of workerLoop: while the pool is open and some worker sleeps, each queued
\* task has a worker already woken or a submitter about to call Signal.
WakeupPerTask ==
    ~stopClosed /\ At("wait") # {} =>
        Total <= Cardinality(At("woken"))
                 + Cardinality({t \in Tasks : tpc[t] = "appended"})

\* The three slices together never exceed config.InitialQueue, although
\* submitters test the state and the workers pop at any moment.
CapacityRespected == Total <= Capacity

\* Once Stop has returned, no worker holds or can still pick a task: the
\* only goroutines left are ones the scaling loop started too late, and they
\* are at the receive from stopCh that makes them return.
QuietWhenStopped ==
    state = "Stopped" => /\ stopClosed
                         /\ \A w \in Workers : wpc[w] \in {"off", "top"}
                         /\ \A w \in Workers : wtask[w] = NoTask

-----------------------------------------------------------------------------
\* The abstraction: the fate of each task.

Queued(t) == \E p \in Priorities : \E i \in DOMAIN queue[p] : queue[p][i] = t
Held(t) == \E w \in Workers : wtask[w] = t

Status(t) ==
    CASE tpc[t] \in {"new", "checked"}       -> "new"
      [] tpc[t] \in {"rejected", "inlined"}  -> tpc[t]
      [] Queued(t)                           -> "queued"
      [] Held(t)                             -> "running"
      [] ~Queued(t) /\ ~Held(t) /\ t \in started ->  "done"
      [] OTHER                               -> "discarded"

Abstract == INSTANCE TaskPool
                WITH Class <- [t \in Tasks |-> QueueOf(t)],
                     backlog <- queue,
                     status <- [t \in Tasks |-> Status(t)]

\* The pool implements TaskPool: one fate per task, strict priority, FIFO
\* within a priority, and nothing starts twice or after being refused.
ImplementsTaskPool == Abstract!Spec

\* The counter Stop(true) polls and checkAndScale reads agrees with the
\* queues up to the updates still to come: submitters that have appended and
\* not counted, workers that have popped and not counted, and the tasks that
\* StopDiscard threw away without ever subtracting them.
CounterAgrees ==
    queueSize + Cardinality({t \in Tasks : tpc[t] \in {"appended", "signalled"}})
        = Total + Cardinality(At("took"))
          + Cardinality({t \in Tasks : Status(t) = "discarded"})

\* The tasks that entered a queue and have not started.
Backlog == {t \in Tasks : tpc[t] \in {"appended", "signalled", "accepted"}} \ started

\* The pool settles: every task that entered a queue starts, and a Stop(false)
\* that came in between returns, whatever the submitters still under way, the
\* workers and the scaling loop do (EnqueueWithPriority, workerLoop, Stop).
PoolSettles ==
    (Backlog # {} \/ state = "Stopping") ~>
        (Backlog = {} /\ state = "Running") \/ state = "Stopped" \/ waitFor

\* Stop(true) returns, after the queued tasks: "wait for all tasks in
\* the queues to complete before stopping" (coroutine_pool.go:641).
StopWaitReturns == (spc = "close" /\ waitFor) ~> (state = "Stopped")
=============================================================================
