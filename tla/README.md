# A verification of tyke-go

TLA+ models of the parts of tyke-go in which goroutines, processes and timers meet, the TLC runs that
check them on small instances, and machine-checked proofs that the safety results hold for instances
of any size. Paths below are relative to the repository (`src/` in `PROJECT.json`); the model was
written from the code, and a sentence about the code gives its file and line.

    tlc  -workers 2 -config CoroutinePool.cfg MCCoroutinePool.tla
    tlapm CoroutinePool_proofs.tla

## 1. The system

tyke-go is a library for requests between processes on one host. A process listens under a UUID on an
abstract Unix socket, and other processes send it requests: synchronous ones that wait for an answer
on the same connection, and asynchronous ones whose answer is itself a message, sent to the server
that the asking process runs.

| component | source | state | operations |
|---|---|---|---|
| coroutine pool | `component/coroutine_pool.go` | `state`, `stopCh`, three queues under `queueMu`, the atomic `queueSize`, worker goroutines, the scaling loop | `InitWithConfig`, `Enqueue*`, `EnqueueOrExecute*`, `workerLoop`, `checkAndScale`, `Stop` |
| timing wheel | `component/timing_wheel.go` | levels with slots and positions, `taskLocation`, `timerTasks` and a goroutine per timer, `stopped`, `stopCh` | `Init`, `AddTask`, `RemoveTask`, `tick`, `AddTaskAt`, `AddRepeatedTask`, `CancelTask`, `Stop` |
| contexts | `component/context.go`, `core/context_factory.go` | the reason of a cancellation, the registered callbacks, the number of the timer; a pool of timer contexts | `ContextWithDeadline`, `RegisterCallback`, `UnregisterCallback`, `ActivateTimer`, `Cancel`, `Wait`, `ReleaseTimerContext` |
| object pools | `component/object_pool.go`, `core/request.go`, `core/response.go` | a stack of objects | `Acquire`, `Release` |
| connection pool | `ipc/connection_pool.go` | `idle`, `active`, the channel `available`, `stopped` | `Acquire`, `Release`, the cleanup loop, `Stop` |
| connection pool factory | `ipc/connection_pool_factory.go` | a map with one pool per server, replaced by `Shutdown` | `GetPool`, `RemovePool`, `Shutdown` |
| transport | `ipc/ipc_frame.go`, `ipc/ipc_platform_linux.go`, `ipc/ipc_client.go`, `ipc/ipc_server.go` | the accept loop, `clients`, receive buffers and reassembly on both sides | `Connect`, `Write`, `ReadLoop`, `Start`, `handleClient`, `SendToClient`, `Stop` |
| asynchronous call | `core/request.go`, `core/request_stub.go`, `core/response_future.go` | the stub tables, a channel per future | `SendAsyncWithFunc`, `SendAsyncWithFuture`, `RequestStubExecFunc`, `RequestStubSetFuture`, the expiry callbacks, `GetResponse` |
| request handler | `core/data_handler.go`, `core/response.go` | a response per request: `isSend`, its client and handler | `DataCallback`, `RequestHandler`, `RequestHandlerAsync`, `Send`, `SendAsync` |
| dispatcher, routers | `core/dispatcher.go`, `core/router_*.go` | route tables, fixed after start | table lookup, a chain of filters |
| framework | `core/framework.go` | the order of start and shutdown, the number of the periodic stub scan | `Start`, `Shutdown` |
| encoding, logging, accessors | `core/data_proc.go`, `core/log.go`, `common/` | none that others depend on | |

How they interact. The server's `handleClient` hands each message to the coroutine pool, whose worker
runs `DataCallback`. A request gets a `Response` from the object pool and a `TimerContext` whose timer
runs in a goroutine of the wheel; the handler and the timer's callback share the response. An
asynchronous call puts an entry into a stub table and a task into the wheel; the reply (a worker), the
wheel's tick and the stub scan (a goroutine of its own) compete for the entry, and two of the three
need `tw.mu`. Every send takes a connection from a pool that a cleanup loop and `Stop` edit as well.

Where it is hard:

- **interleavings** of submitters, workers, the scaling loop and `Stop` around checks made outside
  the lock (`coroutine_pool.go:454`), a signal after the unlock (`:485`), dialling outside the lock
  (`connection_pool.go:103`);
- **lifetimes**: pooled objects that a callback, a future or a late timer still refers to
  (`data_handler.go:81`, `:136`; `request_stub.go:103`);
- **timeouts racing answers**: the stub entry (`request_stub.go:91`), the `isSend` flag
  (`response.go:156`), a read deadline and the answer that comes after it (`ipc_platform_linux.go:98`);
- **locks and callbacks**: user code runs under `tw.mu` (`timing_wheel.go:508`);
- **look-ups without a lock**: `GetPool` and `RemovePool` against `Shutdown` (`connection_pool_factory.go:73`);
- **stopping and starting again**: every component has a `Stop` that meets operations under way, and most
  can be started a second time while goroutines of the first life are still there
  (`ipc_platform_linux.go:207`, `framework.go:103`).

What correctness means for each component is listed with its module in section 3; the hazards, each at
its line and with the properties that watch it, are in `PROJECT.json`.

## 2. Plan

The order follows the path of a message, the shared machinery first. Done:

1. `TaskPool`, `CoroutinePool` and its proofs: everything else runs on this pool.
2. `ConnectionPool` and its proofs.
3. `AsyncCall` and its proofs: the composition of the callers, the stub tables, the wheel's lock, the
   stub scan, the pool workers, the response pool and the futures; callbacks that make calls.
4. `RequestHandler`: the composition of handlers, contexts, timers and the response pool.
5. `TimingWheel`: what the wheel does with a task between `AddTask` and its callback.
6. `Frames` and `Transport`: what of a message arrives, and what is left open after hang-ups and `Stop`.
7. `TimerTasks` and `Contexts`: timers on goroutines of their own, cancelled, stopped and started again;
   pooled contexts that such timers cancel.
8. `ConnectionPoolFactory` and its proofs.
9. `IpcServer` and `Framework`: start, shutdown and restart of pool, wheel and server together.

10. Proofs of the rest: `RequestHandler`; `TimerTasks` with `Contexts`, and `TimingWheel`; `Framework` with
    `IpcServer`; `Transport`; that `CoroutinePool` implements `TaskPool`; why `AsyncCall` drops a reply.

Nothing of safety is left: every safety property of a passing run is also a theorem. Liveness stays with TLC.

Abstract specifications: `TaskPool` is what the coroutine pool promises. Two more were considered and
left: a call that is resolved once (`AtMostOnce` with `EventuallyResolved` says the same in two lines)
and a connection as a pair of message queues (`ReceivedAsWritten` says it of the detailed state).

## 3. Modules

An action is what one goroutine does between two points at which another can act: an atomic
operation, a channel operation or a critical section. Variables have the names of the fields they
model, and a `pc` says where each goroutine is. Ghost variables are marked in the modules and no guard
reads them. Definitions called "faulty variants" are not part of any specification; each shows that a
property fails when one action is wrong.

### CoroutinePool, TaskPool

One submitting goroutine per task (`tpc`), workers (`wpc`), the caller of `Stop` (`spc`), the scaling
loop (`scaler`). The actions of a submission are those of `EnqueueWithPriority`: the test of the state
outside the lock, the append under it, `Signal`, and the counter, in this order. A worker's are those
of `workerLoop`. `InitPool` is one action, because nothing can be submitted before it has set the
state, and workers started one by one differ from workers started together only in when each first
runs. Callers of `Stop` other than the one that wins the compare-and-swap return at once and are left
out. Whether the cooldown of the scaling loop has passed is a free choice.

`TaskPool` says what the pool promises: a task has one fate (refused, run by its caller, started once,
or discarded by `Stop`), the highest priority goes first, and each priority in order of submission.
`ImplementsTaskPool` is the refinement, with the fate computed from the pool's variables.

### ConnectionPool

Callers (`pc`, `held`), the cleanup loop and `Stop`. A caller's use of its connection and `Release`
are one action, in which the use may have failed or not; a peer may close a connection at any time,
which `IsValid` does not see: it looks at this side only (`ipc_platform_linux.go:160`). Durations are
abstracted: what `cleanupIdleConnections` finds expired is any prefix of the idle list that it may
remove. `Acquire`'s wait ends with a token, a stop or its timeout.

### AsyncCall

A call stands for its message UUID. It is sent, registered and added to the wheel in the order of
`SendAsyncWithFunc` and `SendAsyncWithFuture`; replies go to workers; `TickLock`, `TickExpire`,
`TickUnlock` are the tick, which holds `tw.mu` across the callbacks; `ScanCollect`, `ScanExpire` the
periodic scan. An entry may expire at any moment after its registration. A callback that runs on a
worker or on the scan may make a call of its own (`CallbackSends`); one that the tick runs then waits for
the lock the tick holds (`TickBlocked`), for ever. A reply that finds no entry is `dropped`. Acquiring a response and
decoding into it are one action: nobody else refers to the object yet. `NewObject` takes any object
that nothing refers to, as an allocation does. `Reentrant` says whether callbacks may make calls,
`ConsumersRelease` whether the consumer of a future returns the response.

### RequestHandler

A worker runs `RequestHandler` or `RequestHandlerAsync` (`sync` says which requests are which); the
goroutine that `AddTaskAt` starts for the deadline bears the request's name. `Swap`, `Guard`,
`Transmit` are the steps of `Send` and `SendAsync`; a handler may return, send by itself or panic; a
transmission may fail; the wheel may be stopped. Filling a response and acquiring it are one action,
as are encoding and transmitting. Left out: the bound of the response pool, and values of contexts.

### TimingWheel

Levels, slots, entries with the time they have left, `taskLocation`, and the ticker. A slot is a set:
its order only orders the callbacks of one tick. `tick` advances level by level under `tw.mu`
(`TickLevel`); tasks may be added with any of `Timeouts`, removed, cascaded or expired, and the wheel
stopped and started again at any moment. A UUID is added once, as the UUIDs of requests are. Left out:
the wrap of the 32-bit arithmetic when a timeout close to 2^32 ms is rounded up. `AddTask` that passed
its look at `stopped` before `Stop` dropped the levels panics (`AddTaskPanics`): `selectLevel` yields -1.

### TimerTasks

The timers of `AddTaskAt` and `AddRepeatedTask`: a key in `timerTasks` and a goroutine each (`tpc`). The
look at `stopped`, the entry under `tw.mu`, the goroutine's `select`, its look for the entry and the call
of the callback are separate steps, so `CancelTask`, `Stop` and a second `Init` may come between any two.
The goroutine reads `tw.stopCh` when it comes to its `select`, and a second `Init` makes a new channel:
channels are numbered, and `watch` is the one a goroutine looks at. Durations are abstracted, a timer may
fire at any moment. The module has no `Next` of its own: `Contexts` and `Framework` extend it.

### Contexts

Users take a `TimerContext` from the pool or make one, register a callback, activate the timer, may
cancel, and release the context; each has a timer of the wheel (`TimerTasks`), and some have a goroutine
that waits. `CancelContext` is `CancelContext.Cancel` with what it does to waiters and callbacks, called
by the user or by the timer, whose closure keeps the object: `obj` of a user stays after the release.
`escaped` and `by` record, for the property only, which timers were past their check when their context
was released and whose code cancelled an object. An object that left the pool uncleaned is not assumed
clean. A parent is looked at once, when a context is made, and is not linked afterwards, so contexts have
none here.

### ConnectionPoolFactory

Callers run `GetPool` (look without the lock, lock, look again, make, store), `RemovePool` (take out, then
stop, never locked) and `Shutdown` (lock, stop each pool, assign a new map). The assignment races the
look-ups, which the Go memory model leaves undefined; the model lets a look-up that overlaps it hit or
miss. A pool is a name and whether it runs; its inside is `ConnectionPool`.

### IpcServer, Framework

`IpcServer` is the server that may be started again: listeners and accept loops are numbered by the
`Start` that made them, ids come from the counter of a loop, and `closeClient` closes whatever connection
has the id by then. A handler's failed read and its `closeClient` are one step, since a handler that has
failed and not closed differs from one that has not failed yet in nothing another can see; so are a
loop's look at `running` and the step before it. What travels on a connection is left to `Transport`.

`Framework` composes `TimerTasks` and `IpcServer` with the state of the coroutine pool and the messages
in it: `Start` and `Shutdown` by one goroutine, step by step in the order of `framework.go`, again and
again. The stub scan is a repeated timer. `Stop(true)` waits for queues and workers (`ShutdownReturns`);
a worker may still take a message while the pool stops, or may not (`WorkerTakes`).

### Frames, Transport

Bytes are grouped into cells: the five bytes of a frame header, the eight of a fragment header, and
the positions of a message. `Frames` is pure: `FramesOf` is what `Write` and `SendToClient` put on the
wire, `TakeFrame` one turn of the loop that `processFrames` and `ReadLoop` run over their buffers.
`Transport` has, per connection, the caller that makes its calls one after the other, the two streams,
and the server's goroutine; and the accept loop, the pool's handlers, and `Stop`. A read returns any
prefix of what has arrived, a failing write has sent any prefix of its frame, and any read or write of
a caller may run into its deadline. A handler answers a synchronous request once (what `RequestHandler`
is about) and the pool may drop a message, since nobody looks at what `Enqueue` returned. The key of
`s.clients` is the connection itself: ids are distinct within one run of the server. The server is
started once; `IpcServer` starts it again.

## 4. Runs

All pass except those marked V, in which TLC must find the violation that a finding in `PROJECT.json`
describes. States are distinct states; times are for two workers.

| run | instance | checks | states |
|---|---|---|---|
| `pool_tasks` | 2 workers of which the scaling loop may start one, backlog 2, 3 tasks: one high, one with a priority out of range, one that its caller runs when refused | `CapacityRespected`, `WakeupPerTask`, `QuietWhenStopped`, `CounterAgrees`, `ImplementsTaskPool`, `PoolSettles` | 531 024 |
| `pool_drain` V | 2 of these tasks, backlog 1 | `StopWaitReturns` | |
| `connections` | 4 callers, 2 slots, 3 connection objects, 1 connection kept idle | `CapacityBound`, `Exclusive`, `NoLeak`, `LastReleaseWakes`, `StopClosesAll` | 128 299 |
| `async_calls` | a callback and a future call, 1 worker, tick and scan, 1 reply per call, callbacks that may make calls | `AtMostOnce`, `ChannelHasRoom`, `EventuallyResolved`, `SendReturns`, `DroppedForAReason` | 157 518 |
| `async_owner` V | two callback calls | `CallbackOwnsResponse` | |
| `requests` | 2 workers, 2 requests of either kind, 2 response objects | types, `OneHolder`, `AnsweredOnce`, `StrayAnswersAreLate`, `CancelReasonFinal` | 413 007 |
| `requests_own` V | the same | `AnswersOwnClient` | |
| `wheel` | 2 tasks, three levels of 2 slots with ticks 2, 3 and 6, timeouts 0, 3, 6 and 24 | `NothingLost`, `LatenessBounded`, `FinalMeansFinal`, `TasksEnd` | 779 000 |
| `transport` | 2 connections: one makes a short synchronous call whose answer may be too long, a fragmented one, and an asynchronous one that is too long; the other is only dialled | types, `ReceivedAsWritten`, `AnswerBelongsToCall`, `OneMayOutliveStop`, `HungUpIsReleased` | 173 338 |
| `contexts` | 2 users, one of which has a goroutine that waits, 2 context objects, a wheel that is initialised and stopped at most once | `CancelIsFinal`, `StrayCancelIsLate`, `WaiterReturns` | 909 222 |
| `factory` | 3 callers, 2 servers, 5 pool objects, used again when nobody refers to them | `OpenIsKept`, `StaleOnlyInShutdown` | 32 712 |
| `lifecycle` | 2 calls of `Start`, any of `Shutdown`, 2 connections, one of which sends messages | `UpHasScan`, `NoCrossedAnswer`, `ForeignCloseNeedsOverlap`, `ShutdownSettles`, `StopIsFinal` | 759 757 |

Each property of a passing run has a mutant in `PROJECT.json`: a definition of the model replaced by a
plausible mistake, for which the run fails.

What they show.

- **The pool** loses no wakeup although `Signal` comes after the unlock, never holds more than its
  bound although three queues are counted while workers pop, and after `Stop` no worker holds a task,
  although the scaling loop may still start workers. The counter that `Stop(true)` polls is off by
  exactly the updates still to come and the tasks thrown away.
- **Connections** have one owner, none is lost, and after `Stop` all end up closed, those being
  dialled when it came included. `LastReleaseWakes` is what the single token of `available` gives:
  a waiter is not stranded when nobody is left to wake it. It does not give more: two releases may
  leave one token, and then a second waiter sleeps beside a free slot until the next release or its
  timeout.
- **A call** is resolved once whichever of reply, tick and scan gets there, and it is resolved by the
  scan even where the wheel's task is added too late to fire or removed under a wrong key. There are two
  ways to lose something. A reply that overtakes the registration of its own call, which comes after the
  send (`request.go:183`), is dropped, and the callback gets a timeout (`DroppedForAReason`). And a
  callback that makes an asynchronous call blocks for ever when it is the tick that runs it, since
  `AddTask` needs the `tw.mu` that the tick holds (`timing_wheel.go:508`); `SendReturns` and
  `EventuallyResolved` hold except for this.
- **A request** is answered once by its own handler unless its timer took the callback in between, and
  only then can an answer go astray.
- **A task of the wheel** is never lost and never fires after its removal. How late it can be is
  `LatenessBounded`: the slots of an upper level last as long as a full turn of the levels below, not
  as long as the level's `tickIntervalMs`. With the default configuration level 1 moves every 10 s
  although the comment says 1 s (`timing_wheel.go:17`). A timeout of 0 waits a full turn of level 0.
- **A timer** that `CancelTask` has taken out never calls back, and a repeated one at most once more. After
  `Stop` no timer gets to its callback but one whose `AddTaskAt` was already past its look at `stopped`:
  it enters an emptied table, finds the old channel closed or a new one open, and may fire.
- **A context** given back with `ReleaseTimerContext` can still be cancelled by the timer of its last user,
  but only when that timer was past its check at the release, or was made for a deadline that had passed
  and so has no number to cancel it by (`StrayCancelIsLate`): the next user's context then ends early.
  Waiters return (`WaiterReturns`); but one that is woken and comes to run only after the release finds
  the reason gone and waits for the next user's cancellation.
- **The factory** loses no running pool, and hands out a stopped one only while a `Shutdown` sweeps.
- **Start and Shutdown** leave nothing behind, the scans of failed starts included, whose number is
  overwritten but which end when the wheel stops. Ids of connections repeat after a restart, and a slow
  handler of the earlier life may close a connection of the next one (`ForeignCloseNeedsOverlap` says that
  this is the only way); an answer never goes astray so, because the pool never runs again: after
  `Shutdown` a second `Start` succeeds and all messages are refused. Nothing in the repository promises
  that a framework can be started again.
- **The transport** delivers what was written, whole and in order, however reads and writes are cut
  up, and an answer reaches its own call because a connection on which one is outstanding is closed
  and never reused: nothing else compares answer and call. After `Stop` at most one connection stays
  open, the one the accept loop held at that moment: it enters the map after the sweep, its handler
  leaves by the loop condition, and nobody closes it, although the documentation says that all are
  (`ipc_server.go:34`).

### Findings

1. `pool_drain`: `Stop(true)` closes `stopCh` before it waits for the queues to drain; the workers
   leave, and with a task in a queue it waits for ever. `Framework.Shutdown` calls it.
2. `async_owner`: on the callback path a response is released twice (`request_stub.go:103`,
   `data_handler.go:81`), so that it can be in two hands.
3. `requests_own`: a timeout callback that has been taken out of its context outlives the handler, and
   may answer the client of the next request that got the same response object.

Seen on the way, without a run of their own:

- what `async_calls` and `lifecycle` show of early replies, re-entrant callbacks and restarts (above);
- `AddTask` that has passed its look at `stopped` when `Stop` empties the levels panics (`AddTaskPanics`);
- a callback registered after the cancellation is never run (`context.go`, `RegisterCallback`);
- `ContextWithTimeout` and `ContextWithDeadline` do not arm their timer; `ActivateTimer` does;
- `EmptyContext.Wait` returns at once, so `Done` of a `StdContext` over the background context closes;
- the server's `Stop` may leave the connection that is being accepted open (`OneMayOutliveStop`), although
  `ipc_server.go:34` says that all are closed.

### Bounds

Two workers, two or three tasks and a backlog of one or two are enough for a submission to find the
pool full, for two waiters and a lost signal, for tasks of different priority to be queued together
and for a worker to be started after `Stop`. Four callers on two slots give two owners and two waiters
at once; three objects, one that is dialled while two are owned. One reply per call is a bound of the
`async_calls` run only; that a call is resolved once is proved for any number. Two requests and two
objects let a released object be taken by the other request while the first one's timer still has it;
requests and workers are interchangeable, and no property of the run is temporal except an action
property that treats all alike, so the symmetry is sound. Three levels of the wheel are two cascades;
the timeouts are one within each level, one at a boundary, 0, and one beyond the last level; `MaxLate`
only bounds how far an overdue entry's age is told apart and exceeds what `LatenessBounded` allows.
In `transport` a chunk is two cells, so that a message of three has a full and a partial fragment and
one of four exceeds the limit; the second connection is there for `Stop`. In `contexts` two users are one
object in two hands one after the other, which is all that a late timer needs; repeated timers have no
part in contexts and are checked in `lifecycle`, as is the second `Init`. In `factory` three callers are a
`GetPool`, a `RemovePool` and a `Shutdown` at once; five objects are one per server and one per caller,
and the objects are used again, so any number of pools is made; callers, servers and objects are
interchangeable, and the two properties treat all alike. In `lifecycle` two starts are a restart after a
shutdown as well as a start of what is running; two connections are one of each life, or two of one.

Deadlock is checked for the connection pool, whose cleanup and callers never end, for the factory and
for the framework, whose `Shutdown` can always be called or is under way with something left to do. The others may
stop for good: a stopped pool, calls that are all resolved, requests that are all handled, a stopped
wheel, a stopped server.

### Fairness

Nobody has to submit, call, dial, answer, stop or start.

- Pool: a started goroutine keeps running and task functions return; `Stop` proceeds.
- Connection pool: `Dial`, `Write` and `ReadLoop` carry deadlines, so whoever has a slot gives it back
  or fails; the cleanup loop sees a closed `stopCh`. None is assumed of the token.
- Asynchronous call: goroutines run and callbacks return. `tw.mu` is a Go mutex, which hands itself to
  a starving waiter, so those who wait for it get it between two ticks: one strong fairness for all,
  since each takes it a bounded number of times. The tick itself is not assumed to come; the scan is,
  because it is a repeated task of its own goroutine.
- Contexts: the goroutines of a user's timer and waiter run, a timer that is armed fires, and
  `ActivateTimer` ends; nobody has to make, cancel or release a context.
- Framework: a `Shutdown` that has begun goes on, the goroutines of the server, of the workers that hold
  a message and of the scans run, and the tick loop comes back to its `select`. That a worker takes a message while
  the pool stops is not assumed: `ShutdownSettles` leaves out the wait of `pool_drain`.
- Wheel: ticks come, punctually (`PassTime` does not pass a tick that is due), and `Stop` ends.
- Transport: the server's goroutines run, and their reads have a deadline of 30 s
  (`ipc_platform_linux.go:22`).

## 5. Proofs

Each of the eight modules named `_proofs` belongs to the component in its name; `Timers_proofs` is about
`TimerTasks` with `Contexts` and about `TimingWheel`, and `Framework_proofs` covers `IpcServer`. TLAPS
checks them. They assume what the named `ASSUME`s of the modules say of the constants, which TLC evaluates
in the runs, and nothing else. Most of it is that names differ and sets are finite. Two need a word: in
`Contexts` and `RequestHandler` there are at least as many objects as users or workers, because an allocation
never fails to yield an object nobody has; and `TimingWheel` wants at least one level, with positive tick
intervals and slot counts, as `DefaultTimingWheelConfig` has them (`Init` does not look: another
configuration would divide by zero in `calculateSlot`).

| theorem | says | argument |
|---|---|---|
| `CoroutinePool_proofs!TypeCorrect` | `Spec => []TypeOK` | with `QuietWhenIdle`: worker identities are free before `InitPool` |
| `BacklogBounded` | `[]CapacityRespected` | inductive given the types: the one append is in the critical section that tests the sum |
| `StoppedIsQuiet` | `[]QuietWhenStopped` | `StopInv`: where `Stop` is determines `state` and `stopCh`, and a worker started after the join cannot pass the top of its loop |
| `NoLostWakeup` | `[]WakeupPerTask` | inductive: an append adds a task and a submitter about to signal, `Signal` turns a submitter into a woken worker, and a woken worker takes a task or finds none |
| `PoolImplementsTaskPool` | `ImplementsTaskPool` | `TasksInv`: a task is in one place, with its submitter, at one position of one queue or with one worker, and never comes back; so each step changes the fate of one task as `TaskPool` allows (`StopDiscard`: of all queued ones), or of none |
| `CounterHolds` | `[]CounterAgrees` | by `TasksInv` the queues are as long as the set of their tasks; each step moves one task from one side of the sum to the other |
| `ConnectionPool_proofs!TypeCorrect` | `[]TypeOK` | inductive |
| `CounterExact` | `[]ActiveAgrees` | each step into or out of the slots moves `active` by one, locked or not |
| `ConnectionsBounded` | `[]CapacityBound` | the slot is reserved before dialling, so a new connection is already counted |
| `WaiterNotStranded` | `[]LastReleaseWakes` | from `ActiveAgrees`: whoever lowers `active` to 0 leaves a token or is awake |
| `OneOwner`, `NothingLost` | `[]Exclusive`, `[]NoLeak` | together, as `Owned`: a new connection has no owner because it was closed, and a closed one has none because an owner's is open |
| `StopLeavesNothingIdle` | `[]NothingIdleAfterStop` | the list stays empty once `stopped` and drained |
| `AsyncCall_proofs!TypeCorrect` | `[]TypeOK` | with `HoldersOK`: who needs a response has one |
| `ResolvedAtMostOnce` | `[]AtMostOnce` | `OnceInv` for each call: unregistered or registered it has no resolver; taking the entry makes one goroutine the only one |
| `FutureHasRoom` | `[]ChannelHasRoom` | from `OnceInv`: what is in a channel came from the one resolution |
| `DroppedHolds` | `DroppedForAReason` | `ReasonInv`: a registered call has its entry, a resolver, or was resolved; a filled-in response is of a call that went out, and has its type unless the call was taken out to expire |
| `ConnectionPoolFactory_proofs!TypeCorrect` | `[]FactoryTypeOK` | inductive |
| `NoPoolLost` | `[]OpenIsKept` | with `LockHeld`, `OnTheWay` and `Swept`: what a store overwrites is no pool, since stores are under the lock, and the map that is thrown away holds no running pool |
| `NoStalePool` | `StaleOnlyInShutdown` | with `Filed` and `InHand`: the map has a pool once, under its server, so what a `RemovePool` stops is no longer in it, and outside a sweep all in it run |
| `RequestHandler_proofs!TypeCorrect` | `[]TypeOK` | with `Places`: which steps a worker and a timer goroutine can be at, and what each needs there |
| `OneHolderHolds` | `[]OneHolder` | `Holding`: the response a handler holds was filled in for its own request, which is nobody else's |
| `AnsweredOnceHolds` | `[]AnsweredOnce` | `Answering`: as long as no timer took a callback, a handler that has not sent still can (its context lives with the callback registered, or `isSend` is set), and `isSend` stays set until the release |
| `StrayAnswersHolds` | `[]StrayAnswersAreLate` | `Straying`: a timer goroutine sends only after it took the callback, and a handler sends where its own response points |
| `CancelReasonHolds` | `CancelReasonFinal` | each step writes a reason only where there is none |
| `Timers_proofs!TypeCorrect` | `[]TypeOK` of `Contexts` | `IInv`: `Owned` (an object is in the pool or with one user), `TimersInv`, and `Linked`, how far a user is and how far its timer |
| `CancelIsFinalHolds` | `[]CancelIsFinal` | `TimersInv`: for each timer what `CancelTask` and its goroutine have left to do; one that was taken out is past its check only if it is repeated, and then calls once more at most |
| `StrayCancelHolds` | `[]StrayCancelIsLate` | `Cancelling` (who cancelled an object is its user or an escaped timer) and `Calling` (a callback is with the object of its user, once); `Linked` says that the release finds a timer that it can cancel or that is past its check |
| `WheelTypeCorrect`, `NothingLostHolds`, `FinalHolds` | `[]WheelTypeOK`, `[]NothingLost`, `FinalMeansFinal` | `WheelInv`: a wheel that is off has no entries, and what has an entry was added; `Processed` says what a tick leaves of the slot it took |
| `LatenessHolds` | `[]LatenessBounded` | `OnTime`: give each level the time since it last moved, what is pending below counting as a whole period; then the time until the tick comes to an entry, minus what the entry has left, only shrinks after it was filed, and at the filing it is `LongestWait(t) - t` at most |
| `Framework_proofs!TypeCorrect` | `[]TypeOK` | the timers', the server's and the framework's types together |
| `StopIsFinalHolds` | `StopIsFinal` | `WheelInv`: a closed channel is of an earlier life or of the `Stop` under way, and after it the table holds only what was entered late |
| `UpHasScanHolds` | `[]UpHasScan` | `ScanInv`: from its start to the next `Shutdown` the scan keeps its entry and watches the channel of the wheel that runs |
| `ForeignCloseHolds` | `[]ForeignCloseNeedsOverlap` | `ApartInv`: while no `Start` found goroutines of an earlier life, one loop is active, its counter is past every id in use, and each handler's id is its own or free |
| `NoCrossedAnswerHolds` | `[]NoCrossedAnswer` | `PoolInv`: the pool runs in the first life of the server only, in which ids are distinct, and holds nothing outside it |
| `Transport_proofs!TypeCorrect` | `[]TypeOK` | inductive |
| `OneMayOutliveStopHolds` | `[]OneMayOutliveStop` | `StopInv`: an open connection is in the kernel's queue, with `acceptLoop`, in the map, or about to be closed; after `Stop` the first is empty and the map has at most what the accept loop held |
| `ReceivedHolds` | `[]ReceivedAsWritten` | `StreamInv`: while a handler reads, buffer and wire together lead from the frame it expects to the one its caller writes next; a turn of `processFrames` moves the former to the next place |
| `AnswerHolds` | `[]AnswerBelongsToCall` | `AnswerInv`: on a connection in use the server is not ahead of the caller, each synchronous call that ended was answered and read to its last cell, and so what is on the wire is of the answer to the present call |

So every safety property that a passing run checks holds for every value of the constants, the refinement
of `TaskPool` included, and only liveness is checked by TLC alone: `PoolSettles`, `StopClosesAll`,
`HungUpIsReleased`, `EventuallyResolved`, `SendReturns`, `TasksEnd`, `WaiterReturns`, `ShutdownSettles`.
TLAPS does not reason about fairness. Where a type invariant is no property of a run it was only cheaper to
prove than to check again.

The bounds of a run are not bounds of a theorem: `ReceivedHolds` and `AnswerHolds` are for messages and chunks of
any length and any number of connections and calls, `LatenessHolds` for any number of levels, slots and tasks. The
library's induction theorems take an operator as a parameter, which the installed provers cannot
instantiate; what needs an induction over levels, fragments or positions goes by the least counterexample
instead (`UpTo`, from `WFMin`): the set of what is wrong, were it not empty, would have a least member.
`FramesOf` and `TakeFrame` are not recursive, and `FlattenSeq`, which joins what `SendToClient` sends, is
described by the place of each frame.

## 6. Not modelled

- Logging, metadata, JSON, accessors and metrics: no other component branches on them.
- The Windows transport, which implements the same interface over named pipes.
- Dispatcher and routers: sequential lookups in tables that do not change after the start; their
  outcome is a free choice of `RequestHandler`.
- `Clear`, `Preload` and the bound of 1024 objects of an object pool; parents and values of contexts and
  the accessors of `StdContext`; context pools, from which no code takes. A parent is consulted once, when
  a context is made, and its later cancellation does not reach the child, so there is nothing between the
  two that could go wrong in time.
- `SendAsync` without a stub and the synchronous `Send` of a request: the first only writes and the second
  holds no state beyond its connection (`ConnectionPool`, `Transport`).
- Setters of the framework, called before `Start`.
- Frames that no peer using this library sends. The code that refuses them is part of `TakeFrame`.
- The Go memory model: fields that are shared without a lock are atomics, or are modelled as read and
  written one operation at a time.
