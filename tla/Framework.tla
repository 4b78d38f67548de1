------------------------------ MODULE Framework ------------------------------
(***************************************************************************)
(* Start and Shutdown of core/framework.go over the parts they start and   *)
(* stop: the coroutine pool (its state, and the messages in it), the       *)
(* timing wheel with the stub scan as a repeated timer (TimerTasks), and   *)
(* the server (IpcServer).  One goroutine calls Start and Shutdown, in any *)
(* order and again and again.                                              *)
(*                                                                         *)
(* The scans are added in the order of their numbers, as the identifiers   *)
(* of the wheel are.  The log is left out.                                 *)
(***************************************************************************)
EXTENDS TimerTasks, IpcServer

CONSTANTS
    Talkers,  \* the connections on which messages arrive
    MaxCalls  \* bound: how often Start is called

ASSUME FrameworkAssumption ==
    /\ MaxCalls \in Nat
    /\ Timers = 1..MaxCalls
    /\ Repeated = Timers
    /\ Talkers \subseteq Conns

InvalidTimerId == 0

VARIABLES
    fpc,             \* where the goroutine that starts and shuts down is
    calls,           \* how often it has called Start
    cleanupTimerId,
    up,              \* the last call was a Start that succeeded
    poolState,
    queued,          \* the connections with a message in the pool's queues
    handled,         \* those with a message a worker is handling
    misdelivered     \* ghost: an answer has gone to the connection of another

poolVars == <<poolState, queued, handled, misdelivered>>
frameworkVars == <<fpc, calls, cleanupTimerId, up>>
vars == <<timerVars, serverVars, poolVars, frameworkVars>>

Init ==
    /\ InitTimers
    /\ InitServer
    /\ fpc = "idle"
    /\ calls = 0
    /\ cleanupTimerId = InvalidTimerId
    /\ up = FALSE
    /\ poolState = "Idle"
    /\ queued = {}
    /\ handled = {}
    /\ misdelivered = FALSE

Then(there) == fpc' = there

-----------------------------------------------------------------------------
(* A faulty variant of an action, used only to show that a property can    *)
(* fail.  The specification does not use it.                               *)

StartPoolAgain ==
    /\ fpc = "idle"
    /\ calls < MaxCalls
    /\ calls' = calls + 1
    /\ up' = FALSE
    /\ poolState' = IF poolState \in {"Idle", "Stopped"} THEN "Running" ELSE poolState
    /\ Then("wheel")
    /\ UNCHANGED <<timerVars, serverVars, queued, handled, misdelivered, cleanupTimerId>>

-----------------------------------------------------------------------------
\* Start: the pool, which runs only when it has never run before, ...
StartPool ==
    /\ fpc = "idle"
    /\ calls < MaxCalls
    /\ calls' = calls + 1
    /\ up' = FALSE
    /\ poolState' = IF poolState = "Idle" THEN "Running" ELSE poolState
    /\ Then("wheel")
    /\ UNCHANGED <<timerVars, serverVars, queued, handled, misdelivered, cleanupTimerId>>

\* ... the wheel, which may be running, ...
StartWheel ==
    /\ fpc = "wheel"
    /\ IF initialized THEN UNCHANGED timerVars ELSE InitWheel
    /\ Then("check")
    /\ UNCHANGED <<serverVars, poolVars, calls, cleanupTimerId, up>>

\* ... the scan, whose number replaces that of an earlier one, ...
StartCheck ==
    /\ fpc = "check"
    /\ AddCheck(calls)
    /\ IF stopped
       THEN cleanupTimerId' = InvalidTimerId /\ Then("serve")
       ELSE UNCHANGED cleanupTimerId /\ Then("scan")
    /\ UNCHANGED <<serverVars, poolVars, calls, up>>

StartScan ==
    /\ fpc = "scan"
    /\ AddEnter(calls)
    /\ cleanupTimerId' = calls
    /\ Then("serve")
    /\ UNCHANGED <<serverVars, poolVars, calls, up>>

\* ... and the server.  When it runs already, or cannot listen, Start reports an
\* error and leaves what it has started as it is.
StartServer ==
    /\ fpc = "serve"
    /\ ~running
    /\ ServerStarts
    /\ up' = TRUE
    /\ Then("idle")
    /\ UNCHANGED <<timerVars, poolVars, calls, cleanupTimerId>>

StartFails ==
    /\ fpc = "serve"
    /\ Then("idle")
    /\ UNCHANGED <<timerVars, serverVars, poolVars, calls, cleanupTimerId, up>>

-----------------------------------------------------------------------------
\* Shutdown cancels the scan it knows of, ...
ShutdownScan ==
    /\ fpc = "idle"
    /\ up' = FALSE
    /\ IF cleanupTimerId = InvalidTimerId THEN UNCHANGED timerVars ELSE CancelTask(cleanupTimerId)
    /\ cleanupTimerId' = InvalidTimerId
    /\ Then("stopServer")
    /\ UNCHANGED <<serverVars, poolVars, calls>>

\* ... stops the server if it runs, ...
ShutdownServer ==
    /\ fpc = "stopServer"
    /\ IF running
       THEN StopListens /\ Then("sweep")
       ELSE UNCHANGED serverVars /\ Then("stopWheel")
    /\ UNCHANGED <<timerVars, poolVars, calls, cleanupTimerId, up>>

ShutdownSweeps ==
    /\ fpc = "sweep"
    /\ StopSweeps
    /\ Then("stopWheel")
    /\ UNCHANGED <<timerVars, poolVars, calls, cleanupTimerId, up>>

\* ... the wheel, ...
ShutdownWheel ==
    /\ fpc = "stopWheel"
    /\ IF initialized /\ ~stopped
       THEN StopWheel /\ Then("wheelStops")
       ELSE UNCHANGED timerVars /\ Then("stopPool")
    /\ UNCHANGED <<serverVars, poolVars, calls, cleanupTimerId, up>>

ShutdownWheelStops ==
    /\ fpc = "wheelStops"
    /\ \/ StopCloses /\ UNCHANGED fpc
       \/ StopClears /\ Then("stopPool")
    /\ UNCHANGED <<serverVars, poolVars, calls, cleanupTimerId, up>>

\* ... and the pool, for good, with Stop(true).
ShutdownPool ==
    /\ fpc = "stopPool"
    /\ IF poolState = "Running"
       THEN poolState' = "Stopping" /\ Then("drain")
       ELSE UNCHANGED poolState /\ Then("idle")
    /\ UNCHANGED <<timerVars, serverVars, queued, handled, misdelivered, calls, cleanupTimerId, up>>

\* It waits for the queues, which no worker has to empty, and for the workers.
ShutdownReturns ==
    /\ fpc = "drain"
    /\ queued = {}
    /\ handled = {}
    /\ poolState' = "Stopped"
    /\ Then("idle")
    /\ UNCHANGED <<timerVars, serverVars, queued, handled, misdelivered, calls, cleanupTimerId, up>>

-----------------------------------------------------------------------------
\* A handler that has read a message, and looks at running next, enqueues it; what
\* the pool does not take is lost.  One message of a connection at a time.
MessageArrives(c) ==
    /\ HandlerReads(c)
    /\ queued' = IF c \in Talkers /\ poolState = "Running" /\ c \notin handled
               THEN queued \union {c}
               ELSE queued
    /\ UNCHANGED <<timerVars, frameworkVars, poolState, handled, misdelivered>>

\* A worker takes it; while the pool stops, one that saw the channel open before.
WorkerTakes(c) ==
    /\ c \in queued
    /\ poolState \in {"Running", "Stopping"}
    /\ queued' = queued \ {c}
    /\ handled' = handled \union {c}
    /\ UNCHANGED <<timerVars, serverVars, frameworkVars, poolState, misdelivered>>

\* SendToClient, to the connection that has the id now.
WorkerAnswers(c) ==
    /\ c \in handled
    /\ handled' = handled \ {c}
    /\ misdelivered' = (misdelivered \/ clients[cid[c]] \notin {c, NoConn})
    /\ UNCHANGED <<timerVars, serverVars, frameworkVars, poolState, queued>>

\* The rest of the handler and the accept loop.
ServerStep ==
    /\ \/ \E n \in Lives : LoopStep(n)
       \/ \E c \in Conns : HandlerCloses(c)
    /\ UNCHANGED <<timerVars, poolVars, frameworkVars>>

\* A scan, the goroutine of its timer, and the tick loop.
ScanStep(t) ==
    /\ TimerStep(t) \/ CallbackReturns(t)
    /\ UNCHANGED <<serverVars, poolVars, frameworkVars>>

TickStep == TickLoopEnds /\ UNCHANGED <<serverVars, poolVars, frameworkVars>>

Start == StartPool \/ StartWheel \/ StartCheck \/ StartScan \/ StartServer \/ StartFails
Shutdown ==
    \/ ShutdownScan \/ ShutdownServer \/ ShutdownSweeps \/ ShutdownWheel \/ ShutdownWheelStops
    \/ ShutdownPool \/ ShutdownReturns

Next ==
    \/ Start
    \/ Shutdown
    \/ \E c \in Conns : MessageArrives(c) \/ WorkerTakes(c) \/ WorkerAnswers(c)
    \/ ServerStep
    \/ \E t \in Timers : ScanStep(t)
    \/ TickStep

\* The scheduler runs the goroutines that can run, timers fire, and a call of
\* Shutdown that has begun goes on.  Nobody has to call, and that a worker takes a
\* message while the pool stops is luck.
Fairness ==
    /\ WF_vars(fpc # "idle" /\ Shutdown)
    /\ WF_vars(ServerStep \/ \E c \in Conns : WorkerAnswers(c))
    /\ WF_vars(\E t \in Timers : ScanStep(t))
    /\ WF_vars(TickStep)

Spec == Init /\ [][Next]_vars
FairSpec == Spec /\ Fairness

-----------------------------------------------------------------------------
TypeOK ==
    /\ TimersTypeOK
    /\ ServerTypeOK
    /\ fpc \in {"idle", "wheel", "check", "scan", "serve", "stopServer", "sweep", "stopWheel",
                "wheelStops", "stopPool", "drain"}
    /\ calls \in 0..MaxCalls
    /\ cleanupTimerId \in 0..MaxCalls
    /\ up \in BOOLEAN
    /\ poolState \in {"Idle", "Running", "Stopping", "Stopped"}
    /\ queued \subseteq Conns
    /\ handled \subseteq Conns
    /\ misdelivered \in BOOLEAN

\* A framework that has started has a scan that goes on and that Shutdown knows how
\* to cancel, whatever has been started, failed or stopped before (Framework.Start,
\* AddRepeatedTask, TimingWheel.Init and Stop).
UpHasScan ==
    up => /\ cleanupTimerId \in timerTasks
          /\ tpc[cleanupTimerId] \in {"entered", "waiting", "passed", "callback", "returned"}

\* No answer goes to the connection of another client.  Ids come again after a
\* restart, and handlers of the earlier life may still read: what keeps the answers
\* apart is that Shutdown waits for the workers and that the pool never runs again
\* (CoroutinePool.Init and Stop, processFrames, SendToClient).
NoCrossedAnswer == ~misdelivered

\* Shutdown returns unless messages are in the queues when the pool is stopped, and
\* unless Start is called again everything it stops comes to its end: the scans, those
\* too whose number a failed Start has overwritten, the tick loop, the accept loop and
\* the handlers (Shutdown, TimingWheel.Stop, serverImplLinux.Stop).
ShutdownSettles ==
    (fpc = "stopServer") ~>
        \/ fpc = "drain" /\ queued # {}
        \/ fpc = "wheel"
        \/ /\ fpc = "idle"
           /\ \A t \in Timers : tpc[t] \in {"new", "refused", "ended"}
           /\ ~ticking
           /\ ServerQuiet
=============================================================================
