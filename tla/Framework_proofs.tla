--------------------------- MODULE Framework_proofs ---------------------------
(***************************************************************************)
(* Proofs about Framework, for any number of calls, connections and lives  *)
(* of the server and of the wheel: the types; that Stop of the wheel is    *)
(* final; that a framework that is up has its scan; that a handler closes  *)
(* the connection of another only when two lives of the server overlap;    *)
(* and that no answer goes to another client.                              *)
(***************************************************************************)
EXTENDS Framework, TLAPS, FiniteSetTheorems

-----------------------------------------------------------------------------
(* The types of the timers.                                                *)

TimerMove ==
    \/ InitWheel \/ StopWheel \/ StopStep
    \/ \E t \in Timers : AddCheck(t) \/ AddEnter(t) \/ CancelTask(t)
    \/ \E t \in Timers : TimerStep(t) \/ CallbackReturns(t)
    \/ UNCHANGED timerVars

\* There is no timer and no wheel at first.
LEMMA InitTimerTypes == InitTimers => TimersTypeOK
<1>. SUFFICES ASSUME InitTimers PROVE TimersTypeOK
  OBVIOUS
<1>1. 0 \in 0..MaxInits
  BY TimerTasksAssumption
<1>2. watch \in [Timers -> 0..MaxInits] /\ tooLate \in [Timers -> Nat]
  BY <1>1 DEF InitTimers
<1>3. tpc \in [Timers -> {"new", "refused", "checked", "entered", "waiting", "passed",
                          "callback", "returned", "ended"}]
  BY DEF InitTimers
<1>. QED  BY <1>1, <1>2, <1>3 DEF InitTimers, TimersTypeOK

\* A step of the wheel or of a timer keeps the types.
LEMMA TimerMoveTypes == TimersTypeOK /\ TimerMove => TimersTypeOK'
<1>. SUFFICES ASSUME TimersTypeOK, TimerMove PROVE TimersTypeOK'
  OBVIOUS
<1>. USE TimerTasksAssumption DEF TimersTypeOK, lifeVars, timerGhosts, GoTimer
<1>1. CASE InitWheel
  <2>1. stopCh' \in 0..MaxInits
    BY <1>1 DEF InitWheel
  <2>. QED  BY <1>1, <2>1 DEF InitWheel
<1>2. CASE StopWheel \/ StopStep
  BY <1>2 DEF StopWheel, StopStep, StopCloses, TickLoopEnds, StopClears
<1>3. ASSUME NEW t \in Timers, AddCheck(t)
      PROVE  TimersTypeOK'
  BY <1>3 DEF AddCheck
<1>4. ASSUME NEW t \in Timers, AddEnter(t)
      PROVE  TimersTypeOK'
  BY <1>4 DEF AddEnter
<1>5. ASSUME NEW t \in Timers, CancelTask(t)
      PROVE  TimersTypeOK'
  BY <1>5 DEF CancelTask
<1>6. ASSUME NEW t \in Timers, TimerWaits(t) \/ TimerStops(t) \/ CallbackReturns(t)
      PROVE  TimersTypeOK'
  <2>1. 0 \in 0..MaxInits /\ watch' \in [Timers -> 0..MaxInits]
    BY <1>6 DEF TimerWaits, TimerStops, CallbackReturns
  <2>2. tpc' \in [Timers -> {"new", "refused", "checked", "entered", "waiting", "passed",
                             "callback", "returned", "ended"}]
    BY <1>6 DEF TimerWaits, TimerStops, CallbackReturns
  <2>. QED  BY <1>6, <2>1, <2>2 DEF TimerWaits, TimerStops, CallbackReturns
<1>7. ASSUME NEW t \in Timers, TimerFires(t)
      PROVE  TimersTypeOK'
  BY <1>7 DEF TimerFires
<1>8. ASSUME NEW t \in Timers, CallbackBegins(t)
      PROVE  TimersTypeOK'
  <2>1. tooLate' \in [Timers -> Nat]
    BY <1>8 DEF CallbackBegins
  <2>. QED  BY <1>8, <2>1 DEF CallbackBegins
<1>9. CASE UNCHANGED timerVars
  BY <1>9 DEF timerVars
<1>. QED
  BY <1>1, <1>2, <1>3, <1>4, <1>5, <1>6, <1>7, <1>8, <1>9 DEF TimerMove, TimerStep

-----------------------------------------------------------------------------
(* The server.  Beyond their types, its variables are known to fit: the    *)
(* connection a loop has accepted is open, not entered and no other loop's, *)
(* and no loop has given more identifiers than there are connections       *)
(* entered, so that there is always one for the next.                      *)

ServerMove ==
    \/ ServerStarts /\ ~running /\ fpc = "serve"
    \/ StopListens /\ fpc' = "sweep"
    \/ StopSweeps
    \/ (\E n \in Lives : LoopStep(n)) /\ UNCHANGED fpc
    \/ (\E c \in Conns : HandlerReads(c) \/ HandlerCloses(c)) /\ UNCHANGED fpc
    \/ UNCHANGED serverVars /\ (fpc = "sweep" => fpc' = "sweep")

Entered == {c \in Conns : hpc[c] # "none"}
Started == {n \in Lives : loop[n] # "none"}

ServerInv ==
    /\ ServerTypeOK
    /\ \A n \in Lives : counter[n] <= Cardinality(Entered)
    /\ \A n \in Lives : loop[n] = "none" => counter[n] = 0
    /\ \A c \in Entered : cid[c] \in ClientIds
    /\ \A i \in ClientIds : clients[i] \in Entered \union {NoConn}
    /\ \A n \in Lives : loop[n] = "accepted" => fresh[n] \in opened \ Entered
    /\ \A m, n \in Lives :
         loop[n] = "accepted" /\ loop[m] = "accepted" /\ fresh[m] = fresh[n] => m = n
    /\ Started = {} => Entered = {}

\* The connections are finitely many, and those entered are among them.
LEMMA EnteredFinite ==
    /\ Cardinality(Conns) \in Nat
    /\ IsFiniteSet(Entered)
    /\ Cardinality(Entered) \in Nat /\ Cardinality(Entered) <= Cardinality(Conns)
BY IpcServerAssumption, FS_CardinalityType, FS_Subset DEF Entered

\* The server does not run and knows nobody.
LEMMA InitServerInv == InitServer => ServerInv
<1>. SUFFICES ASSUME InitServer PROVE ServerInv
  OBVIOUS
<1>1. 0 \in 0..MaxStarts /\ 0 \in 0..Cardinality(Conns)
  BY IpcServerAssumption, EnteredFinite
<1>2. ServerTypeOK
  <2>1. on \in [Lives -> 0..MaxStarts] /\ counter \in [Lives -> 0..Cardinality(Conns)]
    BY <1>1 DEF InitServer
  <2>2. cid \in [Conns -> 0..Cardinality(Conns)] /\ clients \in [ClientIds -> Conns \union {NoConn}]
    BY <1>1 DEF InitServer
  <2>. QED  BY <1>1, <2>1, <2>2 DEF InitServer, ServerTypeOK
<1>3. Entered = {}
  BY DEF InitServer, Entered
<1>. QED  BY <1>2, <1>3, EnteredFinite DEF InitServer, ServerInv

\* An accept loop gives the next identifier, which is one of ClientIds, to the
\* connection it has accepted.
LEMMA EntersEffects ==
    ASSUME ServerInv, NEW n \in Lives, Enters(n)
    PROVE  LET c == fresh[n]
               i == counter[n] + 1
           IN  /\ c \in Conns /\ c \in opened /\ c \notin Entered /\ i \in ClientIds
               /\ counter' = [counter EXCEPT ![n] = i]
               /\ cid' = [cid EXCEPT ![c] = i]
               /\ clients' = [clients EXCEPT ![i] = c]
               /\ hpc' = [hpc EXCEPT ![c] = IF running THEN "reading" ELSE "ended"]
               /\ late' = IF running THEN late ELSE late \union {c}
               /\ fresh' = [fresh EXCEPT ![n] = NoConn]
               /\ loop[n] = "accepted"
               /\ loop' = [loop EXCEPT ![n] = IF running THEN "accepting" ELSE "ended"]
               /\ on' = [on EXCEPT ![n] = IF running THEN listener ELSE 0]
               /\ UNCHANGED <<running, listener, listening, opened, foreign, overlapped>>
               /\ Entered' = Entered \union {c}
               /\ Cardinality(Entered') = Cardinality(Entered) + 1
               /\ Cardinality(Entered') <= Cardinality(Conns)
<1>. DEFINE c == fresh[n]
            i == counter[n] + 1
<1>1. /\ counter' = [counter EXCEPT ![n] = i]
      /\ cid' = [cid EXCEPT ![c] = i]
      /\ clients' = [clients EXCEPT ![i] = c]
      /\ hpc' = [hpc EXCEPT ![c] = IF running THEN "reading" ELSE "ended"]
      /\ late' = IF running THEN late ELSE late \union {c}
      /\ fresh' = [fresh EXCEPT ![n] = NoConn]
      /\ loop[n] = "accepted"
      /\ loop' = [loop EXCEPT ![n] = IF running THEN "accepting" ELSE "ended"]
      /\ on' = [on EXCEPT ![n] = IF running THEN listener ELSE 0]
      /\ UNCHANGED <<running, listener, listening, opened, foreign, overlapped>>
  BY DEF Enters, GoHandler, NextAccept, GoLoop
<1>2. c \in opened /\ c \in Conns /\ c \notin Entered
  BY <1>1 DEF ServerInv, ServerTypeOK
<1>3. Entered' = Entered \union {c}
  BY <1>1, <1>2 DEF Entered, ServerInv, ServerTypeOK
<1>4. Cardinality(Entered') = Cardinality(Entered) + 1
  BY <1>2, <1>3, EnteredFinite, FS_AddElement
<1>5. Cardinality(Entered') <= Cardinality(Conns)
  <2>1. Entered' \in SUBSET Conns
    BY <1>2, <1>3 DEF Entered
  <2>. QED  BY <2>1, IpcServerAssumption, FS_Subset
<1>6. i \in ClientIds
  <2>1. counter[n] \in Nat /\ counter[n] <= Cardinality(Entered)
    BY DEF ServerInv, ServerTypeOK
  <2>. QED  BY <1>4, <1>5, <2>1, EnteredFinite DEF ClientIds
<1>. QED  BY <1>1, <1>2, <1>3, <1>4, <1>5, <1>6

\* Every step of the server keeps ServerInv.
LEMMA StepServerInv == ServerInv /\ ServerMove => ServerInv'
<1>. SUFFICES ASSUME ServerInv, ServerMove PROVE ServerInv'
  OBVIOUS
<1>. USE IpcServerAssumption DEF GoLoop, GoHandler
<1>0. /\ ServerTypeOK
      /\ 0 \in 0..MaxStarts /\ Lives \subseteq 0..MaxStarts
      /\ ClientIds \subseteq 0..Cardinality(Conns)
  BY EnteredFinite DEF ServerInv, Lives, ClientIds
<1>1. CASE ServerStarts
  <2>. PICK n \in Lives : /\ loop[n] = "none"
                          /\ listener' = n
                          /\ listening' = listening \union {n}
                          /\ loop' = [loop EXCEPT ![n] = "accepting"]
                          /\ on' = [on EXCEPT ![n] = n]
    BY <1>1 DEF ServerStarts
  <2>1. /\ running' = TRUE /\ overlapped' \in BOOLEAN
        /\ UNCHANGED <<clients, fresh, counter, opened, cid, hpc, foreign, late>>
    BY <1>0, <1>1 DEF ServerStarts, ServerTypeOK
  <2>2. ServerTypeOK'
    BY <1>0, <2>1 DEF ServerTypeOK
  <2>3. Entered' = Entered /\ Started' # {}
    BY <1>0, <2>1 DEF Entered, Started, ServerTypeOK
  <2>. QED  BY <1>0, <2>1, <2>2, <2>3 DEF ServerInv, ServerTypeOK
<1>2. CASE StopListens
  <2>1. Entered' = Entered /\ Started' = Started
    BY <1>2 DEF StopListens, Entered, Started
  <2>. QED  BY <1>0, <1>2, <2>1 DEF StopListens, ServerInv, ServerTypeOK
<1>3. CASE StopSweeps
  <2>1. Entered' = Entered /\ Started' = Started
    BY <1>3 DEF StopSweeps, Entered, Started
  <2>2. ServerTypeOK'
    BY <1>0, <1>3 DEF StopSweeps, ServerTypeOK
  <2>3. \A n \in Lives : loop[n] = "accepted" => fresh[n] \in opened' \ Entered
    <3>1. \A n \in Lives : loop[n] = "accepted" => fresh[n] \in opened \ Entered /\ fresh[n] # NoConn
      BY <1>0 DEF ServerInv, ServerTypeOK
    <3>. QED  BY <1>3, <3>1 DEF StopSweeps, ServerInv
  <2>. QED  BY <1>3, <2>1, <2>2, <2>3 DEF StopSweeps, ServerInv
<1>4. ASSUME NEW n \in Lives, AcceptFails(n) PROVE ServerInv'
  <2>1. /\ loop[n] = "accepting"
        /\ \E there \in {"accepting", "ended"} : loop' = [loop EXCEPT ![n] = there]
        /\ \E i \in 0..MaxStarts : on' = [on EXCEPT ![n] = i]
        /\ UNCHANGED <<running, listener, listening, clients, fresh, counter, opened, cid, hpc,
                       foreign, late, overlapped>>
    BY <1>0, <1>4 DEF AcceptFails, NextAccept, ServerTypeOK
  <2>2. Entered' = Entered /\ Started' = Started
    BY <1>0, <2>1 DEF Entered, Started, ServerTypeOK
  <2>3. ServerTypeOK'
    BY <1>0, <2>1 DEF ServerTypeOK
  <2>. QED  BY <1>0, <2>1, <2>2, <2>3 DEF ServerInv, ServerTypeOK
<1>5. ASSUME NEW n \in Lives, NEW c \in Conns, Accepts(n, c) PROVE ServerInv'
  <2>1. /\ loop[n] = "accepting" /\ c \notin Entered /\ c \notin opened
        /\ opened' = opened \union {c}
        /\ fresh' = [fresh EXCEPT ![n] = c]
        /\ on' = [on EXCEPT ![n] = 0]
        /\ loop' = [loop EXCEPT ![n] = "accepted"]
        /\ UNCHANGED <<running, listener, listening, clients, counter, cid, hpc, foreign, late,
                       overlapped>>
    BY <1>5 DEF Accepts, Entered
  <2>2. Entered' = Entered /\ Started' = Started
    BY <1>0, <2>1 DEF Entered, Started, ServerTypeOK
  <2>3. ServerTypeOK'
    BY <1>0, <2>1 DEF ServerTypeOK
  <2>4. \A m \in Lives : loop'[m] = "accepted" => fresh'[m] \in opened' \ Entered'
    BY <1>0, <2>1, <2>2 DEF ServerInv, ServerTypeOK
  <2>5. \A k, m \in Lives :
          loop'[m] = "accepted" /\ loop'[k] = "accepted" /\ fresh'[k] = fresh'[m] => k = m
    BY <1>0, <2>1 DEF ServerInv, ServerTypeOK
  <2>. QED  BY <1>0, <2>1, <2>2, <2>3, <2>4, <2>5 DEF ServerInv, ServerTypeOK
<1>6. ASSUME NEW n \in Lives, Enters(n) PROVE ServerInv'
  <2>. DEFINE c == fresh[n]
              i == counter[n] + 1
  <2>1. /\ c \in Conns /\ c \in opened /\ c \notin Entered /\ i \in ClientIds
        /\ counter' = [counter EXCEPT ![n] = i]
        /\ cid' = [cid EXCEPT ![c] = i]
        /\ clients' = [clients EXCEPT ![i] = c]
        /\ hpc' = [hpc EXCEPT ![c] = IF running THEN "reading" ELSE "ended"]
        /\ late' = IF running THEN late ELSE late \union {c}
        /\ fresh' = [fresh EXCEPT ![n] = NoConn]
        /\ loop[n] = "accepted"
        /\ loop' = [loop EXCEPT ![n] = IF running THEN "accepting" ELSE "ended"]
        /\ on' = [on EXCEPT ![n] = IF running THEN listener ELSE 0]
        /\ UNCHANGED <<running, listener, listening, opened, foreign, overlapped>>
        /\ Entered' = Entered \union {c}
        /\ Cardinality(Entered') = Cardinality(Entered) + 1
    BY <1>6, EntersEffects
  <2>. HIDE DEF c, i
  <2>2. /\ counter' \in [Lives -> 0..Cardinality(Conns)]
        /\ cid' \in [Conns -> 0..Cardinality(Conns)]
        /\ clients' \in [ClientIds -> Conns \union {NoConn}]
        /\ on' \in [Lives -> 0..MaxStarts]
    BY <1>0, <2>1 DEF ServerTypeOK
  <2>3. ServerTypeOK'
    BY <1>0, <2>1, <2>2 DEF ServerTypeOK
  <2>4. \A m \in Lives : counter'[m] <= Cardinality(Entered')
    <3>1. \A m \in Lives : counter[m] <= Cardinality(Entered) /\ counter[m] \in Nat
      BY <1>0, EnteredFinite DEF ServerInv, ServerTypeOK
    <3>2. \A m \in Lives : counter'[m] = IF m = n THEN i ELSE counter[m]
      BY <1>0, <2>1 DEF ServerTypeOK
    <3>. QED  BY <2>1, <3>1, <3>2, EnteredFinite DEF i
  <2>5. /\ \A d \in Entered' : cid'[d] \in ClientIds
        /\ \A j \in ClientIds : clients'[j] \in Entered' \union {NoConn}
    BY <1>0, <2>1 DEF ServerInv, ServerTypeOK, Entered
  <2>6. /\ \A m \in Lives : loop'[m] = "accepted" => m # n /\ loop[m] = "accepted" /\ fresh'[m] = fresh[m]
        /\ \A m \in Lives : loop'[m] = "none" => m # n /\ loop[m] = "none" /\ counter'[m] = counter[m]
    BY <1>0, <2>1 DEF ServerTypeOK
  <2>7. \A m \in Lives : loop'[m] = "accepted" => fresh'[m] \in opened' \ Entered'
    BY <2>1, <2>6 DEF ServerInv, c
  <2>8. Started' # {}
    BY <1>0, <2>1 DEF Started, ServerTypeOK
  <2>. QED  BY <2>3, <2>4, <2>5, <2>6, <2>7, <2>8 DEF ServerInv
<1>7. ASSUME NEW c \in Conns, HandlerReads(c) PROVE ServerInv'
  <2>1. /\ c \in Entered
        /\ \E there \in {"reading", "ended"} : hpc' = [hpc EXCEPT ![c] = there]
        /\ UNCHANGED <<running, listener, listening, clients, loop, on, fresh, counter, opened,
                       cid, foreign, late, overlapped>>
    BY <1>7 DEF HandlerReads, Entered
  <2>2. Entered' = Entered /\ Started' = Started
    BY <1>0, <2>1 DEF Entered, Started, ServerTypeOK
  <2>3. ServerTypeOK'
    BY <1>0, <2>1 DEF ServerTypeOK
  <2>. QED  BY <2>1, <2>2, <2>3 DEF ServerInv
<1>8. ASSUME NEW c \in Conns, HandlerCloses(c) PROVE ServerInv'
  <2>1. /\ c \in Entered /\ cid[c] \in ClientIds
        /\ opened' = opened \ {clients[cid[c]]}
        /\ foreign' \in BOOLEAN
        /\ clients' = [clients EXCEPT ![cid[c]] = NoConn]
        /\ hpc' = [hpc EXCEPT ![c] = "ended"]
        /\ UNCHANGED <<running, listener, listening, loop, on, fresh, counter, cid, late,
                       overlapped>>
    BY <1>0, <1>8 DEF HandlerCloses, Entered, ServerInv, ServerTypeOK
  <2>2. Entered' = Entered /\ Started' = Started
    BY <1>0, <2>1 DEF Entered, Started, ServerTypeOK
  <2>3. ServerTypeOK'
    BY <1>0, <2>1 DEF ServerTypeOK
  <2>4. \A n \in Lives : loop[n] = "accepted" => fresh[n] \in opened' \ Entered
    <3>1. \A n \in Lives : loop[n] = "accepted" => fresh[n] \in opened \ Entered /\ fresh[n] # NoConn
      BY <1>0 DEF ServerInv, ServerTypeOK
    <3>. QED  BY <2>1, <3>1 DEF ServerInv
  <2>. QED  BY <1>0, <2>1, <2>2, <2>3, <2>4 DEF ServerInv, ServerTypeOK
<1>9. CASE UNCHANGED serverVars
  <2>1. Entered' = Entered /\ Started' = Started /\ ServerTypeOK'
    BY <1>0, <1>9 DEF serverVars, Entered, Started, ServerTypeOK
  <2>. QED  BY <1>9, <2>1 DEF serverVars, ServerInv
<1>. QED
  BY <1>1, <1>2, <1>3, <1>4, <1>5, <1>6, <1>7, <1>8, <1>9 DEF ServerMove, LoopStep

-----------------------------------------------------------------------------
(* The framework: the types of its own variables and of the pool's, and    *)
(* how each of its steps moves the timers and the server.                  *)

FrameTypes ==
    /\ fpc \in {"idle", "wheel", "check", "scan", "serve", "stopServer", "sweep", "stopWheel",
                "wheelStops", "stopPool", "drain"}
    /\ calls \in 0..MaxCalls
    /\ cleanupTimerId \in 0..MaxCalls
    /\ up \in BOOLEAN
    /\ poolState \in {"Idle", "Running", "Stopping", "Stopped"}
    /\ queued \subseteq Conns
    /\ handled \subseteq Conns
    /\ misdelivered \in BOOLEAN
    /\ fpc \in {"wheel", "check", "scan", "serve"} => calls \in 1..MaxCalls

\* Nothing has been started.
LEMMA InitFrameTypes == Init => FrameTypes
<1>1. 0 \in 0..MaxCalls
  BY FrameworkAssumption
<1>. QED  BY <1>1 DEF Init, FrameTypes, InvalidTimerId

\* Every step of the framework, the messages and the parts keeps the types.
LEMMA StepFrameTypes == FrameTypes /\ [Next]_vars => FrameTypes'
<1>. SUFFICES ASSUME FrameTypes, [Next]_vars PROVE FrameTypes'
  OBVIOUS
<1>. USE FrameworkAssumption DEF FrameTypes, poolVars, frameworkVars, Then, InvalidTimerId
<1>1. CASE StartPool
  <2>1. calls' \in 1..MaxCalls /\ calls' \in 0..MaxCalls
    BY <1>1 DEF StartPool
  <2>. QED  BY <1>1, <2>1 DEF StartPool
<1>2. CASE StartWheel \/ StartServer \/ StartFails
  BY <1>2 DEF StartWheel, StartServer, StartFails
<1>3. CASE StartCheck
  <2>1. 0 \in 0..MaxCalls
    OBVIOUS
  <2>. QED  BY <1>3, <2>1 DEF StartCheck
<1>4. CASE StartScan
  BY <1>4 DEF StartScan
<1>5. CASE ShutdownScan
  <2>1. 0 \in 0..MaxCalls
    OBVIOUS
  <2>. QED  BY <1>5, <2>1 DEF ShutdownScan
<1>6. CASE ShutdownServer \/ ShutdownSweeps \/ ShutdownWheel \/ ShutdownWheelStops
  BY <1>6 DEF ShutdownServer, ShutdownSweeps, ShutdownWheel, ShutdownWheelStops
<1>7. CASE ShutdownPool \/ ShutdownReturns
  BY <1>7 DEF ShutdownPool, ShutdownReturns
<1>8. ASSUME NEW c \in Conns, MessageArrives(c) \/ WorkerTakes(c) \/ WorkerAnswers(c)
      PROVE  FrameTypes'
  BY <1>8 DEF MessageArrives, WorkerTakes, WorkerAnswers
<1>9. ASSUME ServerStep \/ (\E t \in Timers : ScanStep(t)) \/ TickStep \/ UNCHANGED vars
      PROVE  FrameTypes'
  BY <1>9 DEF ServerStep, ScanStep, TickStep, vars
<1>. QED
  BY <1>1, <1>2, <1>3, <1>4, <1>5, <1>6, <1>7, <1>8, <1>9 DEF Next, Start, Shutdown

\* The steps of the timers.
LEMMA StepMovesTimers == FrameTypes /\ [Next]_vars => TimerMove
<1>. SUFFICES ASSUME FrameTypes, [Next]_vars PROVE TimerMove
  OBVIOUS
<1>. USE FrameworkAssumption DEF FrameTypes, TimerMove, InvalidTimerId
<1>1. CASE Start
  BY <1>1 DEF Start, StartPool, StartWheel, StartCheck, StartScan, StartServer, StartFails
<1>2. CASE Shutdown
  BY <1>2 DEF Shutdown, ShutdownScan, ShutdownServer, ShutdownSweeps, ShutdownWheel,
     ShutdownWheelStops, ShutdownPool, ShutdownReturns, StopStep
<1>3. ASSUME NEW c \in Conns, MessageArrives(c) \/ WorkerTakes(c) \/ WorkerAnswers(c)
      PROVE  UNCHANGED timerVars
  BY <1>3 DEF MessageArrives, WorkerTakes, WorkerAnswers
<1>4. ASSUME ServerStep \/ (\E t \in Timers : ScanStep(t)) \/ TickStep \/ UNCHANGED vars
      PROVE  TimerMove
  BY <1>4 DEF ServerStep, ScanStep, TickStep, vars, StopStep
<1>. QED  BY <1>1, <1>2, <1>3, <1>4 DEF Next

\* The steps of the server.
LEMMA StepMovesServer == [Next]_vars => ServerMove
<1>. SUFFICES ASSUME [Next]_vars PROVE ServerMove
  OBVIOUS
<1>. USE DEF ServerMove, frameworkVars, Then
<1>1. CASE Start
  BY <1>1 DEF Start, StartPool, StartWheel, StartCheck, StartScan, StartServer, StartFails
<1>2. CASE Shutdown
  BY <1>2 DEF Shutdown, ShutdownScan, ShutdownServer, ShutdownSweeps, ShutdownWheel,
     ShutdownWheelStops, ShutdownPool, ShutdownReturns
<1>3. ASSUME NEW c \in Conns, MessageArrives(c) \/ WorkerTakes(c) \/ WorkerAnswers(c)
      PROVE  ServerMove
  BY <1>3 DEF MessageArrives, WorkerTakes, WorkerAnswers
<1>4. ASSUME ServerStep \/ (\E t \in Timers : ScanStep(t)) \/ TickStep \/ UNCHANGED vars
      PROVE  ServerMove
  BY <1>4 DEF ServerStep, ScanStep, TickStep, vars
<1>. QED  BY <1>1, <1>2, <1>3, <1>4 DEF Next

TypeInv == TimersTypeOK /\ ServerInv /\ FrameTypes

\* The types hold at first and are kept by every step.
LEMMA TypesInductive == /\ Init => TypeInv
                        /\ TypeInv /\ [Next]_vars => TypeInv'
BY InitTimerTypes, InitServerInv, InitFrameTypes, StepMovesTimers, TimerMoveTypes,
   StepMovesServer, StepServerInv, StepFrameTypes
   DEF TypeInv, Init

\* In every reachable state the variables keep their types.
THEOREM TypeCorrect == Spec => []TypeOK
<1>1. TypeInv => TypeOK
  BY DEF TypeInv, ServerInv, FrameTypes, TypeOK
<1>. QED  BY <1>1, TypesInductive, PTL DEF Spec

-----------------------------------------------------------------------------
(* The wheel.  A stop channel that is closed belongs to an earlier life,   *)
(* or to a Stop that is under way in Shutdown; and once Stop is done the   *)
(* table holds only what was entered after it.                             *)

WheelInv ==
    /\ closed \subseteq 0..stopCh
    /\ spc # "idle" <=> fpc = "wheelStops"
    /\ spc # "idle" => stopped /\ initialized
    /\ initialized /\ stopped => spc # "idle"
    /\ initialized /\ ~stopped => stopCh \notin closed
    /\ stopped /\ spc = "idle" => timerTasks \subseteq raced

\* No wheel has run.
LEMMA InitWheelInv == Init => WheelInv
BY DEF Init, InitTimers, WheelInv

\* A step of a timer, or of an adding or a cancelling, keeps WheelInv: what is
\* entered when stopped is set has raced.
LEMMA TimersKeepWheel ==
    ASSUME TimersTypeOK, WheelInv, UNCHANGED lifeVars,
           fpc' = "wheelStops" <=> fpc = "wheelStops",
           \/ timerTasks' \subseteq timerTasks /\ raced' = raced
           \/ \E t \in Timers : AddEnter(t)
    PROVE  WheelInv'
BY DEF WheelInv, lifeVars, AddEnter

\* The steps of the framework keep WheelInv.
LEMMA StepWheelInv == TypeInv /\ WheelInv /\ [Next]_vars => WheelInv'
<1>. SUFFICES ASSUME TypeInv, WheelInv, [Next]_vars PROVE WheelInv'
  OBVIOUS
<1>. USE FrameworkAssumption DEF frameworkVars, Then, InvalidTimerId
<1>0. TimersTypeOK /\ FrameTypes
  BY DEF TypeInv
<1>1. CASE StartWheel
  <2>1. CASE InitWheel
    <3>1. stopCh \in Int /\ \A i \in closed : i \in Int /\ i <= stopCh
      BY <1>0 DEF WheelInv, TimersTypeOK
    <3>2. closed' \subseteq 0..stopCh' /\ stopCh' \notin closed'
      BY <1>0, <2>1, <3>1 DEF InitWheel, TimersTypeOK
    <3>. QED  BY <1>1, <2>1, <3>2 DEF StartWheel, InitWheel, WheelInv
  <2>2. CASE UNCHANGED timerVars
    BY <1>1, <2>2 DEF StartWheel, timerVars, lifeVars, timerGhosts, WheelInv
  <2>. QED  BY <1>1, <2>1, <2>2 DEF StartWheel
<1>2. CASE ShutdownWheel
  <2>1. CASE StopWheel
    BY <1>2, <2>1 DEF ShutdownWheel, StopWheel, timerGhosts, WheelInv
  <2>2. CASE UNCHANGED timerVars /\ fpc' = "stopPool"
    BY <1>2, <2>2 DEF ShutdownWheel, timerVars, lifeVars, timerGhosts, WheelInv
  <2>. QED  BY <1>2, <2>1, <2>2 DEF ShutdownWheel
<1>3. CASE ShutdownWheelStops
  <2>1. CASE StopCloses /\ UNCHANGED fpc
    BY <1>0, <1>3, <2>1 DEF ShutdownWheelStops, StopCloses, timerGhosts, WheelInv, TimersTypeOK
  <2>2. CASE StopClears /\ fpc' = "stopPool"
    BY <1>3, <2>2 DEF ShutdownWheelStops, StopClears, timerGhosts, WheelInv
  <2>. QED  BY <1>3, <2>1, <2>2 DEF ShutdownWheelStops
<1>4. CASE TickStep
  BY <1>4 DEF TickStep, TickLoopEnds, timerGhosts, WheelInv
<1>5. CASE StartCheck \/ ShutdownScan
  BY <1>0, <1>5, TimersKeepWheel
     DEF StartCheck, ShutdownScan, AddCheck, CancelTask, timerVars, timerGhosts
<1>6. CASE StartScan
  <2>1. calls \in Timers
    BY <1>0, <1>6 DEF StartScan, FrameTypes
  <2>. QED  BY <1>0, <1>6, <2>1, TimersKeepWheel DEF StartScan, AddEnter
<1>7. ASSUME NEW t \in Timers, ScanStep(t) PROVE WheelInv'
  <2>1. UNCHANGED lifeVars /\ raced' = raced /\ fpc' = fpc
    BY <1>7 DEF ScanStep, TimerStep, TimerWaits, TimerFires, TimerStops, CallbackBegins,
       CallbackReturns, timerGhosts
  <2>2. timerTasks' \subseteq timerTasks
    BY <1>7 DEF ScanStep, TimerStep, TimerWaits, TimerFires, TimerStops, CallbackBegins,
       CallbackReturns
  <2>. QED  BY <1>0, <2>1, <2>2, TimersKeepWheel
<1>8. CASE /\ UNCHANGED timerVars
           /\ fpc' = "wheelStops" <=> fpc = "wheelStops"
  BY <1>0, <1>8, TimersKeepWheel DEF timerVars, timerGhosts
<1>9. ASSUME NEW c \in Conns, MessageArrives(c) \/ WorkerTakes(c) \/ WorkerAnswers(c)
      PROVE  UNCHANGED timerVars /\ fpc' = fpc
  BY <1>9 DEF MessageArrives, WorkerTakes, WorkerAnswers
<1>10. ASSUME ServerStep \/ UNCHANGED vars
      PROVE  UNCHANGED timerVars /\ fpc' = fpc
  BY <1>10 DEF ServerStep, vars
<1>11. ASSUME \/ StartPool \/ StartServer \/ StartFails \/ ShutdownServer \/ ShutdownSweeps
              \/ ShutdownPool \/ ShutdownReturns
       PROVE  UNCHANGED timerVars /\ fpc # "wheelStops" /\ fpc' # "wheelStops"
  BY <1>11 DEF StartPool, StartServer, StartFails, ShutdownServer, ShutdownSweeps, ShutdownPool,
     ShutdownReturns
<1>. QED
  BY <1>1, <1>2, <1>3, <1>4, <1>5, <1>6, <1>7, <1>8, <1>9, <1>10, <1>11 DEF Next, Start, Shutdown

\* After Stop of the wheel no timer gets past its check but one whose adding raced
\* with it.
THEOREM StopIsFinalHolds == Spec => StopIsFinal
<1>1. ASSUME TypeInv, WheelInv, [Next]_vars,
             NEW t \in Timers, stopped, spc = "idle", tpc[t] # "passed", tpc'[t] = "passed"
      PROVE  t \in raced \/ tpc[t] = "checked"
  <2>1. TimersTypeOK /\ TimerMove
    BY <1>1, StepMovesTimers DEF TypeInv
  <2>2. t \in timerTasks
    BY <1>1, <2>1 DEF TimersTypeOK, TimerMove, InitWheel, StopWheel, StopStep, StopCloses,
       TickLoopEnds, StopClears, AddCheck, AddEnter, CancelTask, TimerStep, TimerWaits,
       TimerFires, TimerStops, CallbackBegins, CallbackReturns, GoTimer, timerVars
  <2>. QED  BY <1>1, <2>2 DEF WheelInv
<1>2. TypeInv /\ WheelInv /\ [Next]_vars =>
        [\A t \in Timers :
           stopped /\ spc = "idle" /\ tpc[t] # "passed" /\ tpc'[t] = "passed" =>
               t \in raced \/ tpc[t] = "checked"]_tpc
  BY <1>1
<1>. QED  BY <1>2, TypesInductive, InitWheelInv, StepWheelInv, PTL DEF Spec, StopIsFinal

-----------------------------------------------------------------------------
(* The scan.  From the moment it is added the wheel is not stopped before  *)
(* a Shutdown, which clears up first: its goroutine looks at the channel   *)
(* of the wheel that runs, and its entry stays.                            *)

HasScan ==
    /\ cleanupTimerId \in timerTasks
    /\ tpc[cleanupTimerId] \in {"entered", "waiting", "passed", "callback", "returned"}
    /\ tpc[cleanupTimerId] = "waiting" => watch[cleanupTimerId] = stopCh

ScanInv ==
    /\ fpc \in {"check", "scan", "serve"} => initialized /\ ~stopped
    /\ up => fpc = "idle" /\ initialized /\ ~stopped
    /\ up \/ fpc = "serve" => HasScan

\* A step of a timer leaves the scan its entry and its goroutine, as long as the
\* wheel runs.
LEMMA ScanGoesOn ==
    ASSUME TimersTypeOK, WheelInv, initialized, ~stopped, HasScan, UNCHANGED cleanupTimerId,
           NEW t \in Timers, TimerStep(t) \/ CallbackReturns(t)
    PROVE  HasScan'
<1>. USE FrameworkAssumption DEF lifeVars, timerGhosts, GoTimer, HasScan, TimersTypeOK
<1>1. CASE TimerWaits(t)
  BY <1>1 DEF TimerWaits
<1>2. CASE TimerFires(t)
  BY <1>2 DEF TimerFires
<1>3. CASE TimerStops(t)
  BY <1>3 DEF TimerStops, WheelInv
<1>4. CASE CallbackBegins(t)
  BY <1>4 DEF CallbackBegins
<1>5. CASE CallbackReturns(t)
  BY <1>5 DEF CallbackReturns
<1>. QED  BY <1>1, <1>2, <1>3, <1>4, <1>5 DEF TimerStep

\* The steps of the framework keep ScanInv.
LEMMA StepScanInv == TypeInv /\ WheelInv /\ ScanInv /\ [Next]_vars => ScanInv'
<1>. SUFFICES ASSUME TypeInv, WheelInv, ScanInv, [Next]_vars PROVE ScanInv'
  OBVIOUS
<1>. USE FrameworkAssumption DEF frameworkVars, Then, InvalidTimerId
<1>0. TimersTypeOK /\ FrameTypes
  BY DEF TypeInv
<1>1. CASE StartWheel
  BY <1>1 DEF StartWheel, InitWheel, timerVars, lifeVars, ScanInv, WheelInv
<1>2. CASE StartCheck
  BY <1>2 DEF StartCheck, AddCheck, lifeVars, ScanInv
<1>3. CASE StartScan
  <2>1. calls \in Timers /\ tpc' = [tpc EXCEPT ![calls] = "entered"]
        /\ timerTasks' = timerTasks \union {calls} /\ cleanupTimerId' = calls
        /\ fpc = "scan" /\ up' = up /\ UNCHANGED lifeVars
    BY <1>0, <1>3 DEF StartScan, AddEnter, GoTimer, FrameTypes
  <2>2. HasScan'
    BY <1>0, <2>1 DEF HasScan, TimersTypeOK
  <2>. QED  BY <2>1, <2>2 DEF lifeVars, ScanInv
<1>4. CASE StartServer \/ StartFails
  BY <1>4 DEF StartServer, StartFails, timerVars, lifeVars, ScanInv, HasScan
<1>5. CASE StartPool
  BY <1>5 DEF StartPool, ScanInv
<1>6. CASE Shutdown
  <2>1. up' = FALSE /\ fpc' \notin {"check", "scan", "serve"}
    BY <1>6 DEF Shutdown, ShutdownScan, ShutdownServer, ShutdownSweeps, ShutdownWheel,
       ShutdownWheelStops, ShutdownPool, ShutdownReturns, ScanInv, FrameTypes, TypeInv
  <2>. QED  BY <2>1 DEF ScanInv
<1>7. ASSUME NEW t \in Timers, ScanStep(t) PROVE ScanInv'
  <2>1. UNCHANGED <<fpc, up, cleanupTimerId, initialized, stopped>>
    BY <1>7 DEF ScanStep, TimerStep, TimerWaits, TimerFires, TimerStops, CallbackBegins,
       CallbackReturns, lifeVars
  <2>. QED  BY <1>0, <1>7, <2>1, ScanGoesOn DEF ScanStep, ScanInv
<1>8. CASE TickStep
  BY <1>8 DEF TickStep, TickLoopEnds, ScanInv, HasScan
<1>9. CASE UNCHANGED timerVars /\ UNCHANGED frameworkVars
  BY <1>9 DEF timerVars, lifeVars, ScanInv, HasScan
<1>10. ASSUME NEW c \in Conns, MessageArrives(c) \/ WorkerTakes(c) \/ WorkerAnswers(c)
      PROVE  UNCHANGED timerVars /\ UNCHANGED frameworkVars
  BY <1>10 DEF MessageArrives, WorkerTakes, WorkerAnswers
<1>11. ASSUME ServerStep \/ UNCHANGED vars
      PROVE  UNCHANGED timerVars /\ UNCHANGED frameworkVars
  BY <1>11 DEF ServerStep, vars
<1>. QED
  BY <1>1, <1>2, <1>3, <1>4, <1>5, <1>6, <1>7, <1>8, <1>9, <1>10, <1>11 DEF Next, Start

\* A framework that is up has a scan that goes on and that Shutdown can cancel.
THEOREM UpHasScanHolds == Spec => []UpHasScan
<1>1. Init => ScanInv
  BY DEF Init, ScanInv
<1>2. ScanInv => UpHasScan
  BY DEF ScanInv, HasScan, UpHasScan
<1>. QED
  BY <1>1, <1>2, TypesInductive, InitWheelInv, StepWheelInv, StepScanInv, PTL DEF Spec

-----------------------------------------------------------------------------
(* The lives of the server.  As long as no Start finds goroutines of an    *)
(* earlier life, one loop at most is active, it counts past every          *)
(* identifier in use, and the map holds the connection of each handler     *)
(* under its identifier, or nothing.                                       *)

ActiveLoops == {n \in Lives : loop[n] \in {"accepting", "accepted"}}

InMap(c) == \E i \in ClientIds : clients[i] = c

Reader(c) ==
    /\ clients[cid[c]] \in {c, NoConn}
    /\ c \in opened => clients[cid[c]] = c
    /\ \A n \in ActiveLoops : cid[c] <= counter[n]

Apart ==
    /\ ~foreign
    /\ \A m, n \in ActiveLoops : m = n
    /\ \A c \in Conns : hpc[c] = "reading" => Reader(c)
    /\ \A i \in ClientIds : clients[i] \in Conns \ late =>
         /\ \A n \in ActiveLoops : i <= counter[n]
         /\ running \/ fpc = "sweep"
    /\ \A c \in Conns \ late : hpc[c] = "ended" /\ c \in opened => InMap(c)

ApartInv == overlapped \/ Apart

\* The server has not run.
LEMMA InitApart == Init => ApartInv
BY IpcServerAssumption DEF Init, InitServer, ApartInv, Apart, ActiveLoops

\* Unless lives overlap, the steps of the server keep its connections apart.
LEMMA StepApart == ServerInv /\ ApartInv /\ ServerMove => ApartInv'
<1>. SUFFICES ASSUME ServerInv, ApartInv, ServerMove, ~overlapped'
              PROVE  Apart'
  BY DEF ApartInv
<1>. USE IpcServerAssumption DEF GoLoop, GoHandler
<1>0. ServerTypeOK /\ \A c \in Conns : hpc[c] # "none" => cid[c] \in ClientIds
  BY DEF ServerInv, Entered
<1>a. ~overlapped /\ Apart
  <2>1. overlapped => overlapped'
    BY DEF ServerMove, ServerStarts, StopListens, StopSweeps, LoopStep, AcceptFails, Accepts,
       Enters, HandlerReads, HandlerCloses, serverVars
  <2>. QED  BY <2>1 DEF ApartInv
<1>1. ASSUME ServerStarts, ~running, fpc = "serve" PROVE Apart'
  <2>. PICK n \in Lives : loop[n] = "none" /\ loop' = [loop EXCEPT ![n] = "accepting"]
    BY <1>1 DEF ServerStarts
  <2>1. /\ running' = TRUE /\ ServerQuiet
        /\ UNCHANGED <<clients, fresh, counter, opened, cid, hpc, foreign, late>>
    BY <1>1 DEF ServerStarts
  <2>2. ActiveLoops' = {n}
    BY <1>0, <2>1 DEF ActiveLoops, ServerQuiet, ServerTypeOK
  <2>3. \A c \in Conns : hpc[c] # "reading"
    BY <2>1 DEF ServerQuiet
  <2>4. \A i \in ClientIds : clients[i] \notin Conns \ late
    BY <1>a, <1>1 DEF Apart
  <2>. QED  BY <1>a, <2>1, <2>2, <2>3, <2>4 DEF Apart, InMap
<1>2. ASSUME StopListens, fpc' = "sweep" PROVE Apart'
  BY <1>a, <1>2 DEF StopListens, Apart, ActiveLoops, Reader, InMap
<1>3. CASE StopSweeps
  <2>1. /\ \A i \in ClientIds : clients'[i] = NoConn
        /\ opened' = opened \ {clients[i] : i \in ClientIds}
        /\ UNCHANGED <<running, listener, listening, loop, on, fresh, counter, cid, hpc,
                       foreign, late, overlapped>>
    BY <1>3 DEF StopSweeps
  <2>2. ActiveLoops' = ActiveLoops
    BY <2>1 DEF ActiveLoops
  <2>3. \A c \in Conns : hpc[c] = "reading" => Reader(c)'
    BY <1>0, <1>a, <2>1, <2>2 DEF Apart, Reader
  <2>4. \A c \in Conns \ late : hpc[c] = "ended" => c \notin opened'
    BY <1>a, <2>1 DEF Apart, InMap
  <2>. QED  BY <1>a, <2>1, <2>2, <2>3, <2>4 DEF Apart
<1>4. ASSUME NEW n \in Lives, AcceptFails(n), UNCHANGED fpc PROVE Apart'
  <2>1. /\ UNCHANGED <<running, clients, counter, opened, cid, hpc, foreign, late>>
        /\ n \in ActiveLoops
        /\ \E there \in {"accepting", "ended"} : loop' = [loop EXCEPT ![n] = there]
    BY <1>4 DEF AcceptFails, NextAccept, ActiveLoops
  <2>2. ActiveLoops' \subseteq ActiveLoops
    BY <1>0, <2>1 DEF ActiveLoops, ServerTypeOK
  <2>. QED  BY <1>a, <1>4, <2>1, <2>2 DEF Apart, Reader, InMap
<1>5. ASSUME NEW n \in Lives, NEW c \in Conns, Accepts(n, c), UNCHANGED fpc PROVE Apart'
  <2>1. /\ UNCHANGED <<running, clients, counter, cid, hpc, foreign, late>>
        /\ n \in ActiveLoops /\ loop' = [loop EXCEPT ![n] = "accepted"]
        /\ opened' = opened \union {c} /\ hpc[c] = "none"
    BY <1>5 DEF Accepts, ActiveLoops
  <2>2. ActiveLoops' = ActiveLoops
    BY <1>0, <2>1 DEF ActiveLoops, ServerTypeOK
  <2>. QED  BY <1>a, <1>5, <2>1, <2>2 DEF Apart, Reader, InMap
<1>6. ASSUME NEW n \in Lives, Enters(n), UNCHANGED fpc PROVE Apart'
  <2>. DEFINE c == fresh[n]
              i == counter[n] + 1
  <2>1. /\ c \in Conns /\ c \notin Entered /\ i \in ClientIds
        /\ counter' = [counter EXCEPT ![n] = i]
        /\ cid' = [cid EXCEPT ![c] = i]
        /\ clients' = [clients EXCEPT ![i] = c]
        /\ hpc' = [hpc EXCEPT ![c] = IF running THEN "reading" ELSE "ended"]
        /\ late' = IF running THEN late ELSE late \union {c}
        /\ loop[n] = "accepted"
        /\ loop' = [loop EXCEPT ![n] = IF running THEN "accepting" ELSE "ended"]
        /\ UNCHANGED <<running, opened, foreign>>
    BY <1>6, EntersEffects
  <2>2. counter[n] \in Nat /\ i \in Nat /\ i > counter[n]
    BY <1>0 DEF ServerTypeOK
  <2>. HIDE DEF c, i
  <2>3. n \in ActiveLoops /\ ActiveLoops' \subseteq {n}
    BY <1>0, <1>a, <2>1 DEF ActiveLoops, Apart, ServerTypeOK
  <2>4. counter'[n] = i /\ \A j \in ClientIds : clients'[j] = IF j = i THEN c ELSE clients[j]
    BY <1>0, <2>1 DEF ServerTypeOK
  <2>5. \A d \in Conns : d # c => hpc'[d] = hpc[d] /\ cid'[d] = cid[d]
    BY <1>0, <2>1 DEF ServerTypeOK
  <2>6. hpc[c] = "none" /\ hpc'[c] = (IF running THEN "reading" ELSE "ended") /\ cid'[c] = i
    BY <1>0, <2>1 DEF Entered, ServerTypeOK
  <2>7. ASSUME NEW d \in Conns, hpc'[d] = "reading" PROVE Reader(d)'
    <3>1. CASE d = c
      BY <2>1, <2>2, <2>3, <2>4, <2>6, <3>1 DEF Reader
    <3>2. CASE d # c
      <4>1. Reader(d) /\ cid[d] \in ClientIds
        BY <1>0, <1>a, <2>5, <2>7, <3>2 DEF Apart
      <4>2. cid[d] <= counter[n] /\ cid[d] # i /\ cid[d] <= i
        BY <2>2, <2>3, <4>1 DEF Reader, ClientIds
      <4>. QED  BY <2>1, <2>3, <2>4, <2>5, <3>2, <4>1, <4>2 DEF Reader
    <3>. QED  BY <3>1, <3>2
  <2>8. ASSUME NEW j \in ClientIds, clients'[j] \in Conns \ late'
        PROVE  (\A m \in ActiveLoops' : j <= counter'[m]) /\ (running' \/ fpc' = "sweep")
    <3>1. CASE j = i
      BY <2>1, <2>3, <2>4, <2>8, <3>1 DEF ClientIds
    <3>2. CASE j # i
      <4>1. j <= counter[n] /\ (running \/ fpc = "sweep")
        BY <1>a, <2>1, <2>3, <2>4, <2>8, <3>2 DEF Apart
      <4>. QED  BY <1>6, <2>1, <2>2, <2>3, <2>4, <4>1 DEF ClientIds
    <3>. QED  BY <3>1, <3>2
  <2>9. ASSUME NEW d \in Conns \ late', hpc'[d] = "ended", d \in opened' PROVE InMap(d)'
    <3>1. d # c /\ d \in Conns \ late /\ d \in opened /\ hpc[d] = "ended"
      BY <2>1, <2>5, <2>6, <2>9
    <3>2. PICK j \in ClientIds : clients[j] = d
      BY <1>a, <3>1 DEF Apart, InMap
    <3>3. j # i
      BY <1>a, <2>2, <2>3, <3>1, <3>2 DEF Apart, ClientIds
    <3>. QED  BY <2>4, <3>2, <3>3 DEF InMap
  <2>. QED  BY <1>a, <2>1, <2>3, <2>7, <2>8, <2>9 DEF Apart
<1>7. ASSUME NEW c \in Conns, HandlerReads(c), UNCHANGED fpc PROVE Apart'
  <2>1. /\ UNCHANGED <<running, clients, loop, counter, opened, cid, foreign, late>>
        /\ c \in opened /\ hpc[c] = "reading"
        /\ \E there \in {"reading", "ended"} : hpc' = [hpc EXCEPT ![c] = there]
    BY <1>7 DEF HandlerReads
  <2>2. InMap(c) /\ ActiveLoops' = ActiveLoops
    BY <1>0, <1>a, <2>1 DEF Apart, Reader, InMap, ActiveLoops
  <2>3. \A d \in Conns : hpc'[d] = "reading" => hpc[d] = "reading" /\ Reader(d)'
    BY <1>0, <1>a, <2>1, <2>2 DEF Apart, Reader, ServerTypeOK
  <2>. QED  BY <1>0, <1>a, <1>7, <2>1, <2>2, <2>3 DEF Apart, InMap, ServerTypeOK
<1>8. ASSUME NEW c \in Conns, HandlerCloses(c), UNCHANGED fpc PROVE Apart'
  <2>1. /\ UNCHANGED <<running, loop, counter, cid, late>>
        /\ hpc[c] = "reading" /\ hpc' = [hpc EXCEPT ![c] = "ended"]
        /\ cid[c] \in ClientIds
        /\ opened' = opened \ {clients[cid[c]]}
        /\ foreign' = (foreign \/ clients[cid[c]] \notin {c, NoConn})
        /\ clients' = [clients EXCEPT ![cid[c]] = NoConn]
    BY <1>0, <1>8 DEF HandlerCloses
  <2>2. Reader(c) /\ ActiveLoops' = ActiveLoops
    BY <1>a, <2>1 DEF Apart, ActiveLoops
  <2>3. ~foreign' /\ c \notin opened'
    BY <1>a, <2>1, <2>2 DEF Apart, Reader
  <2>4. \A j \in ClientIds : clients'[j] = IF j = cid[c] THEN NoConn ELSE clients[j]
    BY <1>0, <2>1 DEF ServerTypeOK
  <2>5. \A d \in Conns : d # c => hpc'[d] = hpc[d] /\ clients[cid[c]] # d
    BY <1>0, <2>1, <2>2 DEF Reader, ServerTypeOK
  <2>6. hpc'[c] = "ended"
    BY <1>0, <2>1 DEF ServerTypeOK
  <2>7. \A d \in Conns : hpc'[d] = "reading" => Reader(d)'
    <3>. SUFFICES ASSUME NEW d \in Conns, hpc'[d] = "reading" PROVE Reader(d)'
      OBVIOUS
    <3>1. d # c /\ Reader(d) /\ cid[d] \in ClientIds
      BY <1>0, <1>a, <2>5, <2>6 DEF Apart
    <3>. QED  BY <2>1, <2>2, <2>4, <2>5, <3>1 DEF Reader
  <2>8. \A d \in Conns \ late : hpc'[d] = "ended" /\ d \in opened' => InMap(d)'
    <3>. SUFFICES ASSUME NEW d \in Conns \ late, hpc'[d] = "ended", d \in opened'
                  PROVE  InMap(d)'
      OBVIOUS
    <3>1. d # c /\ hpc[d] = "ended" /\ d \in opened
      BY <2>1, <2>3, <2>5
    <3>2. PICK j \in ClientIds : clients[j] = d
      BY <1>a, <3>1 DEF Apart, InMap
    <3>. QED  BY <2>4, <2>5, <3>1, <3>2 DEF InMap
  <2>. QED  BY <1>a, <1>8, <2>1, <2>2, <2>3, <2>4, <2>7, <2>8 DEF Apart
<1>9. ASSUME UNCHANGED serverVars, fpc = "sweep" => fpc' = "sweep" PROVE Apart'
  BY <1>a, <1>9 DEF serverVars, Apart, ActiveLoops, Reader, InMap
<1>. QED
  BY <1>1, <1>2, <1>3, <1>4, <1>5, <1>6, <1>7, <1>8, <1>9 DEF ServerMove, LoopStep

\* A handler closes the connection of another, or leaves its own open and forgotten,
\* only when two lives overlap.
THEOREM ForeignCloseHolds == Spec => []ForeignCloseNeedsOverlap
<1>1. ApartInv => ForeignCloseNeedsOverlap
  BY DEF ApartInv, Apart, InMap, ForeignCloseNeedsOverlap
<1>2. TypeInv /\ ApartInv /\ [Next]_vars => ApartInv'
  BY StepMovesServer, StepApart DEF TypeInv
<1>. QED  BY <1>1, <1>2, TypesInductive, InitApart, PTL DEF Spec

-----------------------------------------------------------------------------
(* The answers.  In its first life the server gives every connection an    *)
(* identifier of its own, and the pool runs only during that life: the     *)
(* Shutdown that ends it does not return before the pool has stopped, for  *)
(* good and with nothing in it.                                            *)

OneLife == \A m, n \in Started : m = n

Numbered ==
    OneLife => \A c \in Entered : /\ clients[cid[c]] \in {c, NoConn}
                                  /\ \A n \in Started : cid[c] <= counter[n]

PoolInv ==
    /\ ~misdelivered
    /\ queued \union handled \subseteq Entered
    /\ poolState \in {"Idle", "Stopped"} => queued = {} /\ handled = {}
    /\ poolState = "Idle" =>
        ~running /\ fpc \notin {"wheel", "check", "scan", "serve"} /\ Started = {}
    /\ poolState = "Stopping" <=> fpc = "drain"
    /\ poolState # "Stopped" => OneLife
    /\ poolState = "Running" /\ ~running
         /\ fpc \notin {"sweep", "stopWheel", "wheelStops", "stopPool"} => Started = {}

\* The accept loops and the handlers begin no life and leave running alone, and a
\* connection that is entered stays so.
LEMMA GoroutinesKeepLives ==
    ASSUME ServerInv,
           \/ \E n \in Lives : LoopStep(n)
           \/ \E c \in Conns : HandlerReads(c) \/ HandlerCloses(c)
    PROVE  Entered \subseteq Entered' /\ Started' = Started /\ running' = running
<1>. USE DEF GoLoop, GoHandler
<1>0. ServerTypeOK
  BY DEF ServerInv
<1>1. ASSUME NEW n \in Lives, AcceptFails(n)
      PROVE  UNCHANGED <<running, hpc>> /\ Started' = Started
  BY <1>0, <1>1 DEF AcceptFails, NextAccept, Started, ServerTypeOK
<1>2. ASSUME NEW n \in Lives, NEW c \in Conns, Accepts(n, c)
      PROVE  UNCHANGED <<running, hpc>> /\ Started' = Started
  BY <1>0, <1>2 DEF Accepts, Started, ServerTypeOK
<1>3. ASSUME NEW n \in Lives, Enters(n)
      PROVE  UNCHANGED running /\ Started' = Started /\ Entered \subseteq Entered'
  BY <1>0, <1>3, EntersEffects DEF Started, ServerTypeOK
<1>4. ASSUME NEW c \in Conns, HandlerReads(c) \/ HandlerCloses(c)
      PROVE  UNCHANGED <<running, loop>> /\ Entered \subseteq Entered'
  BY <1>0, <1>4 DEF HandlerReads, HandlerCloses, Entered, ServerTypeOK
<1>. QED  BY <1>1, <1>2, <1>3, <1>4 DEF LoopStep, Entered, Started

\* A life begins with ServerStarts only, and a connection that is entered stays so.
LEMMA LivesBegin ==
    ASSUME ServerInv, ServerMove
    PROVE  Entered \subseteq Entered' /\ (~ServerStarts => Started' = Started)
<1>1. CASE ServerStarts
  BY <1>1 DEF ServerStarts, Entered
<1>2. CASE StopListens \/ StopSweeps
  BY <1>2 DEF StopListens, StopSweeps, Entered, Started
<1>3. CASE UNCHANGED serverVars
  BY <1>3 DEF serverVars, Entered, Started
<1>. QED  BY <1>1, <1>2, <1>3, GoroutinesKeepLives DEF ServerMove

\* In the first life identifiers stay unique.
LEMMA StepNumbered == ServerInv /\ Numbered /\ ServerMove => Numbered'
<1>. SUFFICES ASSUME ServerInv, Numbered, ServerMove, OneLife'
              PROVE  \A c \in Entered' : /\ clients'[cid'[c]] \in {c, NoConn}
                                         /\ \A n \in Started' : cid'[c] <= counter'[n]
  BY DEF Numbered
<1>. USE DEF GoLoop, GoHandler
<1>0. ServerTypeOK /\ \A c \in Entered : cid[c] \in ClientIds
  BY DEF ServerInv
<1>1. CASE ServerStarts
  <2>. PICK n \in Lives : loop[n] = "none" /\ loop' = [loop EXCEPT ![n] = "accepting"]
    BY <1>1 DEF ServerStarts
  <2>1. n \in Started' /\ n \notin Started /\ Started \subseteq Started'
    BY <1>0 DEF Started, ServerTypeOK
  <2>2. Started = {}
    BY <2>1 DEF OneLife
  <2>3. Entered' = {}
    BY <1>1, <2>2 DEF ServerStarts, ServerInv, Entered
  <2>. QED  BY <2>3
<1>2. CASE ~ServerStarts
  <2>0. Started' = Started
    BY <1>2, LivesBegin
  <2>a. \A c \in Entered : /\ clients[cid[c]] \in {c, NoConn}
                           /\ \A n \in Started : cid[c] <= counter[n]
    BY <2>0 DEF Numbered, OneLife
  <2>1. CASE StopListens \/ UNCHANGED serverVars
    BY <2>0, <2>a, <2>1 DEF StopListens, serverVars, Entered
  <2>2. CASE StopSweeps
    BY <1>0, <2>0, <2>a, <2>2 DEF StopSweeps, Entered
  <2>3. ASSUME NEW n \in Lives, AcceptFails(n) \/ \E c \in Conns : Accepts(n, c)
        PROVE  UNCHANGED <<clients, cid, hpc, counter>>
    BY <2>3 DEF AcceptFails, Accepts
  <2>4. CASE UNCHANGED <<clients, cid, hpc, counter>>
    BY <2>0, <2>a, <2>4 DEF Entered
  <2>5. ASSUME NEW n \in Lives, Enters(n)
        PROVE  \A d \in Entered' : /\ clients'[cid'[d]] \in {d, NoConn}
                                   /\ \A m \in Started' : cid'[d] <= counter'[m]
    <3>. DEFINE c == fresh[n]
                i == counter[n] + 1
    <3>1. /\ c \in Conns /\ c \notin Entered /\ i \in ClientIds /\ loop[n] = "accepted"
          /\ counter' = [counter EXCEPT ![n] = i]
          /\ cid' = [cid EXCEPT ![c] = i]
          /\ clients' = [clients EXCEPT ![i] = c]
          /\ Entered' = Entered \union {c}
      BY <2>5, EntersEffects
    <3>2. counter[n] \in Nat /\ i \in Nat /\ i > counter[n]
      BY <1>0 DEF ServerTypeOK
    <3>. HIDE DEF c, i
    <3>3. n \in Started /\ \A m \in Started : m = n
      BY <2>0, <3>1 DEF Started, OneLife
    <3>4. counter'[n] = i /\ \A j \in ClientIds : clients'[j] = IF j = i THEN c ELSE clients[j]
      BY <1>0, <3>1 DEF ServerTypeOK
    <3>5. cid'[c] = i /\ \A d \in Entered : d # c /\ cid'[d] = cid[d]
      BY <1>0, <3>1 DEF Entered, ServerTypeOK
    <3>6. \A d \in Entered : cid[d] <= counter[n] /\ cid[d] \in ClientIds /\ cid[d] \in Nat
      BY <1>0, <2>a, <3>3 DEF ClientIds
    <3>. QED  BY <2>0, <2>a, <3>1, <3>2, <3>3, <3>4, <3>5, <3>6
  <2>6. ASSUME NEW c \in Conns, HandlerReads(c) \/ HandlerCloses(c)
        PROVE  \A d \in Entered' : /\ clients'[cid'[d]] \in {d, NoConn}
                                   /\ \A n \in Started' : cid'[d] <= counter'[n]
    <3>1. /\ UNCHANGED <<cid, counter>> /\ c \in Entered
          /\ clients' \in {clients, [clients EXCEPT ![cid[c]] = NoConn]}
          /\ \E there \in {"reading", "ended"} : hpc' = [hpc EXCEPT ![c] = there]
      BY <2>6 DEF HandlerReads, HandlerCloses, Entered
    <3>2. Entered' = Entered
      BY <1>0, <3>1 DEF Entered, ServerTypeOK
    <3>. QED  BY <1>0, <2>0, <2>a, <3>1, <3>2 DEF ServerTypeOK
  <2>. QED
    BY <1>2, <2>1, <2>2, <2>3, <2>4, <2>5, <2>6 DEF ServerMove, LoopStep
<1>. QED  BY <1>1, <1>2

\* The pool has not run.
LEMMA InitPool == Init => Numbered /\ PoolInv
BY DEF Init, InitServer, Numbered, PoolInv, OneLife, Entered, Started

\* The steps of the framework and of the messages keep PoolInv.
LEMMA StepPool == TypeInv /\ Numbered /\ PoolInv /\ [Next]_vars => PoolInv'
<1>. SUFFICES ASSUME TypeInv, Numbered, PoolInv, [Next]_vars PROVE PoolInv'
  OBVIOUS
<1>. USE DEF Then, poolVars, frameworkVars
<1>0. FrameTypes /\ ServerInv /\ Entered \subseteq Entered'
      /\ (~ServerStarts => Started' = Started)
  BY StepMovesServer, LivesBegin DEF TypeInv
<1>a. ASSUME UNCHANGED serverVars PROVE Started' = Started /\ Entered' = Entered /\ running' = running
  BY <1>a DEF serverVars, Started, Entered
<1>1. CASE StartPool
  BY <1>0, <1>1, <1>a DEF StartPool, PoolInv, OneLife, FrameTypes
<1>2. CASE StartWheel \/ StartCheck \/ StartScan \/ StartFails
  BY <1>0, <1>2, <1>a
     DEF StartWheel, StartCheck, StartScan, StartFails, PoolInv, OneLife, FrameTypes
<1>3. CASE StartServer
  <2>. PICK n \in Lives : loop[n] = "none" /\ loop' = [loop EXCEPT ![n] = "accepting"]
    BY <1>3 DEF StartServer, ServerStarts, GoLoop
  <2>1. /\ running' = TRUE /\ ~running /\ fpc = "serve" /\ fpc' = "idle"
        /\ UNCHANGED poolVars
    BY <1>3 DEF StartServer, ServerStarts
  <2>2. poolState \in {"Running", "Stopped"}
    BY <1>0, <2>1 DEF PoolInv, FrameTypes
  <2>3. poolState = "Running" => Started' = {n}
    <3>1. poolState = "Running" => Started = {}
      BY <2>1 DEF PoolInv
    <3>2. Started' = Started \union {n}
      BY <1>0 DEF Started, ServerInv, ServerTypeOK
    <3>. QED  BY <3>1, <3>2
  <2>. QED  BY <1>0, <2>1, <2>2, <2>3 DEF PoolInv, OneLife
<1>4. CASE ShutdownScan
  BY <1>0, <1>4, <1>a DEF ShutdownScan, PoolInv, OneLife, FrameTypes
<1>5. CASE ShutdownServer
  <2>1. CASE StopListens /\ fpc' = "sweep" /\ running
    <3>1. Started' = Started /\ running' = FALSE /\ UNCHANGED poolVars /\ fpc = "stopServer"
      BY <1>5, <2>1 DEF ShutdownServer, StopListens, Started
    <3>. QED  BY <1>0, <2>1, <3>1 DEF PoolInv, OneLife
  <2>2. CASE UNCHANGED serverVars /\ fpc' = "stopWheel"
    BY <1>0, <1>5, <2>2, <1>a DEF ShutdownServer, PoolInv, OneLife
  <2>. QED  BY <1>5, <2>1, <2>2 DEF ShutdownServer
<1>6. CASE ShutdownSweeps
  <2>1. /\ Started' = Started /\ running' = running /\ UNCHANGED poolVars
        /\ fpc = "sweep" /\ fpc' = "stopWheel"
    BY <1>6 DEF ShutdownSweeps, StopSweeps, Started
  <2>. QED  BY <1>0, <2>1 DEF PoolInv, OneLife
<1>7. CASE ShutdownWheel \/ ShutdownWheelStops
  BY <1>0, <1>7, <1>a DEF ShutdownWheel, ShutdownWheelStops, PoolInv, OneLife
<1>8. CASE ShutdownPool
  BY <1>0, <1>8, <1>a DEF ShutdownPool, PoolInv, OneLife, FrameTypes
<1>9. CASE ShutdownReturns
  BY <1>0, <1>9, <1>a DEF ShutdownReturns, PoolInv, OneLife
<1>10. ASSUME NEW c \in Conns, MessageArrives(c) PROVE PoolInv'
  <2>1. c \in Entered /\ Started' = Started /\ running' = running
    BY <1>10 DEF MessageArrives, HandlerReads, Entered, Started
  <2>. QED  BY <1>0, <1>10, <2>1 DEF MessageArrives, PoolInv, OneLife
<1>11. ASSUME NEW c \in Conns, WorkerTakes(c) PROVE PoolInv'
  BY <1>0, <1>11, <1>a DEF WorkerTakes, PoolInv, OneLife
<1>12. ASSUME NEW c \in Conns, WorkerAnswers(c) PROVE PoolInv'
  <2>1. c \in handled /\ c \in Entered /\ poolState # "Stopped"
    BY <1>12 DEF WorkerAnswers, PoolInv
  <2>2. clients[cid[c]] \in {c, NoConn}
    BY <2>1 DEF Numbered, PoolInv
  <2>. QED  BY <1>0, <1>12, <1>a, <2>1, <2>2 DEF WorkerAnswers, PoolInv, OneLife
<1>13. CASE ServerStep
  <2>1. Started' = Started /\ running' = running
    BY <1>0, <1>13, GoroutinesKeepLives DEF ServerStep
  <2>. QED  BY <1>0, <1>13, <2>1 DEF ServerStep, PoolInv, OneLife
<1>14. CASE (\E t \in Timers : ScanStep(t)) \/ TickStep
  <2>1. UNCHANGED <<serverVars, poolVars, frameworkVars>>
    BY <1>14 DEF ScanStep, TickStep
  <2>. QED  BY <1>a, <2>1 DEF PoolInv, OneLife
<1>15. CASE UNCHANGED vars
  <2>1. UNCHANGED <<serverVars, poolVars, frameworkVars>>
    BY <1>15 DEF vars
  <2>. QED  BY <1>a, <2>1 DEF PoolInv, OneLife
<1>. QED
  BY <1>1, <1>2, <1>3, <1>4, <1>5, <1>6, <1>7, <1>8, <1>9, <1>10, <1>11, <1>12, <1>13, <1>14,
     <1>15 DEF Next, Start, Shutdown

\* No answer goes to the connection of another client.
THEOREM NoCrossedAnswerHolds == Spec => []NoCrossedAnswer
<1>1. PoolInv => NoCrossedAnswer
  BY DEF PoolInv, NoCrossedAnswer
<1>2. TypeInv /\ Numbered /\ [Next]_vars => Numbered'
  BY StepMovesServer, StepNumbered DEF TypeInv
<1>. QED  BY <1>1, <1>2, TypesInductive, InitPool, StepPool, PTL DEF Spec
=============================================================================
