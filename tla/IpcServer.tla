------------------------------ MODULE IpcServer ------------------------------
(***************************************************************************)
(* The server of ipc/ipc_platform_linux.go that can be started again after *)
(* a Stop: Start, acceptLoop, handleClient, closeClient, SendToClient and  *)
(* Stop, and which connection each of them touches.  What travels on a     *)
(* connection is the business of Transport.                                *)
(*                                                                         *)
(* The n-th Start that succeeds makes listener n and accept loop n, whose  *)
(* clientIdCounter is its own.  A loop that finds the server running again *)
(* after its listener was closed goes on with the new listener.            *)
(***************************************************************************)
EXTENDS Integers, FiniteSets

CONSTANTS
    Conns,     \* connections that clients make
    NoConn,
    MaxStarts  \* bound: how often the server starts

ASSUME IpcServerAssumption ==
    /\ NoConn \notin Conns
    /\ IsFiniteSet(Conns)
    /\ MaxStarts \in Nat

Lives == 1..MaxStarts
ClientIds == 1..Cardinality(Conns)

VARIABLES
    running,
    listener,   \* s.listener, 0 for none
    listening,  \* the listeners that are not closed
    clients,    \* s.clients: the connection entered under each id
    loop,       \* where each accept loop is
    on,         \* the listener it accepts from, else 0
    fresh,      \* the connection it has accepted and not entered
    counter,    \* its clientIdCounter
    opened,     \* the connections that are open on this side
    cid,        \* the id of each connection, 0 for none
    hpc,        \* where its handler is
    foreign,    \* ghost: a handler has closed the connection of another
    late,       \* ghost: the connections entered when the server did not run
    overlapped  \* ghost: a Start has found goroutines of an earlier life

serverVars == <<running, listener, listening, clients, loop, on, fresh, counter, opened, cid,
                hpc, foreign, late, overlapped>>

InitServer ==
    /\ running = FALSE
    /\ listener = 0
    /\ listening = {}
    /\ clients = [i \in ClientIds |-> NoConn]
    /\ loop = [n \in Lives |-> "none"]
    /\ on = [n \in Lives |-> 0]
    /\ fresh = [n \in Lives |-> NoConn]
    /\ counter = [n \in Lives |-> 0]
    /\ opened = {}
    /\ cid = [c \in Conns |-> 0]
    /\ hpc = [c \in Conns |-> "none"]
    /\ foreign = FALSE
    /\ late = {}
    /\ overlapped = FALSE

GoLoop(n, there) == loop' = [loop EXCEPT ![n] = there]
GoHandler(c, there) == hpc' = [hpc EXCEPT ![c] = there]

\* The goroutines of the server: all of them have ended.
ServerQuiet ==
    /\ \A n \in Lives : loop[n] \in {"none", "ended"}
    /\ \A c \in Conns : hpc[c] \in {"none", "ended"}

-----------------------------------------------------------------------------
(* Faulty variants of the actions, used only to show that the properties   *)
(* can fail.  The specification uses none of them.                         *)

EntersWithoutCounting(n) ==
    /\ loop[n] = "accepted"
    /\ LET c == fresh[n] IN
        /\ cid' = [cid EXCEPT ![c] = 1]
        /\ clients' = [clients EXCEPT ![1] = c]
        /\ GoHandler(c, IF running THEN "reading" ELSE "ended")
        /\ late' = IF running THEN late ELSE late \union {c}
    /\ fresh' = [fresh EXCEPT ![n] = NoConn]
    /\ GoLoop(n, IF running THEN "accepting" ELSE "ended")
    /\ on' = [on EXCEPT ![n] = IF running THEN listener ELSE 0]
    /\ UNCHANGED <<running, listener, listening, counter, opened, foreign, overlapped>>

StopKeepsListener ==
    /\ running' = FALSE
    /\ UNCHANGED <<listener, listening, clients, loop, on, fresh, counter, opened, cid, hpc,
                   foreign, late, overlapped>>

-----------------------------------------------------------------------------
\* Start of a server that does not run; the new loop looks at once.
ServerStarts ==
    /\ \E n \in Lives :
        /\ loop[n] = "none"
        /\ \A m \in Lives : m < n => loop[m] # "none"
        /\ listener' = n
        /\ listening' = listening \union {n}
        /\ GoLoop(n, "accepting")
        /\ on' = [on EXCEPT ![n] = n]
    /\ running' = TRUE
    /\ overlapped' = (overlapped \/ ~ServerQuiet)
    /\ UNCHANGED <<clients, fresh, counter, opened, cid, hpc, foreign, late>>

\* Stop: the flag and the listener ...
StopListens ==
    /\ running' = FALSE
    /\ listening' = listening \ {listener}
    /\ UNCHANGED <<listener, clients, loop, on, fresh, counter, opened, cid, hpc, foreign,
                   late, overlapped>>

\* ... and, under s.mu, every connection in the map.
StopSweeps ==
    /\ clients' = [i \in ClientIds |-> NoConn]
    /\ opened' = opened \ {clients[i] : i \in ClientIds}
    /\ UNCHANGED <<running, listener, listening, loop, on, fresh, counter, cid, hpc, foreign,
                   late, overlapped>>

-----------------------------------------------------------------------------
\* Where an accept loop is after it has looked at running: it accepts from the
\* listener the server has then, or ends.
NextAccept(n) ==
    IF running
    THEN GoLoop(n, "accepting") /\ on' = [on EXCEPT ![n] = listener]
    ELSE GoLoop(n, "ended") /\ on' = [on EXCEPT ![n] = 0]

\* Accept fails once its listener is closed; the loop goes on if running is set.
AcceptFails(n) ==
    /\ loop[n] = "accepting"
    /\ on[n] \notin listening
    /\ NextAccept(n)
    /\ UNCHANGED <<running, listener, listening, clients, fresh, counter, opened, cid, hpc,
                   foreign, late, overlapped>>

\* A client has connected.
Accepts(n, c) ==
    /\ loop[n] = "accepting"
    /\ on[n] \in listening
    /\ hpc[c] = "none"
    /\ c \notin opened
    /\ opened' = opened \union {c}
    /\ fresh' = [fresh EXCEPT ![n] = c]
    /\ on' = [on EXCEPT ![n] = 0]
    /\ GoLoop(n, "accepted")
    /\ UNCHANGED <<running, listener, listening, clients, counter, cid, hpc, foreign, late,
                   overlapped>>

\* It gets the next id and is entered under s.mu, and its handler starts; the loop
\* goes on, and the handler reads, if running is set.
Enters(n) ==
    /\ loop[n] = "accepted"
    /\ LET c == fresh[n]
           i == counter[n] + 1
       IN  /\ counter' = [counter EXCEPT ![n] = i]
           /\ cid' = [cid EXCEPT ![c] = i]
           /\ clients' = [clients EXCEPT ![i] = c]
           /\ GoHandler(c, IF running THEN "reading" ELSE "ended")
           /\ late' = IF running THEN late ELSE late \union {c}
    /\ fresh' = [fresh EXCEPT ![n] = NoConn]
    /\ NextAccept(n)
    /\ UNCHANGED <<running, listener, listening, opened, foreign, overlapped>>

-----------------------------------------------------------------------------
\* Bytes arrive, and the handler looks at running before it reads again.
HandlerReads(c) ==
    /\ hpc[c] = "reading"
    /\ c \in opened
    /\ GoHandler(c, IF running THEN "reading" ELSE "ended")
    /\ UNCHANGED <<running, listener, listening, clients, loop, on, fresh, counter, opened, cid,
                   foreign, late, overlapped>>

(* The read fails, by a close here or there or by its deadline, or a frame *)
(* is refused; closeClient then closes the connection entered under the    *)
(* id, whichever it is by now.  Any time may pass between the two: a       *)
(* handler whose read has failed and that has not closed is still reading. *)
HandlerCloses(c) ==
    /\ hpc[c] = "reading"
    /\ LET d == clients[cid[c]] IN
        /\ opened' = opened \ {d}
        /\ foreign' = (foreign \/ d \notin {c, NoConn})
    /\ clients' = [clients EXCEPT ![cid[c]] = NoConn]
    /\ GoHandler(c, "ended")
    /\ UNCHANGED <<running, listener, listening, loop, on, fresh, counter, cid, late, overlapped>>

LoopStep(n) == AcceptFails(n) \/ Enters(n) \/ \E c \in Conns : Accepts(n, c)

-----------------------------------------------------------------------------
ServerTypeOK ==
    /\ running \in BOOLEAN
    /\ listener \in 0..MaxStarts
    /\ listening \subseteq Lives
    /\ clients \in [ClientIds -> Conns \union {NoConn}]
    /\ loop \in [Lives -> {"none", "accepting", "accepted", "ended"}]
    /\ on \in [Lives -> 0..MaxStarts]
    /\ fresh \in [Lives -> Conns \union {NoConn}]
    /\ counter \in [Lives -> 0..Cardinality(Conns)]
    /\ opened \subseteq Conns
    /\ cid \in [Conns -> 0..Cardinality(Conns)]
    /\ hpc \in [Conns -> {"none", "reading", "ended"}]
    /\ foreign \in BOOLEAN
    /\ late \subseteq Conns
    /\ overlapped \in BOOLEAN

\* Unless a Start has found goroutines of an earlier life, no handler closes the
\* connection of another, and a handler that has ended leaves its own connection
\* closed or in the map, where the next Stop finds it, except one that was entered
\* after that Stop: ids are unique in a life, and an id that comes again names
\* another connection (acceptLoop, handleClient, closeClient, Stop).
ForeignCloseNeedsOverlap ==
    overlapped \/ ( /\ ~foreign
                    /\ \A c \in Conns \ late :
                         hpc[c] = "ended" /\ c \in opened => \E i \in ClientIds : clients[i] = c)
=============================================================================
