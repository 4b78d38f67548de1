------------------------------ MODULE Transport ------------------------------
(***************************************************************************)
(* ipc/ipc_platform_linux.go: the server of one process, the connections   *)
(* that client processes make to it, and the two byte streams of each.     *)
(*                                                                         *)
(* A connection belongs to one caller at a time (see ConnectionPool) and   *)
(* makes its calls one after the other: IPCClientSend writes a message and *)
(* reads until an answer is there, IPCClientSendAsync only writes.  On the *)
(* server there are the accept loop, one goroutine per connection, the     *)
(* coroutine pool in which the messages are handled, and Stop.             *)
(*                                                                         *)
(* External: the sockets.  A read returns any prefix of what has arrived,  *)
(* a write that fails has put any prefix of its frame on the wire, and     *)
(* every read and write of a client may run into its deadline.             *)
(***************************************************************************)
EXTENDS Frames, SequencesExt

CONSTANTS
    Conns,        \* connections; one is never dialled twice
    NoConn,
    Messages,     \* requests, numbered
    Calls,        \* [Conns -> Seq(Messages)], what each connection is used for
    Sync,         \* the messages sent with IPCClientSend
    Size,         \* [Messages -> Nat], of a request
    ReplySizes    \* [Messages -> SUBSET Nat], what its answer may have

ASSUME TransportAssumption ==
    /\ IsFiniteSet(Conns)
    /\ NoConn \notin Conns
    /\ Messages \subseteq Nat \ {0}
    /\ Calls \in [Conns -> Seq(Messages)]
    /\ \A c, d \in Conns : \A i \in DOMAIN Calls[c], j \in DOMAIN Calls[d] :
          Calls[c][i] = Calls[d][j] => c = d /\ i = j
    /\ Sync \subseteq Messages
    /\ Size \in [Messages -> Nat \ {0}]
    /\ ReplySizes \in [Messages -> SUBSET (Nat \ {0})]

VARIABLES
    running, listening,   \* s.running; the listener is open
    spc,                  \* where Stop is
    acc, accConn,         \* where acceptLoop is and what it accepted
    backlog,              \* connections the kernel holds for Accept
    clients,              \* s.clients; its keys are the connections
    hpc,                  \* where each handleClient is
    sopen,                \* the server's end is open
    raw, re,              \* rawRecvBuf and reassembly of each connection
    job,                  \* what became of each message's handler
    got,                  \* ghost: the messages given to Enqueue
    cpc, copen,           \* where each connection's caller is; its end is open
    todo,                 \* the frames it has still to write
    done,                 \* the number of its calls that have ended
    crawBuf, plainBuf, cre,   \* rawBuf and plainBuf of ReadLoop, reassembly
    answers,              \* ghost: the request whose answer each call took, 0: none
    up, down              \* cells on the wire, to and from the server

listenVars == <<running, listening, spc, acc, accConn, backlog>>
handlerVars == <<clients, hpc, sopen, raw, re, got>>
callerVars == <<cpc, copen, todo, done, crawBuf, plainBuf, cre, answers>>
wireVars == <<up, down>>
vars == <<listenVars, handlerVars, job, callerVars, wireVars>>

Init ==
    /\ running = FALSE /\ listening = FALSE
    /\ spc = "idle"
    /\ acc = "off" /\ accConn = NoConn
    /\ backlog = {}
    /\ clients = {}
    /\ hpc = [c \in Conns |-> "none"]
    /\ sopen = [c \in Conns |-> FALSE]
    /\ raw = [c \in Conns |-> <<>>]
    /\ re = [c \in Conns |-> NoFragments]
    /\ job = [m \in Messages |-> "none"]
    /\ got = [c \in Conns |-> <<>>]
    /\ cpc = [c \in Conns |-> "new"]
    /\ copen = [c \in Conns |-> FALSE]
    /\ todo = [c \in Conns |-> <<>>]
    /\ done = [c \in Conns |-> 0]
    /\ crawBuf = [c \in Conns |-> <<>>]
    /\ plainBuf = [c \in Conns |-> <<>>]
    /\ cre = [c \in Conns |-> NoFragments]
    /\ answers = [m \in Messages |-> 0]
    /\ up = [c \in Conns |-> <<>>]
    /\ down = [c \in Conns |-> <<>>]

-----------------------------------------------------------------------------
\* The caller of a connection.

Message(c) == Calls[c][done[c] + 1]

\* Connect: the kernel completes it before the server accepts.
Dial(c) ==
    /\ cpc[c] = "new"
    /\ listening
    /\ cpc' = [cpc EXCEPT ![c] = "idle"]
    /\ copen' = [copen EXCEPT ![c] = TRUE]
    /\ sopen' = [sopen EXCEPT ![c] = TRUE]
    /\ backlog' = backlog \union {c}
    /\ UNCHANGED <<running, listening, spc, acc, accConn, clients, hpc, raw, re,
                   got, job, todo, done, crawBuf, plainBuf, cre, answers, wireVars>>

BeginCall(c) ==
    /\ cpc[c] = "idle"
    /\ done[c] < Len(Calls[c])
    /\ todo' = [todo EXCEPT ![c] = FramesOf(Content(Message(c), Size[Message(c)]))]
    /\ cpc' = [cpc EXCEPT ![c] = "write"]
    /\ UNCHANGED <<listenVars, handlerVars, job, copen, done, crawBuf, plainBuf,
                   cre, answers, wireVars>>

\* As WriteFrame below, but every frame counts as the last.
WriteFrameReturnsEarly(c) ==
    /\ cpc[c] = "write"
    /\ sopen[c]
    /\ up' = [up EXCEPT ![c] = @ \o Head(todo[c])]
    /\ todo' = [todo EXCEPT ![c] = Tail(@)]
    /\ cpc' = [cpc EXCEPT ![c] = IF Message(c) \in Sync THEN "read" ELSE "idle"]
    /\ done' = [done EXCEPT ![c] = IF Message(c) \in Sync THEN @ ELSE @ + 1]
    /\ UNCHANGED <<listenVars, handlerVars, job, copen, crawBuf, plainBuf, cre,
                   answers, down>>

\* One conn.Write.  After the last frame an asynchronous call is over, and a
\* synchronous one enters ReadLoop with empty buffers.
WriteFrame(c) ==
    /\ cpc[c] = "write"
    /\ sopen[c]
    /\ up' = [up EXCEPT ![c] = @ \o Head(todo[c])]
    /\ todo' = [todo EXCEPT ![c] = Tail(@)]
    /\ \/ /\ Len(todo[c]) > 1
          /\ UNCHANGED <<cpc, done>>
       \/ /\ Len(todo[c]) = 1
          /\ Message(c) \in Sync
          /\ cpc' = [cpc EXCEPT ![c] = "read"]
          /\ UNCHANGED done
       \/ /\ Len(todo[c]) = 1
          /\ Message(c) \notin Sync
          /\ cpc' = [cpc EXCEPT ![c] = "idle"]
          /\ done' = [done EXCEPT ![c] = @ + 1]
    /\ UNCHANGED <<listenVars, handlerVars, job, copen, crawBuf, plainBuf, cre,
                   answers, down>>

\* Release(conn, true), and Close of an idle connection.
HangUp(c) ==
    /\ cpc' = [cpc EXCEPT ![c] = "closed"]
    /\ copen' = [copen EXCEPT ![c] = FALSE]
    /\ todo' = [todo EXCEPT ![c] = <<>>]
    /\ crawBuf' = [crawBuf EXCEPT ![c] = <<>>]
    /\ plainBuf' = [plainBuf EXCEPT ![c] = <<>>]
    /\ down' = [down EXCEPT ![c] = <<>>]
    /\ UNCHANGED <<done, cre, answers>>

\* As below, but the connection goes back to the pool.
WriteFailsKeepsConn(c) ==
    /\ cpc[c] = "write"
    /\ \E n \in 0 .. Len(Head(todo[c])) - 1 :
          /\ n > 0 => sopen[c]
          /\ up' = [up EXCEPT ![c] = @ \o SubSeq(Head(todo[c]), 1, n)]
    /\ cpc' = [cpc EXCEPT ![c] = "idle"]
    /\ todo' = [todo EXCEPT ![c] = <<>>]
    /\ done' = [done EXCEPT ![c] = @ + 1]
    /\ UNCHANGED <<listenVars, handlerVars, job, copen, crawBuf, plainBuf, cre,
                   answers, down>>

\* The deadline, or a connection that the server has closed.
WriteFails(c) ==
    /\ cpc[c] = "write"
    /\ \E n \in 0 .. Len(Head(todo[c])) - 1 :
          /\ n > 0 => sopen[c]
          /\ up' = [up EXCEPT ![c] = @ \o SubSeq(Head(todo[c]), 1, n)]
    /\ HangUp(c)
    /\ UNCHANGED <<listenVars, handlerVars, job>>

CloseIdle(c) ==
    /\ cpc[c] = "idle"
    /\ HangUp(c)
    /\ UNCHANGED <<listenVars, handlerVars, job, up>>

ReadSome(c) ==
    /\ cpc[c] = "read"
    /\ \E n \in 1 .. Len(down[c]) :
          /\ crawBuf' = [crawBuf EXCEPT ![c] = @ \o SubSeq(down[c], 1, n)]
          /\ down' = [down EXCEPT ![c] = SubSeq(@, n + 1, Len(@))]
    /\ cpc' = [cpc EXCEPT ![c] = "frames"]
    /\ UNCHANGED <<listenVars, handlerVars, job, copen, todo, done, plainBuf, cre,
                   answers, up>>

\* As below, but the connection goes back to the pool.
ReadFailsKeepsConn(c) ==
    /\ cpc[c] = "read"
    /\ cpc' = [cpc EXCEPT ![c] = "idle"]
    /\ crawBuf' = [crawBuf EXCEPT ![c] = <<>>]
    /\ done' = [done EXCEPT ![c] = @ + 1]
    /\ UNCHANGED <<listenVars, handlerVars, job, copen, todo, plainBuf, cre,
                   answers, wireVars>>

\* The deadline, EOF or a reset.
ReadFails(c) ==
    /\ cpc[c] = "read"
    /\ HangUp(c)
    /\ UNCHANGED <<listenVars, handlerVars, job, up>>

\* One frame of the inner loop of ReadLoop.
ReadFrame(c) ==
    LET o == TakeFrame(crawBuf[c], cre[c]) IN
    /\ cpc[c] = "frames"
    /\ o.verdict \in {"message", "part"}
    /\ crawBuf' = [crawBuf EXCEPT ![c] = o.raw]
    /\ plainBuf' = [plainBuf EXCEPT ![c] = @ \o o.data]
    /\ cre' = [cre EXCEPT ![c] = o.re]
    /\ UNCHANGED <<listenVars, handlerVars, job, cpc, copen, todo, done, answers,
                   wireVars>>

\* DecodeResponse: the data begins with a whole answer; what follows it is
\* ignored, and which request it answers is not looked at.
Decodes(m, data) == \E n \in ReplySizes[m] : IsPrefix(Content(m, n), data)

\* No frame is left: the callback gets everything that has been assembled.
ReadAnswer(c) ==
    LET o == TakeFrame(crawBuf[c], cre[c]) IN
    /\ cpc[c] = "frames"
    /\ o.verdict = "more"
    /\ \/ \E m \in Messages :
             /\ Decodes(m, plainBuf[c])
             /\ answers' = [answers EXCEPT ![Message(c)] = m]
             /\ done' = [done EXCEPT ![c] = @ + 1]
             /\ cpc' = [cpc EXCEPT ![c] = "idle"]
             /\ crawBuf' = [crawBuf EXCEPT ![c] = <<>>]
       \/ /\ \A m \in Messages : ~Decodes(m, plainBuf[c])
          /\ cpc' = [cpc EXCEPT ![c] = "read"]
          /\ crawBuf' = [crawBuf EXCEPT ![c] = o.raw]
          /\ UNCHANGED <<answers, done>>
    /\ plainBuf' = [plainBuf EXCEPT ![c] = <<>>]
    /\ UNCHANGED <<listenVars, handlerVars, job, copen, todo, cre, wireVars>>

\* A frame that ReadLoop refuses ends the call.
ReadRefused(c) ==
    /\ cpc[c] = "frames"
    /\ TakeFrame(crawBuf[c], cre[c]).verdict = "bad"
    /\ HangUp(c)
    /\ UNCHANGED <<listenVars, handlerVars, job, up>>

CallerStep(c) ==
    \/ Dial(c) \/ BeginCall(c) \/ WriteFrame(c) \/ WriteFails(c) \/ CloseIdle(c)
    \/ ReadSome(c) \/ ReadFails(c) \/ ReadFrame(c) \/ ReadAnswer(c) \/ ReadRefused(c)

-----------------------------------------------------------------------------
\* Start and acceptLoop.

\* Start binds the name and starts the accept loop.
Start ==
    /\ ~running
    /\ spc = "idle"
    /\ running' = TRUE
    /\ listening' = TRUE
    /\ acc' = "top"
    /\ UNCHANGED <<spc, accConn, backlog, handlerVars, job, callerVars, wireVars>>

AcceptCheck ==
    /\ acc = "top"
    /\ acc' = IF running THEN "accept" ELSE "off"
    /\ UNCHANGED <<running, listening, spc, accConn, backlog, handlerVars, job,
                   callerVars, wireVars>>

Accept ==
    /\ acc = "accept"
    /\ \E c \in backlog : accConn' = c /\ backlog' = backlog \ {c}
    /\ acc' = "got"
    /\ UNCHANGED <<running, listening, spc, handlerVars, job, callerVars, wireVars>>

\* Accept returns an error once the listener is closed.
AcceptFails ==
    /\ acc = "accept"
    /\ ~listening
    /\ acc' = IF running THEN "top" ELSE "off"
    /\ UNCHANGED <<running, listening, spc, accConn, backlog, handlerVars, job,
                   callerVars, wireVars>>

\* The entry in s.clients and the goroutine; running is not looked at.
Register ==
    /\ acc = "got"
    /\ clients' = clients \union {accConn}
    /\ hpc' = [hpc EXCEPT ![accConn] = "top"]
    /\ accConn' = NoConn
    /\ acc' = "top"
    /\ UNCHANGED <<running, listening, spc, backlog, sopen, raw, re, got, job,
                   callerVars, wireVars>>

-----------------------------------------------------------------------------
\* handleClient, processFrames and closeClient.

\* The goroutine returns; its buffers, and what it has not read, are garbage.
Leave(c) ==
    /\ hpc' = [hpc EXCEPT ![c] = "gone"]
    /\ raw' = [raw EXCEPT ![c] = <<>>]
    /\ re' = [re EXCEPT ![c] = NoFragments]

\* The loop condition; leaving by it closes nothing.
HandlerCheck(c) ==
    /\ hpc[c] = "top"
    /\ \/ running /\ hpc' = [hpc EXCEPT ![c] = "read"] /\ UNCHANGED <<raw, re>>
       \/ ~running /\ Leave(c)
    /\ UNCHANGED <<listenVars, clients, sopen, got, job, callerVars, wireVars>>

HandlerRead(c) ==
    /\ hpc[c] = "read"
    /\ sopen[c]
    /\ \E n \in 1 .. Len(up[c]) :
          /\ raw' = [raw EXCEPT ![c] = @ \o SubSeq(up[c], 1, n)]
          /\ up' = [up EXCEPT ![c] = SubSeq(@, n + 1, Len(@))]
    /\ hpc' = [hpc EXCEPT ![c] = "frames"]
    /\ UNCHANGED <<listenVars, clients, sopen, re, got, job, callerVars, down>>

\* As below, without closeClient.
HandlerReadFailsLeaves(c) ==
    /\ hpc[c] = "read"
    /\ hpc' = [hpc EXCEPT ![c] = "gone"]
    /\ UNCHANGED <<listenVars, clients, sopen, raw, re, got, job, callerVars, wireVars>>

\* EOF, a connection that Stop has closed, or 30 seconds without data.
HandlerReadFails(c) ==
    /\ hpc[c] = "read"
    /\ hpc' = [hpc EXCEPT ![c] = "close"]
    /\ UNCHANGED <<listenVars, clients, sopen, raw, re, got, job, callerVars, wireVars>>

\* One turn of processFrames.  The result of Enqueue is not looked at: a full
\* or stopped pool drops the message.
HandlerFrame(c) ==
    LET o == TakeFrame(raw[c], re[c]) IN
    /\ hpc[c] = "frames"
    /\ raw' = [raw EXCEPT ![c] = o.raw]
    /\ re' = [re EXCEPT ![c] = o.re]
    /\ hpc' = [hpc EXCEPT ![c] = CASE o.verdict = "more" -> "top"
                                   [] o.verdict = "bad"  -> "close"
                                   [] OTHER -> "frames"]
    /\ \/ /\ o.verdict = "message"
          /\ got' = [got EXCEPT ![c] = Append(@, o.data)]
          /\ \E fate \in {"queued", "dropped"} :
                job' = [m \in Messages |->
                          IF o.data = Content(m, Size[m]) THEN fate ELSE job[m]]
       \/ o.verdict # "message" /\ UNCHANGED <<got, job>>
    /\ UNCHANGED <<listenVars, clients, sopen, callerVars, wireVars>>

HandlerUnregister(c) ==
    /\ hpc[c] = "close"
    /\ clients' = clients \ {c}
    /\ \/ c \in clients /\ hpc' = [hpc EXCEPT ![c] = "closing"] /\ UNCHANGED <<raw, re>>
       \/ c \notin clients /\ Leave(c)
    /\ UNCHANGED <<listenVars, sopen, got, job, callerVars, wireVars>>

HandlerClose(c) ==
    /\ hpc[c] = "closing"
    /\ sopen' = [sopen EXCEPT ![c] = FALSE]
    /\ up' = [up EXCEPT ![c] = <<>>]
    /\ Leave(c)
    /\ UNCHANGED <<listenVars, clients, got, job, callerVars, down>>

HandlerStep(c) ==
    \/ HandlerCheck(c) \/ HandlerRead(c) \/ HandlerReadFails(c)
    \/ HandlerFrame(c) \/ HandlerUnregister(c) \/ HandlerClose(c)

-----------------------------------------------------------------------------
\* The callback in the pool, and SendToClient for its answer.

Owner(m) == CHOOSE c \in Conns : \E i \in DOMAIN Calls[c] : Calls[c][i] = m

\* The request is handled; a synchronous one is answered, once (see
\* RequestHandler), to the entry that s.clients has at that moment.
RunJob(m) ==
    /\ job[m] = "queued"
    /\ job' = [job EXCEPT ![m] = CASE m \notin Sync -> "handled"
                                   [] m \in Sync /\ Owner(m) \in clients -> "found"
                                   [] OTHER -> "failed"]
    /\ UNCHANGED <<listenVars, handlerVars, callerVars, wireVars>>

\* All frames of the answer under writeMu.
SendToClient(m) ==
    LET c == Owner(m) IN
    /\ job[m] = "found"
    /\ \/ /\ sopen[c] /\ copen[c]
          /\ \E n \in ReplySizes[m] :
                down' = [down EXCEPT ![c] = @ \o FlattenSeq(FramesOf(Content(m, n)))]
          /\ job' = [job EXCEPT ![m] = "handled"]
       \/ /\ ~(sopen[c] /\ copen[c])
          /\ job' = [job EXCEPT ![m] = "failed"]
          /\ UNCHANGED down
    /\ UNCHANGED <<listenVars, handlerVars, callerVars, up>>

-----------------------------------------------------------------------------
\* Stop.

StopBegin ==
    /\ running
    /\ running' = FALSE
    /\ spc' = "listener"
    /\ UNCHANGED <<listening, acc, accConn, backlog, handlerVars, job, callerVars,
                   wireVars>>

\* The kernel resets what nobody has accepted.
StopListener ==
    /\ spc = "listener"
    /\ listening' = FALSE
    /\ backlog' = {}
    /\ sopen' = [c \in Conns |-> sopen[c] /\ c \notin backlog]
    /\ spc' = "sweep"
    /\ UNCHANGED <<running, acc, accConn, clients, hpc, raw, re, got, job,
                   callerVars, wireVars>>

\* As below, but the entries are only deleted.
StopSweepForgets ==
    /\ spc = "sweep"
    /\ clients' = {}
    /\ spc' = "done"
    /\ UNCHANGED <<running, listening, acc, accConn, backlog, hpc, sopen, raw, re,
                   got, job, callerVars, wireVars>>

\* Every connection of s.clients is closed, under s.mu.
StopSweep ==
    /\ spc = "sweep"
    /\ sopen' = [c \in Conns |-> sopen[c] /\ c \notin clients]
    /\ clients' = {}
    /\ spc' = "done"
    /\ UNCHANGED <<running, listening, acc, accConn, backlog, hpc, raw, re, got,
                   job, callerVars, wireVars>>

Next ==
    \/ Start \/ AcceptCheck \/ Accept \/ AcceptFails \/ Register
    \/ StopBegin \/ StopListener \/ StopSweep
    \/ \E c \in Conns : CallerStep(c) \/ HandlerStep(c)
    \/ \E m \in Messages : RunJob(m) \/ SendToClient(m)

Spec == Init /\ [][Next]_vars

\* The goroutines of the server run, and their reads have a deadline.  Nobody
\* has to dial, call, answer or stop.
Fairness ==
    /\ WF_vars(AcceptCheck \/ Accept \/ AcceptFails \/ Register)
    /\ WF_vars(StopListener \/ StopSweep)
    /\ \A c \in Conns : WF_vars(HandlerStep(c))

FairSpec == Spec /\ Fairness

-----------------------------------------------------------------------------
\* Every variable keeps its type, a handler exists from registration on, and
\* the map only holds connections that have one.
TypeOK ==
    /\ running \in BOOLEAN /\ listening \in BOOLEAN
    /\ spc \in {"idle", "listener", "sweep", "done"}
    /\ acc \in {"off", "top", "accept", "got"}
    /\ accConn \in Conns \union {NoConn}
    /\ acc = "got" <=> accConn # NoConn
    /\ backlog \subseteq Conns
    /\ hpc \in [Conns -> {"none", "top", "read", "frames", "close", "closing", "gone"}]
    /\ clients \subseteq {c \in Conns : hpc[c] # "none"}
    /\ sopen \in [Conns -> BOOLEAN]
    /\ job \in [Messages -> {"none", "queued", "dropped", "found", "handled", "failed"}]
    /\ cpc \in [Conns -> {"new", "idle", "write", "read", "frames", "closed"}]
    /\ \A c \in Conns : copen[c] <=> cpc[c] \notin {"new", "closed"}
    /\ \A c \in Conns : todo[c] # <<>> <=> cpc[c] = "write"
    /\ \A c \in Conns : done[c] \in 0 .. Len(Calls[c])
    /\ answers \in [Messages -> Messages \union {0}]

\* However the stream is cut up, whether writes fail half-way and callers come
\* and go, the server gives Enqueue exactly the messages that a connection
\* wrote, each once, whole and in order, up to where it gave the stream up.
ReceivedAsWritten ==
    \A c \in Conns : \A i \in DOMAIN got[c] :
        /\ i <= Len(Calls[c])
        /\ got[c][i] = Content(Calls[c][i], Size[Calls[c][i]])

\* A synchronous call that succeeds has the answer to its own request, though
\* connections are reused, answers come late, and nothing in DecodeResponse
\* compares the two: a connection on which an answer is outstanding is never
\* used again.
AnswerBelongsToCall == \A m \in Messages : answers[m] \in {0, m}

\* "Close all client connections" (ipc_server.go:34): once Stop has returned,
\* at most one connection is left that no goroutine is about to close, the one
\* that acceptLoop held between Accept and its entry in the map.
OneMayOutliveStop ==
    spc = "done" =>
        Cardinality({c \in Conns : sopen[c] /\ hpc[c] # "closing"}) <= 1

\* A connection whose caller has hung up is closed by the server as well:
\* neither the frames still buffered nor a Stop in between leave it open.
HungUpIsReleased ==
    \A c \in Conns :
        (running /\ c \in clients /\ ~copen[c]) ~> ~sopen[c]
=============================================================================
