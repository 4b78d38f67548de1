--------------------------- MODULE ConnectionPool ---------------------------
(***************************************************************************)
(* ipc/connection_pool.go with its callers IPCClientSend and               *)
(* IPCClientSendAsync: the connections to one server, handed to one caller *)
(* at a time.                                                              *)
(*                                                                         *)
(* Goroutines: the callers (pc), the cleanup loop (cleaner) and the caller *)
(* of Stop (stopper).  Critical sections of mu are single actions.         *)
(***************************************************************************)
EXTENDS Integers, Sequences, FiniteSets

CONSTANTS
    Users,            \* goroutines that send through the pool
    Conns,            \* connection objects; an identity is reused once closed
    NoConn,
    MaxConnections,   \* config.MaxConnections
    MinIdle           \* config.MinIdleConnections

ASSUME ConnectionPoolAssumption ==
    /\ IsFiniteSet(Users)
    /\ NoConn \notin Conns
    /\ MaxConnections \in Nat \ {0}
    /\ MinIdle \in Nat

VARIABLES
    idle,         \* p.idle: taken from the end, expired from the front
    active,       \* p.active
    available,    \* tokens in the channel p.available, of capacity 1
    stopped,      \* p.stopped
    stopClosed,   \* p.stopCh is closed
    link,         \* what each connection is: "none", "open", "dead" (the
                  \* server has closed its end)
    pc, held,     \* where each caller is and the connection it owns
    cleaner,      \* cleanupLoop: "loop" or "exited"
    stopper       \* where Stop is

connVars == <<idle, active, available, stopped, stopClosed, link, pc, held,
              cleaner, stopper>>

\* IPCConnection.IsValid: the connection has not been closed on this side.
\* Nothing looks at the other end.
IsValid(c) == link[c] # "none"

InIdle(c) == \E i \in DOMAIN idle : idle[i] = c

Init ==
    /\ idle = <<>>
    /\ active = 0
    /\ available = 0
    /\ stopped = FALSE
    /\ stopClosed = FALSE
    /\ link = [c \in Conns |-> "none"]
    /\ pc = [u \in Users |-> "out"]
    /\ held = [u \in Users |-> NoConn]
    /\ cleaner = "loop"
    /\ stopper = "off"

-----------------------------------------------------------------------------
(* Faulty variants of the actions, used only to show that the properties   *)
(* below can fail.  The specification uses none of them.                   *)

PopIdleKeeps(u) ==
    \E i \in DOMAIN idle :
        /\ IsValid(idle[i])
        /\ \A j \in DOMAIN idle : j > i => ~IsValid(idle[j])
        /\ held' = [held EXCEPT ![u] = idle[i]]
        /\ active' = active + 1
        /\ pc' = [pc EXCEPT ![u] = "using"]
        /\ UNCHANGED idle

ReserveSlotOneMore(u) ==
    /\ \A i \in DOMAIN idle : ~IsValid(idle[i])
    /\ active <= MaxConnections
    /\ idle' = <<>>
    /\ active' = active + 1
    /\ pc' = [pc EXCEPT ![u] = "creating"]
    /\ UNCHANGED held

CreateFailSilently(u) ==
    /\ pc[u] = "creating"
    /\ active' = active - 1
    /\ pc' = [pc EXCEPT ![u] = "out"]
    /\ UNCHANGED <<idle, available, stopped, stopClosed, link, held, cleaner, stopper>>

\* A broken connection is dropped but not closed.
UseAndReleaseForgets(u, shouldReconnect) ==
    /\ pc[u] = "using"
    /\ link[held[u]] = "dead" => shouldReconnect
    /\ IF stopped \/ shouldReconnect
       THEN UNCHANGED <<idle, link>>
       ELSE idle' = Append(idle, held[u]) /\ UNCHANGED link
    /\ active' = active - 1
    /\ available' = IF stopped THEN available ELSE 1
    /\ held' = [held EXCEPT ![u] = NoConn]
    /\ pc' = [pc EXCEPT ![u] = "out"]
    /\ UNCHANGED <<stopped, stopClosed, cleaner, stopper>>

\* Release does not look at p.stopped.
StopDrainNoClose ==
    /\ stopper = "wait"
    /\ cleaner = "exited"
    /\ idle' = <<>>
    /\ stopper' = "done"
    /\ UNCHANGED <<active, available, stopped, stopClosed, link, pc, held, cleaner>>

-----------------------------------------------------------------------------
\* Acquire.

\* The loop over p.idle: the last valid connection; the invalid ones above it
\* are closed and dropped.
PopIdle(u) ==
    \E i \in DOMAIN idle :
        /\ IsValid(idle[i])
        /\ \A j \in DOMAIN idle : j > i => ~IsValid(idle[j])
        /\ held' = [held EXCEPT ![u] = idle[i]]
        /\ idle' = SubSeq(idle, 1, i - 1)
        /\ active' = active + 1
        /\ pc' = [pc EXCEPT ![u] = "using"]

NothingIdle == \A i \in DOMAIN idle : ~IsValid(idle[i])

\* active is raised under mu, createConnection runs after the unlock.
ReserveSlot(u) ==
    /\ NothingIdle
    /\ active < MaxConnections
    /\ idle' = <<>>
    /\ active' = active + 1
    /\ pc' = [pc EXCEPT ![u] = "creating"]
    /\ UNCHANGED held

AtCapacity(u) ==
    /\ NothingIdle
    /\ active >= MaxConnections
    /\ idle' = <<>>
    /\ pc' = [pc EXCEPT ![u] = "waiting"]
    /\ UNCHANGED <<active, held>>

\* The critical section that opens Acquire, and its copy in the wait loop.
AcquireLocked(u) ==
    /\ pc[u] \in {"out", "woken"}
    /\ ~stopped
    /\ PopIdle(u) \/ ReserveSlot(u) \/ AtCapacity(u)
    /\ UNCHANGED <<available, stopped, stopClosed, link, cleaner, stopper>>

\* Every exit of Acquire with an error: stopped seen under mu, the timer, the
\* closed stopCh.
AcquireError(u) ==
    /\ \/ pc[u] \in {"out", "woken"} /\ stopped
       \/ pc[u] = "waiting"
    /\ pc' = [pc EXCEPT ![u] = "out"]
    /\ UNCHANGED <<idle, active, available, stopped, stopClosed, link, held,
                   cleaner, stopper>>

CreateOk(u) ==
    /\ pc[u] = "creating"
    /\ \E c \in Conns :
          /\ link[c] = "none"
          /\ link' = [link EXCEPT ![c] = "open"]
          /\ held' = [held EXCEPT ![u] = c]
    /\ pc' = [pc EXCEPT ![u] = "using"]
    /\ UNCHANGED <<idle, active, available, stopped, stopClosed, cleaner, stopper>>

\* The slot is given back without mu ...
CreateFail(u) ==
    /\ pc[u] = "creating"
    /\ active' = active - 1
    /\ pc' = [pc EXCEPT ![u] = "failed"]
    /\ UNCHANGED <<idle, available, stopped, stopClosed, link, held, cleaner, stopper>>

\* ... and then a token offered, which is lost when one is already there.
CreateNotify(u) ==
    /\ pc[u] = "failed"
    /\ available' = 1
    /\ pc' = [pc EXCEPT ![u] = "out"]
    /\ UNCHANGED <<idle, active, stopped, stopClosed, link, held, cleaner, stopper>>

TakeToken(u) ==
    /\ pc[u] = "waiting"
    /\ available = 1
    /\ available' = 0
    /\ pc' = [pc EXCEPT ![u] = IF stopped THEN "out" ELSE "woken"]
    /\ UNCHANGED <<idle, active, stopped, stopClosed, link, held, cleaner, stopper>>

-----------------------------------------------------------------------------
\* Between Acquire and Release: Write, and ReadLoop in the synchronous case.
\* shouldReconnect is the outcome; a dead link always fails, a live one may
\* time out.
UseAndRelease(u, shouldReconnect) ==
    /\ pc[u] = "using"
    /\ link[held[u]] = "dead" => shouldReconnect
    /\ IF stopped \/ shouldReconnect \/ ~IsValid(held[u])
       THEN /\ link' = [link EXCEPT ![held[u]] = "none"]
            /\ UNCHANGED idle
       ELSE /\ idle' = Append(idle, held[u])
            /\ UNCHANGED link
    /\ active' = active - 1
    /\ available' = IF stopped THEN available ELSE 1
    /\ held' = [held EXCEPT ![u] = NoConn]
    /\ pc' = [pc EXCEPT ![u] = "out"]
    /\ UNCHANGED <<stopped, stopClosed, cleaner, stopper>>

\* handleClient closes a client it has heard nothing from for 30 seconds,
\* and Server.Stop closes them all; this side is not told.
PeerClose(c) ==
    /\ link[c] = "open"
    /\ link' = [link EXCEPT ![c] = "dead"]
    /\ UNCHANGED <<idle, active, available, stopped, stopClosed, pc, held,
                   cleaner, stopper>>

-----------------------------------------------------------------------------
\* cleanupLoop and cleanupIdleConnections.  Release stamps and appends under
\* mu, so the expired connections are the first k of idle.

Smaller(a, b) == IF a < b THEN a ELSE b
Removable(k) ==
    IF Len(idle) + active > MinIdle
    THEN Smaller(k, Len(idle) + active - MinIdle) ELSE 0

Cleanup ==
    /\ cleaner = "loop"
    /\ \E k \in 1..Len(idle) :
          /\ idle' = SubSeq(idle, Removable(k) + 1, Len(idle))
          /\ link' = [c \in Conns |-> IF \E i \in 1..Removable(k) : idle[i] = c
                                      THEN "none" ELSE link[c]]
    /\ UNCHANGED <<active, available, stopped, stopClosed, pc, held, cleaner, stopper>>

CleanerExit ==
    /\ cleaner = "loop"
    /\ stopClosed
    /\ cleaner' = "exited"
    /\ UNCHANGED <<idle, active, available, stopped, stopClosed, link, pc, held, stopper>>

-----------------------------------------------------------------------------
\* Stop.  A second caller fails the compare-and-swap and returns.

StopBegin ==
    /\ ~stopped
    /\ stopped' = TRUE
    /\ stopper' = "close"
    /\ UNCHANGED <<idle, active, available, stopClosed, link, pc, held, cleaner>>

StopClose ==
    /\ stopper = "close"
    /\ stopClosed' = TRUE
    /\ stopper' = "notify"
    /\ UNCHANGED <<idle, active, available, stopped, link, pc, held, cleaner>>

StopNotify ==
    /\ stopper = "notify"
    /\ available' = 1
    /\ stopper' = "wait"
    /\ UNCHANGED <<idle, active, stopped, stopClosed, link, pc, held, cleaner>>

\* wg.Wait, then the idle connections are closed under mu.  active is left to
\* the Releases still to come.
StopDrain ==
    /\ stopper = "wait"
    /\ cleaner = "exited"
    /\ link' = [c \in Conns |-> IF InIdle(c) THEN "none" ELSE link[c]]
    /\ idle' = <<>>
    /\ stopper' = "done"
    /\ UNCHANGED <<active, available, stopped, stopClosed, pc, held, cleaner>>

-----------------------------------------------------------------------------
StopStep == StopClose \/ StopNotify \/ StopDrain

Release(u) == \E b \in BOOLEAN : UseAndRelease(u, b)
CreateStep(u) == CreateOk(u) \/ CreateFail(u)

Next ==
    \/ \E u \in Users :
          \/ AcquireLocked(u) \/ AcquireError(u) \/ CreateStep(u)
          \/ CreateNotify(u) \/ TakeToken(u) \/ Release(u)
    \/ \E c \in Conns : PeerClose(c)
    \/ Cleanup \/ CleanerExit
    \/ StopBegin \/ StopStep

Spec == Init /\ [][Next]_connVars

\* Write, ReadLoop and Dial carry deadlines, so a caller that owns a slot
\* gives it back; the goroutines of the pool keep running.  Nobody has to
\* acquire, and no fairness is assumed of the token.
Fairness ==
    /\ \A u \in Users : WF_connVars(CreateStep(u)) /\ WF_connVars(Release(u))
    /\ WF_connVars(CleanerExit)
    /\ WF_connVars(StopStep)

FairSpec == Spec /\ Fairness

-----------------------------------------------------------------------------
\* Every variable keeps its type, and exactly the callers past Acquire own a
\* connection.
TypeOK ==
    /\ idle \in Seq(Conns)
    /\ active \in Int
    /\ available \in {0, 1}
    /\ stopped \in BOOLEAN
    /\ stopClosed \in BOOLEAN
    /\ link \in [Conns -> {"none", "open", "dead"}]
    /\ pc \in [Users -> {"out", "waiting", "woken", "creating", "failed", "using"}]
    /\ held \in [Users -> Conns \union {NoConn}]
    /\ \A u \in Users : held[u] \in Conns <=> pc[u] = "using"
    /\ cleaner \in {"loop", "exited"}
    /\ stopper \in {"off", "close", "notify", "wait", "done"}

Slots == {u \in Users : pc[u] \in {"creating", "using"}}

\* The counter that Acquire tests is the number of callers that are dialling
\* or own a connection, also after Stop: it never drifts, although failures
\* lower it without the lock ("active would become negative", line 243).
ActiveAgrees == active = Cardinality(Slots)

\* Idle and active connections together never exceed MaxConnections, although
\* createConnection runs outside the lock.
CapacityBound == Len(idle) + active <= MaxConnections

\* A connection has one owner: it is in the idle list once, or held by one
\* caller, and never both.
Exclusive ==
    /\ \A i, j \in DOMAIN idle : idle[i] = idle[j] => i = j
    /\ \A u \in Users : \A i \in DOMAIN idle : held[u] # idle[i]
    /\ \A u, v \in Users : u # v /\ held[u] \in Conns => held[u] # held[v]

\* No connection is lost: one that is not closed is idle or held, and the
\* pool hands out and keeps only ones that are not closed.
NoLeak ==
    \A c \in Conns : link[c] # "none" <=> InIdle(c) \/ \E u \in Users : held[u] = c

\* A release that finds the pool stopped closes its connection, so nothing
\* is left in the idle list behind the back of Stop.
NothingIdleAfterStop == stopper = "done" => idle = <<>>

\* The token is not lost when it matters most: once nobody owns a slot, and
\* so nobody will release, a waiter has a token to take, or another caller is
\* awake or about to offer one.
LastReleaseWakes ==
    /\ ~stopped
    /\ active = 0
    /\ \E u \in Users : pc[u] = "waiting"
    => available = 1 \/ \E u \in Users : pc[u] \in {"woken", "failed"}

\* After Stop every connection is closed, those in the hands of callers or
\* still being dialled included.
StopClosesAll == stopped ~> [](\A c \in Conns : link[c] = "none")
=============================================================================
