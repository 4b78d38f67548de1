------------------------------- MODULE Contexts -------------------------------
(***************************************************************************)
(* The pooled timer contexts of component/context.go, and the timers of    *)
(* the wheel that cancel them (TimerTasks).                                *)
(*                                                                         *)
(* A user makes a context with ContextWithDeadline, registers a callback,  *)
(* activates the timer, may cancel, and gives the context back with        *)
(* ReleaseTimerContext; a goroutine of its own may Wait for the end, as    *)
(* the one that StdContext.Done starts does.  The timer of a user bears    *)
(* the user's name; other timers have callbacks of no interest here.       *)
(* Contexts have no parent: Init looks at a parent once and the two are    *)
(* not linked after that.                                                  *)
(***************************************************************************)
EXTENDS TimerTasks, Sequences

CONSTANTS
    Users,
    NoUser,
    Waiters,   \* the users that start a goroutine to wait for the end
    Objects,   \* TimerContext objects, enough for an allocation to find a new one
    NoObject

ASSUME ContextsAssumption ==
    /\ Users \subseteq Timers \ Repeated
    /\ Waiters \subseteq Users
    /\ NoUser \notin Users
    /\ NoObject \notin Objects
    /\ IsFiniteSet(Users)
    /\ IsFiniteSet(Objects)
    /\ Cardinality(Users) <= Cardinality(Objects)

VARIABLES
    upc, obj,   \* where each user is, and the context it made
    wpc,        \* where its waiting goroutine is
    pool,       \* timerPool: a stack, the last element goes out first
    err,        \* err of each object, with atomicDone
    callbacks,  \* the users whose callback an object holds
    timerId,    \* timerId of each object
    calls,      \* ghost: how often the callback of each user was taken to be run
    by,         \* ghost: who cancelled the object since it was last reset
    hit,        \* ghost: the users whose context has been cancelled
    escaped     \* ghost: timers past their check when their context was released

useVars == <<upc, obj, wpc>>
objectVars == <<err, callbacks, timerId>>
ctxGhosts == <<calls, by, hit, escaped>>
ctxVars == <<useVars, pool, objectVars, ctxGhosts>>
vars == <<timerVars, ctxVars>>

Init ==
    /\ InitTimers
    /\ upc = [u \in Users |-> "new"]
    /\ obj = [u \in Users |-> NoObject]
    /\ wpc = [u \in Users |-> "none"]
    /\ pool = <<>>
    /\ err = [o \in Objects |-> "none"]
    /\ callbacks = [o \in Objects |-> {}]
    /\ timerId = [o \in Objects |-> NoUser]
    /\ calls = [u \in Users |-> 0]
    /\ by = [o \in Objects |-> NoUser]
    /\ hit = {}
    /\ escaped = {}

Holding == {u \in Users : upc[u] \notin {"new", "released"}}
GoUser(u, there) == upc' = [upc EXCEPT ![u] = there]

Pooled(o) == \E i \in DOMAIN pool : pool[i] = o

\* A new object: one never made before, for those are pooled or held.
NewObject == CHOOSE o \in Objects : ~Pooled(o) /\ \A u \in Holding : obj[u] # o

-----------------------------------------------------------------------------
(* Faulty variants of the actions, used only to show that the properties   *)
(* can fail.  The specification uses none of them.                         *)

ReleaseTimerKeeps(u) ==
    /\ upc[u] \in {"active", "cancelled"}
    /\ GoUser(u, "resetting")
    /\ timerId' = [timerId EXCEPT ![obj[u]] = NoUser]
    /\ UNCHANGED <<timerVars, obj, wpc, pool, err, callbacks, ctxGhosts>>

CancelSilently(o, why, who) ==
    IF err[o] # "none"
    THEN UNCHANGED <<err, callbacks, calls, by, hit, wpc>>
    ELSE /\ err' = [err EXCEPT ![o] = why]
         /\ callbacks' = [callbacks EXCEPT ![o] = {}]
         /\ calls' = [u \in Users |-> IF u \in callbacks[o] THEN calls[u] + 1 ELSE calls[u]]
         /\ by' = [by EXCEPT ![o] = who]
         /\ hit' = hit \union {u \in Holding : obj[u] = o}
         /\ UNCHANGED wpc

-----------------------------------------------------------------------------
(* CancelContext.Cancel on object o, called by the code of user who: the   *)
(* first call wins; it records the reason, wakes the waiters and takes the *)
(* callbacks out, all under state.mu, and runs them afterwards.            *)
CancelContext(o, why, who) ==
    IF err[o] # "none"
    THEN UNCHANGED <<err, callbacks, calls, by, hit, wpc>>
    ELSE /\ err' = [err EXCEPT ![o] = why]
         /\ wpc' = [u \in Users |->
                      IF wpc[u] = "waiting" /\ obj[u] = o THEN "woken" ELSE wpc[u]]
         /\ callbacks' = [callbacks EXCEPT ![o] = {}]
         /\ calls' = [u \in Users |-> IF u \in callbacks[o] THEN calls[u] + 1 ELSE calls[u]]
         /\ by' = [by EXCEPT ![o] = who]
         /\ hit' = hit \union {u \in Holding : obj[u] = o}

-----------------------------------------------------------------------------
\* The user.

(* ContextWithDeadline: an object from the pool, which does not reset it,  *)
(* or a new one; Init clears the timer's number.                           *)
Make(u) ==
    /\ upc[u] = "new"
    /\ \E o \in Objects :
        /\ IF pool = <<>>
           THEN o = NewObject /\ UNCHANGED pool
           ELSE o = pool[Len(pool)] /\ pool' = SubSeq(pool, 1, Len(pool) - 1)
        /\ obj' = [obj EXCEPT ![u] = o]
        /\ timerId' = [timerId EXCEPT ![o] = NoUser]
        /\ hit' = IF err[o] # "none" THEN hit \union {u} ELSE hit
    /\ GoUser(u, "made")
    /\ UNCHANGED <<timerVars, wpc, err, callbacks, calls, by, escaped>>

RegisterCallback(u) ==
    /\ upc[u] = "made"
    /\ callbacks' = [callbacks EXCEPT ![obj[u]] = @ \union {u}]
    /\ GoUser(u, "registered")
    /\ UNCHANGED <<timerVars, obj, wpc, pool, err, timerId, ctxGhosts>>

\* ActivateTimer returns at once when the context is done, ...
ActivateDone(u) ==
    /\ upc[u] = "registered"
    /\ err[obj[u]] # "none"
    /\ GoUser(u, "active")
    /\ UNCHANGED <<timerVars, obj, wpc, pool, objectVars, ctxGhosts>>

\* ... cancels by itself when the deadline has passed, ...
ActivateTooLate(u) ==
    /\ upc[u] = "registered"
    /\ CancelContext(obj[u], "deadline", u)
    /\ GoUser(u, "active")
    /\ UNCHANGED <<timerVars, obj, pool, timerId, escaped>>

\* ... and else calls AddTaskAt ...
ActivateAdds(u) ==
    /\ upc[u] = "registered"
    /\ err[obj[u]] = "none"
    /\ AddCheck(u)
    /\ GoUser(u, IF stopped THEN "active" ELSE "adding")
    /\ UNCHANGED <<obj, wpc, pool, objectVars, ctxGhosts>>

\* ... and keeps the number it returns: none when the deadline passed meanwhile.
Activated(u) ==
    /\ upc[u] = "adding"
    /\ \/ AddLate(u) /\ UNCHANGED timerId
       \/ AddEnter(u) /\ timerId' = [timerId EXCEPT ![obj[u]] = u]
    /\ GoUser(u, "active")
    /\ UNCHANGED <<obj, wpc, pool, err, callbacks, ctxGhosts>>

\* The cancel function, of which a sync.Once lets the first call through.
Cancel(u) ==
    /\ upc[u] = "active"
    /\ CancelContext(obj[u], "canceled", u)
    /\ GoUser(u, "cancelled")
    /\ UNCHANGED <<timerVars, obj, pool, timerId, escaped>>

\* ReleaseTimerContext: Reset cancels the timer it knows of, ...
ReleaseTimer(u) ==
    /\ upc[u] \in {"active", "cancelled"}
    /\ GoUser(u, "resetting")
    /\ IF timerId[obj[u]] # NoUser
       THEN CancelTask(timerId[obj[u]])
       ELSE UNCHANGED timerVars
    /\ timerId' = [timerId EXCEPT ![obj[u]] = NoUser]
    /\ escaped' = IF tpc[u] \in {"passed", "callback"} THEN escaped \union {u} ELSE escaped
    /\ UNCHANGED <<obj, wpc, pool, err, callbacks, calls, by, hit>>

\* ... resets the state and puts the object into the pool.
Release(u) ==
    /\ upc[u] = "resetting"
    /\ err' = [err EXCEPT ![obj[u]] = "none"]
    /\ callbacks' = [callbacks EXCEPT ![obj[u]] = {}]
    /\ by' = [by EXCEPT ![obj[u]] = NoUser]
    /\ pool' = Append(pool, obj[u])
    /\ GoUser(u, "released")
    /\ UNCHANGED <<timerVars, obj, wpc, timerId, calls, hit, escaped>>

-----------------------------------------------------------------------------
\* The goroutine that waits, and goes on waiting when the context is released.

WaitBegins(u) ==
    /\ u \in Waiters
    /\ upc[u] \in {"registered", "adding", "active", "cancelled"}
    /\ wpc[u] = "none"
    /\ wpc' = [wpc EXCEPT ![u] = IF err[obj[u]] # "none" THEN "returned" ELSE "locking"]
    /\ UNCHANGED <<timerVars, upc, obj, pool, objectVars, ctxGhosts>>

\* Under state.mu, at first and whenever it has been woken.
WaitLooks(u) ==
    /\ wpc[u] \in {"locking", "woken"}
    /\ wpc' = [wpc EXCEPT ![u] = IF err[obj[u]] # "none" THEN "returned" ELSE "waiting"]
    /\ UNCHANGED <<timerVars, upc, obj, pool, objectVars, ctxGhosts>>

-----------------------------------------------------------------------------
\* The timer goroutine of a user cancels the object its closure keeps.
TimerCancels(u) ==
    /\ tpc[u] = "callback"
    /\ CancelContext(obj[u], "deadline", u)
    /\ CallbackReturns(u)
    /\ UNCHANGED <<upc, obj, pool, timerId, escaped>>

User(u) ==
    \/ Make(u) \/ RegisterCallback(u)
    \/ ActivateDone(u) \/ ActivateTooLate(u) \/ ActivateAdds(u) \/ Activated(u)
    \/ Cancel(u) \/ ReleaseTimer(u) \/ Release(u)
    \/ WaitBegins(u) \/ WaitLooks(u)
    \/ TimerCancels(u)

Next ==
    \/ \E u \in Users : User(u)
    \/ \E t \in Timers : TimerStep(t) /\ UNCHANGED ctxVars
    \/ (InitWheel \/ StopWheel \/ StopStep) /\ UNCHANGED ctxVars

\* Goroutines keep running, timers fire, and what a user has begun it ends; but
\* nobody has to make, cancel or release a context.
Fairness ==
    /\ \A u \in Users :
        /\ WF_vars(Activated(u))
        /\ WF_vars(WaitLooks(u))
        /\ WF_vars(TimerCancels(u))
        /\ WF_vars(TimerStep(u) /\ UNCHANGED ctxVars)

Spec == Init /\ [][Next]_vars
FairSpec == Spec /\ Fairness

-----------------------------------------------------------------------------
TypeOK ==
    /\ TimersTypeOK
    /\ upc \in [Users -> {"new", "made", "registered", "adding", "active", "cancelled",
                          "resetting", "released"}]
    /\ obj \in [Users -> Objects \union {NoObject}]
    /\ wpc \in [Users -> {"none", "locking", "waiting", "woken", "returned"}]
    /\ pool \in Seq(Objects)
    /\ err \in [Objects -> {"none", "canceled", "deadline"}]
    /\ callbacks \in [Objects -> SUBSET Users]
    /\ timerId \in [Objects -> Users \union {NoUser}]
    /\ calls \in [Users -> Nat]
    /\ by \in [Objects -> Users \union {NoUser}]
    /\ hit \subseteq Users
    /\ escaped \subseteq Users
    /\ \A i, j \in DOMAIN pool : pool[i] = pool[j] => i = j
    /\ \A u \in Holding : ~Pooled(obj[u]) /\ \A v \in Holding : obj[u] = obj[v] => u = v

\* The context of one user is cancelled by the code of another only by a timer
\* that was past its check, or had none to cancel, when the other released its
\* context: Reset catches every timer before that, and Cancel takes the callback
\* of a user at most once (TimerContext.Reset, AddTaskAt, CancelContext.Cancel).
StrayCancelIsLate ==
    /\ \A u \in Holding : by[obj[u]] \in {NoUser, u} \union escaped
    /\ \A u \in Users : calls[u] <= 1

\* A goroutine that waits for a context returns once the context is cancelled or
\* its timer is armed, unless the context is released or the wheel stopped first
\* (CancelContext.Wait, Cancel, ActivateTimer).
WaiterReturns ==
    \A u \in Users :
        (wpc[u] \in {"locking", "waiting", "woken"}
            /\ (u \in hit \/ tpc[u] \in {"entered", "waiting", "passed", "callback"}))
        ~> (wpc[u] = "returned" \/ upc[u] \in {"resetting", "released"} \/ stopped)
=============================================================================
