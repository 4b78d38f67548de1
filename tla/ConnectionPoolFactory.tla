------------------------ MODULE ConnectionPoolFactory ------------------------
(***************************************************************************)
(* The registry of connection pools, ipc/connection_pool_factory.go:       *)
(* GetPool, RemovePool and Shutdown by callers that run at the same time.  *)
(*                                                                         *)
(* GetPool looks the server up without the lock and, when it finds         *)
(* nothing, again with the lock.  RemovePool never takes the lock.         *)
(* Shutdown assigns a new sync.Map to the field that both read without     *)
(* synchronisation: a look-up at that moment hits or misses.               *)
(***************************************************************************)
EXTENDS Naturals, FiniteSets

CONSTANTS
    Callers,
    Servers,
    Pools,   \* ConnectionPool objects; one that nobody refers to is made anew
    None

ASSUME FactoryAssumption == None \notin Callers \union Servers \union Pools

VARIABLES
    pools,   \* the map from servers to pools
    mu,      \* the caller that holds f.mu
    pc,      \* where each caller is
    server,  \* the server it asked for
    got,     \* the pool it has in its hands
    left,    \* the servers Range has not visited
    open,    \* the pools that have been made and not stopped
    of       \* the server of each pool

vars == <<pools, mu, pc, server, got, left, open, of>>

Init ==
    /\ pools = [s \in Servers |-> None]
    /\ mu = None
    /\ pc = [c \in Callers |-> "idle"]
    /\ server = [c \in Callers |-> None]
    /\ got = [c \in Callers |-> None]
    /\ left = {}
    /\ open = {}
    /\ of = [p \in Pools |-> None]

Go(c, there) == pc' = [pc EXCEPT ![c] = there]
Hold(c, p) == got' = [got EXCEPT ![c] = p]

\* What a look-up without the lock may find.
Lookups(s) ==
    {pools[s]} \union IF \E c \in Callers : pc[c] = "clearing" THEN {None} ELSE {}

\* NewConnectionPool makes an object nobody refers to.
Fresh == {p \in Pools \ open : (\A s \in Servers : pools[s] # p) /\ (\A c \in Callers : got[c] # p)}

-----------------------------------------------------------------------------
(* Faulty variants of the actions, used only to show that the properties   *)
(* can fail.  The specification uses none of them.                         *)

GetCreatesAtOnce(c) ==
    /\ pc[c] = "locked"
    /\ \E p \in Fresh :
        /\ Hold(c, p)
        /\ open' = open \union {p}
        /\ of' = [of EXCEPT ![p] = server[c]]
    /\ Go(c, "storing")
    /\ UNCHANGED <<pools, mu, server, left>>

ShutdownKeepsMap(c) ==
    /\ pc[c] = "clearing"
    /\ mu' = None
    /\ Go(c, "idle")
    /\ UNCHANGED <<pools, server, got, left, open, of>>

-----------------------------------------------------------------------------
\* GetPool looks without the lock, ...
GetLooks(c) ==
    /\ pc[c] = "idle"
    /\ \E s \in Servers : \E p \in Lookups(s) :
        /\ server' = [server EXCEPT ![c] = s]
        /\ Hold(c, p)
        /\ Go(c, IF p = None THEN "locking" ELSE "got")
    /\ UNCHANGED <<pools, mu, left, open, of>>

\* ... waits for it ...
GetLocks(c) ==
    /\ pc[c] = "locking"
    /\ mu = None
    /\ mu' = c
    /\ Go(c, "locked")
    /\ UNCHANGED <<pools, server, got, left, open, of>>

\* ... and looks again; it makes a pool when there is still none, ...
GetLooksAgain(c) ==
    /\ pc[c] = "locked"
    /\ \/ /\ pools[server[c]] # None
          /\ Hold(c, pools[server[c]])
          /\ mu' = None
          /\ Go(c, "got")
          /\ UNCHANGED <<open, of>>
       \/ /\ pools[server[c]] = None
          /\ \E p \in Fresh :
              /\ Hold(c, p)
              /\ open' = open \union {p}
              /\ of' = [of EXCEPT ![p] = server[c]]
          /\ Go(c, "storing")
          /\ UNCHANGED mu
    /\ UNCHANGED <<pools, server, left>>

\* ... which it stores before it unlocks.
GetStores(c) ==
    /\ pc[c] = "storing"
    /\ pools' = [pools EXCEPT ![server[c]] = got[c]]
    /\ mu' = None
    /\ Go(c, "got")
    /\ UNCHANGED <<server, got, left, open, of>>

\* The caller is done with the pool it got.
PoolUsed(c) ==
    /\ pc[c] = "got"
    /\ Hold(c, None)
    /\ Go(c, "idle")
    /\ UNCHANGED <<pools, mu, server, left, open, of>>

-----------------------------------------------------------------------------
\* RemovePool: LoadAndDelete, ...
RemoveTakes(c) ==
    /\ pc[c] = "idle"
    /\ \E s \in Servers : \E p \in Lookups(s) \ {None} :
        /\ server' = [server EXCEPT ![c] = s]
        /\ Hold(c, p)
        /\ pools' = [pools EXCEPT ![s] = None]
    /\ Go(c, "removing")
    /\ UNCHANGED <<mu, left, open, of>>

\* ... then Stop, which does nothing to a pool that is stopped.
RemoveStops(c) ==
    /\ pc[c] = "removing"
    /\ open' = open \ {got[c]}
    /\ Hold(c, None)
    /\ Go(c, "idle")
    /\ UNCHANGED <<pools, mu, server, left, of>>

-----------------------------------------------------------------------------
\* Shutdown takes the lock, ...
ShutdownLocks(c) ==
    /\ pc[c] = "idle"
    /\ mu = None
    /\ mu' = c
    /\ left' = Servers
    /\ Go(c, "sweeping")
    /\ UNCHANGED <<pools, server, got, open, of>>

\* ... stops what Range finds, one pool after the other, ...
ShutdownStops(c) ==
    /\ pc[c] = "sweeping"
    /\ \E s \in left :
        /\ left' = left \ {s}
        /\ open' = open \ {pools[s]}
    /\ UNCHANGED <<pools, mu, pc, server, got, of>>

\* ... and replaces the map, which takes more than one step.
ShutdownClears(c) ==
    /\ pc[c] = "sweeping"
    /\ left = {}
    /\ Go(c, "clearing")
    /\ UNCHANGED <<pools, mu, server, got, left, open, of>>

ShutdownUnlocks(c) ==
    /\ pc[c] = "clearing"
    /\ pools' = [s \in Servers |-> None]
    /\ mu' = None
    /\ Go(c, "idle")
    /\ UNCHANGED <<server, got, left, open, of>>

Get(c) == GetLooks(c) \/ GetLocks(c) \/ GetLooksAgain(c) \/ GetStores(c) \/ PoolUsed(c)
Remove(c) == RemoveTakes(c) \/ RemoveStops(c)
Shutdown(c) == ShutdownLocks(c) \/ ShutdownStops(c) \/ ShutdownClears(c) \/ ShutdownUnlocks(c)

Next == \E c \in Callers : Get(c) \/ Remove(c) \/ Shutdown(c)

Spec == Init /\ [][Next]_vars

-----------------------------------------------------------------------------
FactoryTypeOK ==
    /\ pools \in [Servers -> Pools \union {None}]
    /\ mu \in Callers \union {None}
    /\ pc \in [Callers -> {"idle", "locking", "locked", "storing", "got", "removing",
                           "sweeping", "clearing"}]
    /\ server \in [Callers -> Servers \union {None}]
    /\ got \in [Callers -> Pools \union {None}]
    /\ left \subseteq Servers
    /\ open \subseteq Pools
    /\ of \in [Pools -> Servers \union {None}]

\* No pool is lost while it runs: one that has not been stopped is the one the map
\* has for its server, or the GetPool that made it is about to store it, or a
\* RemovePool that took it out is about to stop it.  So a server has one pool for
\* new callers, and Shutdown and RemovePool can reach every cleanup goroutine.
OpenIsKept ==
    \A p \in open :
        \/ pools[of[p]] = p
        \/ \E c \in Callers : pc[c] \in {"storing", "removing"} /\ got[c] = p

\* GetPool returns a pool that has been stopped only while a Shutdown is between its
\* first Stop and the new map: whoever asks later gets a pool that works.
StaleOnlyInShutdown ==
    [][\A c \in Callers :
          pc[c] # "got" /\ pc'[c] = "got" /\ got'[c] \notin open' =>
              \E d \in Callers : pc[d] \in {"sweeping", "clearing"}]_vars
=============================================================================
