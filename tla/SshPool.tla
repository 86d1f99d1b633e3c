------------------------------ MODULE SshPool ------------------------------
(***************************************************************************)
(* SSHExecutor's cache of paramiko clients (src/proxmox_mcp/ssh.py).       *)
(*                                                                         *)
(* Commands run in worker threads (asyncio.to_thread), so they interleave  *)
(* at any point.  _client_cache_lock makes each visit to the cache atomic, *)
(* but it is also held while a new client connects, which takes up to ten  *)
(* seconds and may fail: that visit is two steps, with the lock held in    *)
(* between.  The lock is not held while a command runs.                    *)
(*                                                                         *)
(* Clients are numbered in the order they are created.  A client enters    *)
(* the cache only when it has just been created, so the dict's insertion   *)
(* order, by which the oldest entry is found, is the order of the numbers. *)
(***************************************************************************)
EXTENDS Integers, FiniteSets

CONSTANTS
    Thread,       \* the worker threads
    Key,          \* the (host, port, user, key path) tuples
    NoThread, NoKey,
    MaxCached,    \* MAX_CACHED_CLIENTS
    MaxClients,   \* bound: clients created in a run
    MaxCommands   \* bound: commands started in a run

ASSUME ThreadAssumption == NoThread \notin Thread
ASSUME KeyAssumption == NoKey \notin Key
ASSUME BoundAssumption ==
    /\ MaxCached \in Nat \ {0}
    /\ MaxClients \in Nat
    /\ MaxCommands \in Nat

VARIABLES
    cached,    \* _client_cache: the client of each key, or NoClient
    lock,      \* _client_cache_lock: its holder, or NoThread
    conn,      \* the state of each client's connection
    home,      \* history: the key each client was connected for
    failed,    \* history: clients whose failed command has been cleaned up
    pc,        \* where each thread is
    key,       \* the key of its command
    using,     \* the client its command runs on
    commands   \* how many commands have been started

vars == <<cached, lock, conn, home, failed, pc, key, using, commands>>

NoClient == 0
Client == 1..MaxClients

TypeOK ==
    /\ cached \in [Key -> Client \union {NoClient}]
    /\ lock \in Thread \union {NoThread}
    /\ conn \in [Client -> {"none", "live", "dead", "closed"}]
    /\ home \in [Client -> Key \union {NoKey}]
    /\ failed \subseteq Client
    /\ pc \in [Thread -> {"idle", "wait", "connect", "exec", "error", "success"}]
    /\ key \in [Thread -> Key \union {NoKey}]
    /\ using \in [Thread -> Client \union {NoClient}]
    /\ commands \in 0..MaxCommands
    /\ \A t \in Thread :
          /\ pc[t] # "idle" => key[t] \in Key
          /\ pc[t] \in {"exec", "error", "success"} <=> using[t] \in Client

Init ==
    /\ cached = [k \in Key |-> NoClient]
    /\ lock = NoThread
    /\ conn = [c \in Client |-> "none"]
    /\ home = [c \in Client |-> NoKey]
    /\ failed = {}
    /\ pc = [t \in Thread |-> "idle"]
    /\ key = [t \in Thread |-> NoKey]
    /\ using = [t \in Thread |-> NoClient]
    /\ commands = 0

----------------------------------------------------------------------------

CachedKeys == { k \in Key : cached[k] # NoClient }

\* The entry inserted first.
Oldest == CHOOSE k \in CachedKeys : \A l \in CachedKeys : cached[k] <= cached[l]

\* The clients not created yet; they are created in order.
Unused == { c \in Client : conn[c] = "none" }
NextClient == CHOOSE c \in Unused : \A d \in Unused : c <= d

Close(f, C) == [c \in Client |-> IF c \in C THEN "closed" ELSE f[c]]

Goto(t, where) == pc' = [pc EXCEPT ![t] = where]

----------------------------------------------------------------------------

\* A command is handed to a worker thread, which goes for the cache.
Start(t, k) ==
    /\ pc[t] = "idle"
    /\ commands < MaxCommands
    /\ commands' = commands + 1
    /\ key' = [key EXCEPT ![t] = k]
    /\ Goto(t, "wait")
    /\ UNCHANGED <<cached, lock, conn, home, failed, using>>

\* Mutant of Reuse: the client found is not asked whether it is still connected.
ReuseUnasked(t) ==
    /\ pc[t] = "wait"
    /\ lock = NoThread
    /\ cached[key[t]] # NoClient
    /\ using' = [using EXCEPT ![t] = cached[key[t]]]
    /\ cached' = [cached EXCEPT ![key[t]] = NoClient]
    /\ Goto(t, "exec")
    /\ UNCHANGED <<lock, conn, home, failed, key, commands>>

\* The key has a live client.  It is popped and, being found, not put back.
Reuse(t) ==
    /\ pc[t] = "wait"
    /\ lock = NoThread
    /\ cached[key[t]] # NoClient
    /\ conn[cached[key[t]]] = "live"
    /\ using' = [using EXCEPT ![t] = cached[key[t]]]
    /\ cached' = [cached EXCEPT ![key[t]] = NoClient]
    /\ Goto(t, "exec")
    /\ UNCHANGED <<lock, conn, home, failed, key, commands>>

\* The key has no live client: a dead one is popped and closed, and the thread
\* goes on to connect with the lock held.
GoConnect(t) ==
    /\ pc[t] = "wait"
    /\ lock = NoThread
    /\ cached[key[t]] # NoClient => conn[cached[key[t]]] # "live"
    /\ lock' = t
    /\ conn' = Close(conn, {cached[key[t]]})
    /\ cached' = [cached EXCEPT ![key[t]] = NoClient]
    /\ Goto(t, "connect")
    /\ UNCHANGED <<home, failed, key, using, commands>>

\* Mutant of Evicted: the bound is missed by one.
EvictedLate == IF Cardinality(CachedKeys) > MaxCached THEN {Oldest} ELSE {}

\* What is evicted before an insertion.  The code loops while the cache is full;
\* as it never holds more than MaxCached entries, one round is enough.
Evicted == IF Cardinality(CachedKeys) >= MaxCached THEN {Oldest} ELSE {}

\* Mutant of Inserted: the new client takes the evicted entry's place.
InsertedInPlace(t) ==
    [k \in Key |-> IF k \in Evicted \/ (Evicted = {} /\ k = key[t])
                   THEN NextClient ELSE cached[k]]

\* The cache after the evictions and the insertion of the new client.
Inserted(t) ==
    [k \in Key |-> IF k = key[t] THEN NextClient
                   ELSE IF k \in Evicted THEN NoClient ELSE cached[k]]

\* The new client is connected; evicted clients are closed, in use or not.
Connect(t) ==
    /\ pc[t] = "connect"
    /\ Unused # {}
    /\ using' = [using EXCEPT ![t] = NextClient]
    /\ cached' = Inserted(t)
    /\ conn' = [Close(conn, {cached[k] : k \in Evicted}) EXCEPT ![NextClient] = "live"]
    /\ home' = [home EXCEPT ![NextClient] = key[t]]
    /\ lock' = NoThread
    /\ Goto(t, "exec")
    /\ UNCHANGED <<failed, key, commands>>

Leave(t) ==
    /\ Goto(t, "idle")
    /\ key' = [key EXCEPT ![t] = NoKey]
    /\ using' = [using EXCEPT ![t] = NoClient]

\* Mutant of ConnectFail: the lock is not released on the error path.
ConnectFailLocked(t) ==
    /\ pc[t] = "connect"
    /\ Leave(t)
    /\ UNCHANGED <<cached, lock, conn, home, failed, commands>>

\* Mutant of ConnectFail: the error is swallowed and the command goes on.
ConnectFailSwallowed(t) ==
    /\ pc[t] = "connect"
    /\ lock' = NoThread
    /\ Goto(t, "exec")
    /\ UNCHANGED <<cached, conn, home, failed, key, using, commands>>

\* The connection fails: the error leaves the with-block and the command.
ConnectFail(t) ==
    /\ pc[t] = "connect"
    /\ lock' = NoThread
    /\ Leave(t)
    /\ UNCHANGED <<cached, conn, home, failed, commands>>

\* The command runs to its exit status, and its output has been read to the end.
Succeed(t) ==
    /\ pc[t] = "exec"
    /\ conn[using[t]] = "live"
    /\ Goto(t, "success")
    /\ UNCHANGED <<cached, lock, conn, home, failed, key, using, commands>>

\* The exit status is not there in time, or the connection is lost.
Fail(t) ==
    /\ pc[t] = "exec"
    /\ Goto(t, "error")
    /\ UNCHANGED <<cached, lock, conn, home, failed, key, using, commands>>

\* Mutant of Discarded: a client that still looks alive is kept.
DiscardedIfDead(t) ==
    IF cached[key[t]] # NoClient /\ conn[cached[key[t]]] = "live" THEN {} ELSE {key[t]}

\* The entries _discard_cached_client removes: whichever client its key has.
Discarded(t) == {key[t]}

\* The failed command's key loses its client, which is closed; SSHExecutionError.
Discard(t) ==
    /\ pc[t] = "error"
    /\ lock = NoThread
    /\ cached' = [k \in Key |-> IF k \in Discarded(t) THEN NoClient ELSE cached[k]]
    /\ conn' = Close(conn, {cached[k] : k \in Discarded(t)})
    /\ failed' = failed \union {using[t]}
    /\ Leave(t)
    /\ UNCHANGED <<lock, home, commands>>

\* The result is returned to the tool.
Return(t) ==
    /\ pc[t] = "success"
    /\ Leave(t)
    /\ UNCHANGED <<cached, lock, conn, home, failed, commands>>

\* Mutant of CloseAll: the closed clients stay in the cache.
CloseAllKept ==
    /\ lock = NoThread
    /\ CachedKeys # {}
    /\ conn' = Close(conn, {cached[k] : k \in Key})
    /\ UNCHANGED <<cached, lock, home, failed, pc, key, using, commands>>

\* close(): every cached client is closed and the cache emptied.
CloseAll ==
    /\ lock = NoThread
    /\ CachedKeys # {}
    /\ conn' = Close(conn, {cached[k] : k \in Key})
    /\ cached' = [k \in Key |-> NoClient]
    /\ UNCHANGED <<lock, home, failed, pc, key, using, commands>>

\* The peer or the network ends a connection.
Lose(c) ==
    /\ conn[c] = "live"
    /\ conn' = [conn EXCEPT ![c] = "dead"]
    /\ UNCHANGED <<cached, lock, home, failed, pc, key, using, commands>>

\* The steps of a thread other than running its command on the host.
CacheStep(t) ==
    \/ Reuse(t) \/ GoConnect(t) \/ Connect(t) \/ ConnectFail(t) \/ Discard(t) \/ Return(t)

ThreadStep(t) == CacheStep(t) \/ Succeed(t) \/ Fail(t)

Next ==
    \/ \E t \in Thread : (\E k \in Key : Start(t, k)) \/ ThreadStep(t)
    \/ CloseAll
    \/ \E c \in Client : Lose(c)

Spec == Init /\ [][Next]_vars

\* A CacheStep ends: connecting has timeouts, the others do not wait.  Of Succeed and
\* Fail nothing is assumed.  Only the exit status has a deadline: to open the command
\* and to read its output to the end may take for ever.  Nothing is assumed either
\* of the order in which the lock is granted: the commands that compete for it are
\* finitely many.
FairSpec == Spec /\ \A t \in Thread : WF_vars(CacheStep(t))

----------------------------------------------------------------------------

\* The clients the pool may hand out.
Cached == { cached[k] : k \in CachedKeys }

(***************************************************************************)
(* The cache never holds more than MAX_CACHED_CLIENTS clients, whatever    *)
(* threads insert, evict and discard.                                      *)
(***************************************************************************)
CacheBounded == Cardinality(CachedKeys) <= MaxCached

(***************************************************************************)
(* A command runs on a connection to its own host, port, user and key      *)
(* path, however clients pass from thread to thread.                       *)
(***************************************************************************)
RightHost == \A t \in Thread : using[t] # NoClient => home[using[t]] = key[t]

(***************************************************************************)
(* No thread can be handed a client that the pool has closed, in a thread  *)
(* that evicted, discarded or replaced it (its get_transport() is None, so *)
(* _get_cached_client would raise AttributeError instead of connecting).   *)
(***************************************************************************)
CachedNotClosed == \A c \in Cached : conn[c] \in {"live", "dead"}

(***************************************************************************)
(* Once a command failed and its thread has cleaned up, its client is not  *)
(* handed out again, even if another thread had taken it over meanwhile    *)
(* ("the client is evicted from the cache if the command fails").          *)
(***************************************************************************)
FailedNotReused == Cached \intersect failed = {}

(***************************************************************************)
(* The lock is held by a thread that is connecting, and by no other: what  *)
(* the steps that look at the cache rely on.                               *)
(***************************************************************************)
LockHeldToConnect == \A t \in Thread : pc[t] = "connect" <=> lock = t

\* A cached client was connected for the key it is cached under.
CachedAtHome == \A k \in CachedKeys : home[cached[k]] = k

\* A client that has not been created is not used and has not failed.
UnusedUnknown == \A c \in Unused : c \notin failed /\ \A t \in Thread : using[t] # c

\* The inductive invariant.
IInv ==
    /\ TypeOK
    /\ LockHeldToConnect
    /\ CachedAtHome
    /\ CachedNotClosed
    /\ RightHost
    /\ UnusedUnknown
    /\ FailedNotReused
    /\ IsFiniteSet(CachedKeys)
    /\ CacheBounded

\* Where a command is to its caller: still waiting while its thread connects.
Where == [t \in Thread |-> IF pc[t] = "connect" THEN "wait" ELSE pc[t]]

\* The promise, of which the cache and its lock are details.
Promise == INSTANCE HostCommands WITH pc <- Where

(***************************************************************************)
(* The pool is not to be noticed: whatever is reused, evicted, discarded   *)
(* and closed beside it, each command gets a live connection of its own    *)
(* host on which none failed before, as if none were ever cached.          *)
(***************************************************************************)
ImplementsHostCommands == Promise!Spec

(***************************************************************************)
(* One command that hangs hangs alone.  All threads share one lock, held   *)
(* through slow and failing connects; still each of them gets through the  *)
(* cache, to its command or out of it, also if commands of other threads   *)
(* never end.  (That a command ends is not so: see FairSpec.)              *)
(***************************************************************************)
LockPassedOn ==
    \A t \in Thread : pc[t] \notin {"idle", "exec"} ~> pc[t] \in {"idle", "exec"}
=============================================================================
