----------------------------- MODULE NodeCache -----------------------------
(***************************************************************************)
(* ProxmoxClient.resolve_node_for_vmid and its vmid -> node cache          *)
(* (src/proxmox_mcp/client.py).                                            *)
(*                                                                         *)
(* Tool calls are asyncio tasks: one resolution runs without interruption  *)
(* from one await to the next.  The only await is the API call, which runs *)
(* in a worker thread, so a resolution is three steps: look the guest up   *)
(* in the cache, let the cluster evaluate the query, resume and update the *)
(* cache.  The cluster changes, time passes and other calls run between    *)
(* any two of them.  _node_cache_lock protects each cache access and is    *)
(* never held across an await, so it needs no variable of its own.         *)
(***************************************************************************)
EXTENDS Cluster

CONSTANTS
    Call,      \* the concurrent resolutions
    NoVmid,    \* the argument of an idle call
    TTL        \* _NODE_CACHE_TTL

ASSUME TTLAssumption == TTL \in Nat \ {0}
ASSUME VmidAssumption == NoVmid \notin Vmid

VARIABLES
    cache,     \* _node_cache: the node and the stamp kept for each guest
    pc,        \* where each call is
    arg,       \* its vmid
    now,       \* its local variable `now`
    answer     \* its local variable `node`, NoNode for VMNotFoundError

callVars == <<pc, arg, now, answer>>
vars == <<clusterVars, cache, callVars>>

NoEntry == [node |-> NoNode, stamped |-> 0]
Cached(v) == cache[v].node # NoNode

TypeOK ==
    /\ ClusterTypeOK
    /\ cache \in [Vmid -> [node : Place, stamped : Time]]
    /\ pc \in [Call -> {"idle", "query", "answered", "done"}]
    /\ arg \in [Call -> Vmid \union {NoVmid}]
    /\ \A c \in Call : pc[c] # "idle" => arg[c] \in Vmid
    /\ now \in [Call -> Time]
    /\ answer \in [Call -> Place]

ResolverInit ==
    /\ cache = [v \in Vmid |-> NoEntry]
    /\ pc = [c \in Call |-> "idle"]
    /\ arg = [c \in Call |-> NoVmid]
    /\ now = [c \in Call |-> 0]
    /\ answer = [c \in Call |-> NoNode]

Init == ClusterInit /\ ResolverInit

----------------------------------------------------------------------------

\* Mutants of Fresh: an entry one second too old, an entry of any age.
FreshOneTooLong(v) == Cached(v) /\ clock - cache[v].stamped <= TTL
FreshForever(v) == Cached(v)

\* An entry answers a call for as long as it is younger than the TTL.
Fresh(v) == Cached(v) /\ clock - cache[v].stamped < TTL

\* The call finds a fresh entry and returns it.
Hit(c, v) ==
    /\ pc[c] = "idle"
    /\ Fresh(v)
    /\ pc' = [pc EXCEPT ![c] = "done"]
    /\ arg' = [arg EXCEPT ![c] = v]
    /\ now' = [now EXCEPT ![c] = clock]
    /\ answer' = [answer EXCEPT ![c] = cache[v].node]
    /\ UNCHANGED <<clusterVars, cache>>

\* The call finds no fresh entry and awaits the query, `now` already read.
Miss(c, v) ==
    /\ pc[c] = "idle"
    /\ ~Fresh(v)
    /\ pc' = [pc EXCEPT ![c] = "query"]
    /\ arg' = [arg EXCEPT ![c] = v]
    /\ now' = [now EXCEPT ![c] = clock]
    /\ UNCHANGED <<clusterVars, cache, answer>>

\* The cluster evaluates the query; the reply is on its way.
Query(c) ==
    /\ pc[c] = "query"
    /\ pc' = [pc EXCEPT ![c] = "answered"]
    /\ answer' = [answer EXCEPT ![c] = owner[arg[c]]]
    /\ UNCHANGED <<clusterVars, cache, arg, now>>

\* Mutants of UpdatedEntry: the clock is read after the query instead of before;
\* the end of the entry's life is stored in place of its beginning.
EntryStampedOnResume(c) ==
    IF answer[c] = NoNode THEN NoEntry ELSE [node |-> answer[c], stamped |-> clock]

EntryExpiry(c) ==
    IF answer[c] = NoNode THEN NoEntry ELSE [node |-> answer[c], stamped |-> now[c] + TTL]

\* What the resumed call leaves in the cache: the entry stamped with the time
\* read before the query, or no entry when the guest was not found.
UpdatedEntry(c) ==
    IF answer[c] = NoNode THEN NoEntry ELSE [node |-> answer[c], stamped |-> now[c]]

\* The call resumes, updates the cache and returns the node or VMNotFoundError.
Resume(c) ==
    /\ pc[c] = "answered"
    /\ pc' = [pc EXCEPT ![c] = "done"]
    /\ cache' = [cache EXCEPT ![arg[c]] = UpdatedEntry(c)]
    /\ UNCHANGED <<clusterVars, arg, now, answer>>

Forget(c) ==
    /\ pc' = [pc EXCEPT ![c] = "idle"]
    /\ arg' = [arg EXCEPT ![c] = NoVmid]
    /\ now' = [now EXCEPT ![c] = 0]
    /\ answer' = [answer EXCEPT ![c] = NoNode]
    /\ UNCHANGED <<clusterVars, cache>>

\* The API call raises anything but VMNotFoundError, or the task is cancelled
\* while it awaits: the error leaves the call and the cache is not touched.
Abort(c) == pc[c] \in {"query", "answered"} /\ Forget(c)

\* The caller takes the result.
Return(c) == pc[c] = "done" /\ Forget(c)

Next ==
    \/ ClusterNext /\ UNCHANGED <<cache, callVars>>
    \/ \E c \in Call :
          \/ \E v \in Vmid : Hit(c, v) \/ Miss(c, v)
          \/ Query(c)
          \/ Resume(c)
          \/ Abort(c)
          \/ Return(c)

Spec == Init /\ [][Next]_vars

----------------------------------------------------------------------------

\* The history and the stamps do not run ahead of the clock.
NotAhead ==
    /\ \A v \in Vmid :
          /\ lastSeen[v][owner[v]] = clock
          /\ \A p \in Place : lastSeen[v][p] <= clock
          /\ cache[v].stamped <= clock
    /\ \A c \in Call : now[c] <= clock

(***************************************************************************)
(* Every cached node owned its guest at the entry's stamp or later, even   *)
(* when slow queries finish out of order and a late one overwrites the     *)
(* entry of a newer one (client.py writes unconditionally on resume).      *)
(***************************************************************************)
CacheWitnessed ==
    \A v \in Vmid : Cached(v) => SeenSince(v, cache[v].node, cache[v].stamped)

\* A query the cluster has evaluated, and whose reply is still on its way, was
\* true when its call had begun.
InFlightWitnessed ==
    \A c \in Call : pc[c] = "answered" => SeenSince(arg[c], answer[c], now[c])

(***************************************************************************)
(* What a call returns was true recently: a node owned the guest less than *)
(* TTL before the call began, or later; "not found" was true during the    *)
(* call.  So a call that begins TTL after a migration never sees the old   *)
(* node, however long the queries that overlapped the migration took.      *)
(***************************************************************************)
AnswerFresh ==
    \A c \in Call : pc[c] = "done" =>
        SeenSince(arg[c], answer[c],
                  IF answer[c] = NoNode THEN now[c] ELSE now[c] - TTL + 1)

\* The inductive invariant.
IInv ==
    /\ TypeOK
    /\ NotAhead
    /\ CacheWitnessed
    /\ InFlightWitnessed
    /\ AnswerFresh

\* Refinement mapping onto VmidLocation.
Status(c) == CASE pc[c] = "idle" -> "idle"
               [] pc[c] \in {"query", "answered"} -> "asking"
               [] pc[c] = "done" -> "told"

Location == INSTANCE VmidLocation WITH
    status <- [c \in Call |-> Status(c)],
    asked <- arg,
    since <- now,
    told <- [c \in Call |-> IF pc[c] = "done" THEN answer[c] ELSE NoNode]

(***************************************************************************)
(* The cached resolver implements the cache-free specification: whatever   *)
(* the interleaving, each call is answered as VmidLocation allows.         *)
(***************************************************************************)
ImplementsLocation == Location!Spec
=============================================================================
