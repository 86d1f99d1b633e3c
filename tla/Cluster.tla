------------------------------ MODULE Cluster ------------------------------
(***************************************************************************)
(* The Proxmox cluster as the server sees it: which node owns each VM or   *)
(* container, and the passing of time.  It is external to the repository   *)
(* and is modelled from how client.py uses it: GET /cluster/resources      *)
(* answers with the owner at the instant it is evaluated, and a guest may  *)
(* be created, destroyed or migrated at any time by anyone.                *)
(*                                                                         *)
(* lastSeen is a history variable.  lastSeen[v][p] is the last instant at  *)
(* which v was at place p (NoNode standing for "v does not exist"), or     *)
(* Never.  Nothing reads it but the properties.                            *)
(***************************************************************************)
EXTENDS Integers

CONSTANTS
    Vmid,      \* the VM and container ids
    Node,      \* the nodes of the cluster
    NoNode,    \* the place of a guest that does not exist
    MaxClock   \* bound: the clock stops here

ASSUME NodeAssumption == NoNode \notin Node
ASSUME ClockAssumption == MaxClock \in Nat

VARIABLES
    clock,     \* the server's monotonic clock, in seconds
    owner,     \* where each guest is now
    lastSeen   \* history: when each guest was last at each place

clusterVars == <<clock, owner, lastSeen>>

Place == Node \union {NoNode}
Time == 0..MaxClock
Never == -1

ClusterTypeOK ==
    /\ clock \in Time
    /\ owner \in [Vmid -> Place]
    /\ lastSeen \in [Vmid -> [Place -> Time \union {Never}]]

ClusterInit ==
    /\ clock = 0
    /\ owner \in [Vmid -> Place]
    /\ lastSeen = [v \in Vmid |-> [p \in Place |-> IF p = owner[v] THEN 0 ELSE Never]]

\* A second passes.
Tick ==
    /\ clock < MaxClock
    /\ clock' = clock + 1
    /\ lastSeen' = [v \in Vmid |-> [lastSeen[v] EXCEPT ![owner[v]] = clock + 1]]
    /\ UNCHANGED owner

\* A guest is migrated, created (from NoNode) or destroyed (to NoNode).
Move(v, p) ==
    /\ p # owner[v]
    /\ owner' = [owner EXCEPT ![v] = p]
    /\ lastSeen' = [lastSeen EXCEPT ![v] = [lastSeen[v] EXCEPT ![p] = clock]]
    /\ UNCHANGED clock

ClusterNext == Tick \/ \E v \in Vmid, p \in Place : Move(v, p)

\* v was at p at some instant in the interval [t, clock].
SeenSince(v, p, t) == lastSeen[v][p] # Never /\ lastSeen[v][p] >= t
=============================================================================
