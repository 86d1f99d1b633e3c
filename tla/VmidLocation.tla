---------------------------- MODULE VmidLocation ----------------------------
(***************************************************************************)
(* What ProxmoxClient.resolve_node_for_vmid promises, without the cache.   *)
(* A call that asks for a guest at time `since` is told either a node that *)
(* owned the guest less than TTL before `since`, or later; or that the     *)
(* guest does not exist, which must have been true at some instant of the  *)
(* call itself; or the call fails.  NodeCache implements this module.      *)
(***************************************************************************)
EXTENDS Cluster

CONSTANTS
    Call,      \* the concurrent calls
    NoVmid,    \* the argument of an idle call
    TTL        \* how old a told location may be

VARIABLES
    status,    \* [Call -> {"idle", "asking", "told"}]
    asked,     \* the guest each call asks for
    since,     \* when it asked
    told       \* what it was told

locationVars == <<status, asked, since, told>>

Init ==
    /\ ClusterInit
    /\ status = [c \in Call |-> "idle"]
    /\ asked = [c \in Call |-> NoVmid]
    /\ since = [c \in Call |-> 0]
    /\ told = [c \in Call |-> NoNode]

\* The answers a call that asked for v at time t may be given.
Acceptable(v, p, t) ==
    IF p = NoNode THEN SeenSince(v, p, t) ELSE SeenSince(v, p, t - TTL + 1)

Ask(c, v) ==
    /\ status[c] = "idle"
    /\ status' = [status EXCEPT ![c] = "asking"]
    /\ asked' = [asked EXCEPT ![c] = v]
    /\ since' = [since EXCEPT ![c] = clock]
    /\ UNCHANGED <<told, clusterVars>>

Tell(c, p) ==
    /\ status[c] = "asking"
    /\ Acceptable(asked[c], p, since[c])
    /\ status' = [status EXCEPT ![c] = "told"]
    /\ told' = [told EXCEPT ![c] = p]
    /\ UNCHANGED <<asked, since, clusterVars>>

\* Asked and told in one step.
TellAtOnce(c, v, p) ==
    /\ status[c] = "idle"
    /\ Acceptable(v, p, clock)
    /\ status' = [status EXCEPT ![c] = "told"]
    /\ asked' = [asked EXCEPT ![c] = v]
    /\ since' = [since EXCEPT ![c] = clock]
    /\ told' = [told EXCEPT ![c] = p]
    /\ UNCHANGED clusterVars

\* The call fails, or its answer has been used.
Release(c) ==
    /\ status[c] # "idle"
    /\ status' = [status EXCEPT ![c] = "idle"]
    /\ asked' = [asked EXCEPT ![c] = NoVmid]
    /\ since' = [since EXCEPT ![c] = 0]
    /\ told' = [told EXCEPT ![c] = NoNode]
    /\ UNCHANGED clusterVars

Next ==
    \/ ClusterNext /\ UNCHANGED locationVars
    \/ \E c \in Call :
          \/ \E v \in Vmid : Ask(c, v)
          \/ \E p \in Place : Tell(c, p)
          \/ \E v \in Vmid, p \in Place : TellAtOnce(c, v, p)
          \/ Release(c)

Spec == Init /\ [][Next]_<<clusterVars, locationVars>>
=============================================================================
