--------------------------- MODULE PermittedCalls ---------------------------
(***************************************************************************)
(* What the safety settings promise of the mutating tools, without gates:  *)
(* a call is asked, sends requests while the configuration and its own     *)
(* parameters permit it, and is answered once, truly.  ToolCalls           *)
(* implements this module if the gates of its tools are well ordered.      *)
(***************************************************************************)
EXTENDS Naturals

CONSTANTS
    Call,          \* the concurrent calls
    Vmid, NoVmid,  \* the guests, and the guest of a call that is not there
    Node, NoNode,  \* the nodes a caller may name, to act on or as a target, and none
    Tools,         \* the tools
    ConfirmTools,  \* those that take a confirm parameter
    GuestTools,    \* those that act on their guest's own endpoints
    Configs        \* the configurations

VARIABLES
    config,    \* the configuration
    asked,     \* [Call -> what it was asked]
    sent,      \* [Call -> how many requests it has sent]
    answer     \* [Call -> its answer, or "none"]

callVars == <<asked, sent, answer>>

NotAsked ==
    [tool |-> "none", vmid |-> NoVmid, node |-> NoNode, target |-> NoNode, confirm |-> FALSE]

Init ==
    /\ config \in Configs
    /\ asked = [c \in Call |-> NotAsked]
    /\ sent = [c \in Call |-> 0]
    /\ answer = [c \in Call |-> "none"]

\* What a call must be for a request of it to be sent.  The node it is to act on
\* must be allowed if the caller named one; of the target nothing is promised, nor
\* of a node that was left for the server to find.
MaySend(q) ==
    /\ ~config.dry_run
    /\ q.tool \in ConfirmTools => q.confirm
    /\ q.tool \in GuestTools => q.vmid \notin config.protected
    /\ q.node # NoNode => config.allowed = {} \/ q.node \in config.allowed

\* What a call must be, having sent n requests, for an answer to be true.
True(q, n, a) ==
    /\ a = "success" => n > 0
    /\ a \in {"dry_run", "confirmation_required"} => n = 0
    /\ a = "dry_run" => config.dry_run
    /\ a = "confirmation_required" => q.tool \in ConfirmTools /\ ~q.confirm

Ask(c) ==
    /\ asked[c] = NotAsked
    /\ \E t \in Tools, v \in Vmid, n, m \in Node \union {NoNode}, b \in BOOLEAN :
          asked' = [asked EXCEPT ![c] =
              [tool |-> t, vmid |-> v, node |-> n, target |-> m, confirm |-> b]]
    /\ UNCHANGED <<config, sent, answer>>

Open(c) == asked[c] # NotAsked /\ answer[c] = "none"

\* A request is sent, and may be the last thing the call does.
Send(c, a) ==
    /\ Open(c)
    /\ MaySend(asked[c])
    /\ sent' = [sent EXCEPT ![c] = @ + 1]
    /\ answer' = [answer EXCEPT ![c] = a]
    /\ UNCHANGED <<config, asked>>

Tell(c, a) ==
    /\ Open(c)
    /\ True(asked[c], sent[c], a)
    /\ answer' = [answer EXCEPT ![c] = a]
    /\ UNCHANGED <<config, asked, sent>>

Leave(c) ==
    /\ answer[c] # "none"
    /\ asked' = [asked EXCEPT ![c] = NotAsked]
    /\ sent' = [sent EXCEPT ![c] = 0]
    /\ answer' = [answer EXCEPT ![c] = "none"]
    /\ UNCHANGED config

Next ==
    \E c \in Call :
       \/ Ask(c)
       \/ \E a \in {"none", "success", "error"} : Send(c, a)
       \/ \E a \in {"success", "error", "dry_run", "confirmation_required"} : Tell(c, a)
       \/ Leave(c)

Spec == Init /\ [][Next]_<<config, callVars>>
=============================================================================
