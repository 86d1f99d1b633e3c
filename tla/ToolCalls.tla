----------------------------- MODULE ToolCalls -----------------------------
(***************************************************************************)
(* Concurrent calls of the mutating tools, composed with the node cache    *)
(* they resolve guests through (NodeCache) and the cluster.                *)
(*                                                                         *)
(* A call walks the gates of its tool in order (ToolTable); a gate lets it *)
(* pass or ends it with an answer.  The gates between two awaits run in    *)
(* one go in the code.  Here each is a step: between two of them only      *)
(* other calls' steps can fall, and those touch nothing these gates read.  *)
(***************************************************************************)
EXTENDS NodeCache, Sequences

CONSTANTS
    Tools,     \* the tools that are called
    Gates,     \* the gates of each tool, in order
    ConfirmTools,   \* the tools that take a confirm parameter
    TargetTools,    \* the tools that take a second node, which they hand to the API
    MigrateTools,   \* those of them that cannot be called without it
    Configs,        \* the configurations the server is started with
    GuestTools,     \* the tools that act on the guest named by their vmid
    OtherGuestTools \* further tools that change that guest

Config == [dry_run : BOOLEAN, protected : SUBSET Vmid, allowed : SUBSET Node]

ASSUME ConfigAssumption == Configs \subseteq Config
ASSUME GatesAssumption == \A t \in Tools : Gates[t] \in Seq(STRING) /\ Gates[t] # <<>>

VARIABLES
    config,    \* ProxmoxConfig: read from the environment once, at start
    call       \* what each call was asked, how far it is and what it answered

toolVars == <<vars, config, call>>

NoTool == "none"
NoCall == [tool |-> NoTool, vmid |-> NoVmid, named |-> FALSE, node |-> NoNode,
           target |-> NoNode, confirm |-> FALSE, at |-> 1, sent |-> 0, since |-> 0, status |-> "idle"]

Statuses == {"idle", "running", "success", "error", "confirmation_required", "dry_run"}

CallState == [tool : Tools \union {NoTool}, vmid : Vmid \union {NoVmid},
              named : BOOLEAN, node : Place, target : Place, confirm : BOOLEAN,
              at : Nat, sent : Nat, since : Time, status : Statuses]

ToolTypeOK ==
    /\ TypeOK
    /\ config \in Configs
    /\ call \in [Call -> CallState]
    /\ \A c \in Call :
          /\ call[c].status # "idle" =>
                /\ call[c].tool \in Tools
                /\ call[c].vmid \in Vmid
                /\ call[c].at \in 1..Len(Gates[call[c].tool]) + 1
          /\ call[c].status = "running" =>
                call[c].at <= Len(Gates[call[c].tool]) /\ call[c].sent < call[c].at
          /\ call[c].sent <= call[c].at

ToolInit ==
    /\ Init
    /\ config \in Configs
    /\ call = [c \in Call |-> NoCall]

----------------------------------------------------------------------------

Running(c) == call[c].status = "running"
Gate(c) == Gates[call[c].tool][call[c].at]
At(c, g) == Running(c) /\ Gate(c) = g

\* The handler goes on with the call updated to r, or has done all its steps.
PassWith(c, r) ==
    call' = [call EXCEPT ![c] =
        [r EXCEPT !.at = @ + 1,
                  !.status = IF r.at = Len(Gates[r.tool]) THEN "success" ELSE "running"]]

Pass(c) == PassWith(c, call[c])

\* The handler returns early.
Answer(c, s) == call' = [call EXCEPT ![c].status = s]

\* A check that lets the call pass or ends it with an error.
Check(c, ok) == IF ok THEN Pass(c) ELSE Answer(c, "error")

----------------------------------------------------------------------------

\* A client calls a tool.  A named node n and a named target m are nodes of the
\* cluster.  No gate looks at the target: it goes into the request as it is.
Invoke(c, t, v, n, m, b) ==
    /\ call[c].status = "idle"
    /\ call' = [call EXCEPT ![c] =
          [NoCall EXCEPT !.tool = t, !.vmid = v, !.named = (n # NoNode), !.node = n,
                         !.target = m, !.confirm = b, !.status = "running"]]
    /\ UNCHANGED <<vars, config>>

\* Whether the arguments are well formed is left open.
Args(c) ==
    /\ At(c, "args")
    /\ Pass(c) \/ Answer(c, "error")
    /\ UNCHANGED <<vars, config>>

CheckProtected(c) ==
    /\ At(c, "protected")
    /\ Check(c, call[c].vmid \notin config.protected)
    /\ UNCHANGED <<vars, config>>

\* validate_node: an empty allowlist allows every node.
Permitted(n) == config.allowed = {} \/ n \in config.allowed

ValidateNode(c) ==
    /\ At(c, "node")
    /\ Check(c, Permitted(call[c].node))
    /\ UNCHANGED <<vars, config>>

\* Mutant of ResolveNamed: a named node is used unchecked.
ResolveNamedUnchecked(c) ==
    /\ At(c, "resolve")
    /\ call[c].named
    /\ Pass(c)
    /\ UNCHANGED <<vars, config>>

\* resolve_node with a node: it is checked against the allowlist.
ResolveNamed(c) ==
    /\ At(c, "resolve")
    /\ call[c].named
    /\ Check(c, Permitted(call[c].node))
    /\ UNCHANGED <<vars, config>>

\* resolve_node without a node: the guest is looked up ...
ResolveBegin(c) ==
    /\ At(c, "resolve")
    /\ ~call[c].named
    /\ Hit(c, call[c].vmid) \/ Miss(c, call[c].vmid)
    /\ UNCHANGED <<config, call>>

\* Mutant of ResolveEnd: VMNotFoundError is not passed on.
ResolveEndFound(c) ==
    /\ At(c, "resolve")
    /\ answer[c] # NoNode
    /\ PassWith(c, [call[c] EXCEPT !.node = answer[c], !.since = now[c]])
    /\ Return(c)
    /\ UNCHANGED config

\* ... and the node that was found is used as it is, or VMNotFoundError ends
\* the call.
ResolveEnd(c) ==
    /\ At(c, "resolve")
    /\ IF answer[c] = NoNode
       THEN Answer(c, "error")
       ELSE PassWith(c, [call[c] EXCEPT !.node = answer[c], !.since = now[c]])
    /\ Return(c)
    /\ UNCHANGED config

\* The lookup fails and the error ends the call.
ResolveFail(c) ==
    /\ At(c, "resolve")
    /\ Answer(c, "error")
    /\ Abort(c)
    /\ UNCHANGED config

Confirm(c) ==
    /\ At(c, "confirm")
    /\ IF call[c].confirm THEN Pass(c) ELSE Answer(c, "confirmation_required")
    /\ UNCHANGED <<vars, config>>

\* delete_vm and delete_container read the guest's status to describe it.
ConfirmRead(c) ==
    /\ At(c, "confirmRead")
    /\ IF call[c].confirm
       THEN Pass(c)
       ELSE Answer(c, "confirmation_required") \/ Answer(c, "error")
    /\ UNCHANGED <<vars, config>>

Read(c) ==
    /\ At(c, "read")
    /\ Pass(c) \/ Answer(c, "error")
    /\ UNCHANGED <<vars, config>>

DryRun(c) ==
    /\ At(c, "dryrun")
    /\ IF config.dry_run THEN Answer(c, "dry_run") ELSE Pass(c)
    /\ UNCHANGED <<vars, config>>

Option(c) ==
    /\ At(c, "option")
    /\ Pass(c) \/ Answer(c, "success")
    /\ UNCHANGED <<vars, config>>

\* Mutant of Write: a request that failed is sent again.
WriteRetried(c) ==
    /\ At(c, "write") \/ At(c, "mayWrite")
    /\ LET r == [call[c] EXCEPT !.sent = @ + 1]
       IN  PassWith(c, r) \/ call' = [call EXCEPT ![c] = r]
    /\ UNCHANGED <<vars, config>>

\* Mutant of Write: the request is forgotten, and the handler goes on.
WriteForgotten(c) ==
    /\ At(c, "write") \/ At(c, "mayWrite")
    /\ Pass(c)
    /\ UNCHANGED <<vars, config>>

\* The request is sent.  It may fail, before or after it took effect.
Write(c) ==
    /\ At(c, "write") \/ At(c, "mayWrite")
    /\ LET r == [call[c] EXCEPT !.sent = @ + 1]
       IN  \/ PassWith(c, r)
           \/ call' = [call EXCEPT ![c] = [r EXCEPT !.status = "error"]]
    /\ UNCHANGED <<vars, config>>

\* A request that is not needed is not sent.
SkipWrite(c) ==
    /\ At(c, "mayWrite")
    /\ Pass(c)
    /\ UNCHANGED <<vars, config>>

\* The client has its answer and the call is over.
Done(c) ==
    /\ call[c].status \notin {"idle", "running"}
    /\ call' = [call EXCEPT ![c] = NoCall]
    /\ UNCHANGED <<vars, config>>

\* The steps of a running call.
Step(c) ==
    \/ Args(c) \/ CheckProtected(c) \/ ValidateNode(c)
    \/ ResolveNamed(c) \/ ResolveBegin(c) \/ ResolveEnd(c) \/ ResolveFail(c)
    \/ (Query(c) \/ Resume(c)) /\ UNCHANGED <<config, call>>
    \/ Confirm(c) \/ ConfirmRead(c) \/ Read(c) \/ DryRun(c) \/ Option(c)
    \/ Write(c) \/ SkipWrite(c)

HasGate(t, g) == \E i \in 1..Len(Gates[t]) : Gates[t][i] = g

\* The nodes a tool can be called with: required, optional or no parameter.
NodeArguments(t) ==
    IF HasGate(t, "node") THEN Node
    ELSE IF HasGate(t, "resolve") THEN Place
    ELSE {NoNode}

\* ... and the targets: of add_storage's list of nodes, one.
TargetArguments(t) ==
    IF t \in MigrateTools THEN Node ELSE IF t \in TargetTools THEN Place ELSE {NoNode}

ConfirmArguments(t) == IF t \in ConfirmTools THEN BOOLEAN ELSE {FALSE}

ToolNext ==
    \/ ClusterNext /\ UNCHANGED <<cache, callVars, config, call>>
    \/ \E c \in Call :
          \/ \E t \in Tools, v \in Vmid :
                \E n \in NodeArguments(t), m \in TargetArguments(t), b \in ConfirmArguments(t) :
                   Invoke(c, t, v, n, m, b)
          \/ Step(c)
          \/ Done(c)

ToolSpec == ToolInit /\ [][ToolNext]_toolVars

\* An API request ends, for the client has a timeout, so the event loop gets round
\* to every running call.  Only for tools that send no command over SSH: one may
\* hang (SshPool).
FairToolSpec == ToolSpec /\ \A c \in Call : WF_toolVars(Step(c))

----------------------------------------------------------------------------

Sent(c) == call[c].sent > 0

(***************************************************************************)
(* PROXMOX_DRY_RUN: no tool, on no path through its gates, sends a request *)
(* that changes anything (README, Safety Features: "simulate all write     *)
(* operations").                                                           *)
(***************************************************************************)
DryRunSendsNothing == config.dry_run => \A c \in Call : ~Sent(c)

(***************************************************************************)
(* An answer that says nothing was done is true: a call that is answered   *)
(* dry_run or confirmation_required has not sent any request, not even one *)
(* of several (the disk tools send up to five).                            *)
(***************************************************************************)
RefusalsAreClean ==
    \A c \in Call : call[c].status \in {"dry_run", "confirmation_required"} => ~Sent(c)

(***************************************************************************)
(* A tool that has a confirm parameter changes nothing without it.         *)
(***************************************************************************)
ConfirmedOnly == \A c \in Call : call[c].tool \in ConfirmTools /\ Sent(c) => call[c].confirm

(***************************************************************************)
(* A protected guest is never stopped, reconfigured, rolled back or        *)
(* deleted through its own endpoints, wherever the call was routed.        *)
(***************************************************************************)
ProtectedGuestsKept ==
    \A c \in Call : call[c].tool \in GuestTools /\ Sent(c) =>
        call[c].vmid \notin config.protected

(***************************************************************************)
(* Where the caller says which node a tool is to act on, in the parameter  *)
(* called node, that node is on the allowlist before anything is sent.     *)
(* The second node some tools take is another matter, and so is a node     *)
(* that is detected: see OnlyAllowedNodes.                                 *)
(***************************************************************************)
ActingNodesAllowed == \A c \in Call : call[c].named /\ Sent(c) => Permitted(call[c].node)

(***************************************************************************)
(* A call that resolved its guest's node itself sends its requests to a    *)
(* node that owned the guest less than the cache's TTL before the call     *)
(* resolved it, whatever other calls did to the cache meanwhile.           *)
(***************************************************************************)
SentWhereGuestWas ==
    \A c \in Call : Sent(c) /\ ~call[c].named /\ call[c].node # NoNode =>
        SeenSince(call[c].vmid, call[c].node, call[c].since - TTL + 1)

(***************************************************************************)
(* Every call is answered: no order of gates leaves a handler waiting, not *)
(* even one whose lookup shares the cache with others.                     *)
(***************************************************************************)
EveryCallAnswered == \A c \in Call : Running(c) ~> ~Running(c)

(***************************************************************************)
(* README, Safety Features: "VMs in PROXMOX_PROTECTED_VMIDS cannot be      *)
(* modified, stopped, or deleted".  Refuted: see the findings.             *)
(***************************************************************************)
ProtectedUntouched ==
    \A c \in Call : call[c].tool \in GuestTools \union OtherGuestTools /\ Sent(c) =>
        call[c].vmid \notin config.protected

(***************************************************************************)
(* README, Safety Features: "When PROXMOX_ALLOWED_NODES is set, operations *)
(* are restricted to listed nodes": of the nodes that a request is about,  *)
(* the one it acts on and the one a guest or storage is to go to, one at   *)
(* least is listed.  Refuted, weak as it is: see the findings.             *)
(***************************************************************************)
OnlyAllowedNodes ==
    \A c \in Call : Sent(c) =>
        LET about == { call[c].node, call[c].target } \ {NoNode}
        IN  about # {} => \E n \in about : Permitted(n)

\* What a client asked of a call: the node it named, not one that was resolved since.
AskedOf(r) ==
    [tool |-> r.tool, vmid |-> r.vmid, target |-> r.target, confirm |-> r.confirm,
     node |-> IF r.named THEN r.node ELSE NoNode]

\* Refinement mapping onto PermittedCalls.
Promise == INSTANCE PermittedCalls WITH
    asked <- [c \in Call |-> AskedOf(call[c])],
    sent <- [c \in Call |-> call[c].sent],
    answer <- [c \in Call |->
                 IF call[c].status \in {"idle", "running"} THEN "none" ELSE call[c].status]

(***************************************************************************)
(* The gates implement the specification without gates: each single        *)
(* request is sent while its call is permitted to, and no call is answered *)
(* what is not so, success without a request included.                     *)
(***************************************************************************)
ImplementsPermittedCalls == Promise!Spec

----------------------------------------------------------------------------
\* The inductive invariant.

WriteGates == {"write", "mayWrite"}
ConfirmGates == {"confirm", "confirmRead"}
NodeGates == {"node", "resolve"}

\* What is known of a call that has passed gate g.
Cleared(r, g) ==
    /\ g = "dryrun" => ~config.dry_run
    /\ g \in ConfirmGates => r.confirm
    /\ g = "protected" => r.vmid \notin config.protected
    /\ g \in NodeGates /\ r.named => Permitted(r.node)
    /\ g = "write" => r.sent > 0

\* A call knows of every gate behind it, has sent nothing before the first write
\* gate, was refused at a gate that refuses, and is done at the end or at an option.
Walked(r) ==
    r.status # "idle" =>
        /\ \A j \in 1..(r.at - 1) : Cleared(r, Gates[r.tool][j])
        /\ r.sent > 0 => \E i \in 1..r.at : /\ i <= Len(Gates[r.tool])
                                            /\ Gates[r.tool][i] \in WriteGates
        /\ r.status = "dry_run" =>
              /\ r.at <= Len(Gates[r.tool]) /\ Gates[r.tool][r.at] = "dryrun"
              /\ config.dry_run
        /\ r.status = "confirmation_required" =>
              /\ r.at <= Len(Gates[r.tool]) /\ Gates[r.tool][r.at] \in ConfirmGates
              /\ ~r.confirm
        /\ r.status = "success" =>
              r.at = Len(Gates[r.tool]) + 1 \/ Gates[r.tool][r.at] = "option"

\* Only a call that stands at a resolve gate without a node is in the resolver, and
\* it asks for its own guest.
Resolving ==
    \A c \in Call : pc[c] # "idle" =>
        At(c, "resolve") /\ ~call[c].named /\ arg[c] = call[c].vmid

\* The node a call has resolved was its guest's, whether or not it has sent yet.
ResolvedWhereGuestWas ==
    \A c \in Call : ~call[c].named /\ call[c].node # NoNode =>
        /\ call[c].vmid \in Vmid
        /\ SeenSince(call[c].vmid, call[c].node, call[c].since - TTL + 1)

NamedHasGate ==
    \A c \in Call : call[c].named =>
        \E g \in NodeGates : HasGate(call[c].tool, g)

ToolIInv ==
    /\ ToolTypeOK
    /\ \A c \in Call : Walked(call[c]) /\ (call[c].status = "idle" => call[c] = NoCall)
    /\ Resolving
    /\ ResolvedWhereGuestWas
    /\ NamedHasGate

\* In the gates of tool t, every request comes after a gate of G.
Precedes(G, t) ==
    \A i \in 1..Len(Gates[t]) : Gates[t][i] \in WriteGates =>
        \E j \in 1..(i - 1) : Gates[t][j] \in G

\* ... and no request comes before a gate of G.
PrecedesAny(G, t) ==
    \A i, j \in 1..Len(Gates[t]) :
        Gates[t][i] \in G /\ Gates[t][j] \in WriteGates => i < j

DryRunFirst == \A t \in Tools : Precedes({"dryrun"}, t)
ConfirmFirst == \A t \in Tools \intersect ConfirmTools : Precedes(ConfirmGates, t)
ProtectFirst == \A t \in Tools \intersect GuestTools : Precedes({"protected"}, t)
NodeFirst == \A t \in Tools :
    (\E g \in NodeGates : HasGate(t, g)) => Precedes(NodeGates, t)
RefuseFirst == \A t \in Tools : PrecedesAny({"dryrun"} \union ConfirmGates, t)

\* A handler may be done only after a request that it always sends.
EndsAfterWrite(t) ==
    \A i \in 1..(Len(Gates[t]) + 1) :
        i = Len(Gates[t]) + 1 \/ Gates[t][i] = "option" =>
            \E j \in 1..(i - 1) : Gates[t][j] = "write"

WriteBeforeEnd == \A t \in Tools : EndsAfterWrite(t)

\* A tool that asks for confirmation has the parameter to give it.
ConfirmOffered == \A t \in Tools :
    (\E g \in ConfirmGates : HasGate(t, g)) => t \in ConfirmTools
=============================================================================
