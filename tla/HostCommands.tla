---------------------------- MODULE HostCommands ----------------------------
(***************************************************************************)
(* What SSHExecutor promises of its connections (src/proxmox_mcp/ssh.py),  *)
(* with neither a cache nor a lock: a command gets a connection to its own *)
(* host that is up, either a new one or one on which no command has failed *)
(* before.  Connections may be closed at any time, those in use included.  *)
(* SshPool is shown to implement this.                                     *)
(***************************************************************************)
CONSTANTS Thread, Key, Client, NoKey, NoClient

VARIABLES
    conn,     \* the state of each connection
    home,     \* the key it was made for
    failed,   \* those on which a command failed and was answered so
    pc,       \* where each thread is with its command
    key,      \* the key of the command
    using     \* the connection it runs on

vars == <<conn, home, failed, pc, key, using>>

Init ==
    /\ conn = [c \in Client |-> "none"]
    /\ home = [c \in Client |-> NoKey]
    /\ failed = {}
    /\ pc = [t \in Thread |-> "idle"]
    /\ key = [t \in Thread |-> NoKey]
    /\ using = [t \in Thread |-> NoClient]

\* The connections that are there to be closed.
Open == { c \in Client : conn[c] \in {"live", "dead"} }

Closing(C) == [c \in Client |-> IF c \in C THEN "closed" ELSE conn[c]]

\* A command is given.
Ask(t, k) ==
    /\ pc[t] = "idle"
    /\ pc' = [pc EXCEPT ![t] = "wait"]
    /\ key' = [key EXCEPT ![t] = k]
    /\ UNCHANGED <<conn, home, failed, using>>

RunOn(t, c) ==
    /\ pc[t] = "wait"
    /\ pc' = [pc EXCEPT ![t] = "exec"]
    /\ using' = [using EXCEPT ![t] = c]
    /\ UNCHANGED <<failed, key>>

\* It runs on a connection made before, for the same host, user and key path.
RunOnOld(t, c) ==
    /\ RunOn(t, c)
    /\ conn[c] = "live" /\ home[c] = key[t] /\ c \notin failed
    /\ UNCHANGED <<conn, home>>

\* It runs on a new connection, for which others may have to go.
RunOnNew(t, c) ==
    /\ RunOn(t, c)
    /\ conn[c] = "none"
    /\ \E C \in SUBSET Open : conn' = [Closing(C) EXCEPT ![c] = "live"]
    /\ home' = [home EXCEPT ![c] = key[t]]

Succeed(t) ==
    /\ pc[t] = "exec" /\ conn[using[t]] = "live"
    /\ pc' = [pc EXCEPT ![t] = "success"]
    /\ UNCHANGED <<conn, home, failed, key, using>>

Fail(t) ==
    /\ pc[t] = "exec"
    /\ pc' = [pc EXCEPT ![t] = "error"]
    /\ UNCHANGED <<conn, home, failed, key, using>>

\* The answer is given: of a command that got no connection, that succeeded, or that
\* failed and whose connection is not used again.
Answer(t) ==
    /\ pc[t] \in {"wait", "success", "error"}
    /\ pc' = [pc EXCEPT ![t] = "idle"]
    /\ key' = [key EXCEPT ![t] = NoKey]
    /\ using' = [using EXCEPT ![t] = NoClient]
    /\ IF pc[t] = "error"
       THEN /\ failed' = failed \union {using[t]}
            /\ \E C \in SUBSET Open : conn' = Closing(C)
       ELSE UNCHANGED <<failed, conn>>
    /\ UNCHANGED home

CloseSome ==
    /\ \E C \in SUBSET Open : conn' = Closing(C)
    /\ UNCHANGED <<home, failed, pc, key, using>>

Lose(c) ==
    /\ conn[c] = "live"
    /\ conn' = [conn EXCEPT ![c] = "dead"]
    /\ UNCHANGED <<home, failed, pc, key, using>>

Next ==
    \/ \E t \in Thread : \/ \E k \in Key : Ask(t, k)
                         \/ \E c \in Client : RunOnOld(t, c) \/ RunOnNew(t, c)
                         \/ Succeed(t) \/ Fail(t) \/ Answer(t)
    \/ CloseSome
    \/ \E c \in Client : Lose(c)

Spec == Init /\ [][Next]_vars
=============================================================================
