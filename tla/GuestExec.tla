----------------------------- MODULE GuestExec -----------------------------
(***************************************************************************)
(* Commands in guests over SSH (src/proxmox_mcp/tools/ssh_tools.py):       *)
(* install_package, manage_service, transfer_file and execute_script, from *)
(* the discovery of an address to the answer.                              *)
(*                                                                         *)
(* The client sends one shell command, a chain of steps (two commands for  *)
(* install_package), and waits for its exit status until a deadline.  The  *)
(* shell runs on by itself: after the deadline, after the connection is    *)
(* lost, and beside the shells of other calls.  It may also be killed.     *)
(*                                                                         *)
(* One destination in each guest; transfers of one guest meet there.  The  *)
(* calls here have passed their gates and know their node (ToolTable).     *)
(***************************************************************************)
EXTENDS Naturals, FiniteSets

CONSTANTS
    Call, Guest, Address,
    Qemu,        \* the guests that are virtual machines; the others are containers
    Inner,       \* addresses that guests list for networks of their own (docker0)
    Local,       \* loopback and link-local addresses
    TmpApart,    \* the guests whose /tmp is a file system of its own
    FirstOwners, \* the guest (if any) that answers at each address at the start
    MaxChunks,   \* bound: the chunks of a payload
    MaxMoves,    \* bound: the times an address is given to another guest
    Nobody

ASSUME GuestAssumption ==
    /\ Qemu \subseteq Guest /\ TmpApart \subseteq Guest
    /\ Inner \subseteq Address /\ Local \subseteq Address \ Inner
    /\ FirstOwners \subseteq [Address -> Guest \union {Nobody}]
    /\ Nobody \notin Guest \union Call \union Address
    /\ MaxChunks \in Nat \ {0} /\ MaxMoves \in Nat

\* The addresses at which guests are reached from outside.
Outer == Address \ (Inner \union Local)

Tools == { "install_package", "manage_service", "transfer_file", "execute_script" }

Payloads == { "transfer_file", "execute_script" }

\* What the client does.
ClientSteps == { "idle", "agent", "lxc", "probe", "run", "done" }

\* What the shell does; "end" comes before its exit status is read.
ShellSteps == { "mkdir", "mktemp", "write", "mv", "copy", "chmod", "exec", "rm",
                "act", "ask" }

VARIABLES
    owner,   \* the guest (if any) that answers at each address
    moves,   \* how many times an address changed hands
    file,    \* the file at the destination, in each guest
    call     \* what each call and its shell are doing

vars == <<owner, moves, file, call>>

\* A file: the call that put it there, whether it is whole, in which form its text
\* is, whose permissions it has, and the calls whose mv came before and whose chmod
\* was still to come when it was put there.
File == [by : Call \union {Nobody}, whole : BOOLEAN, form : { "text", "base64" },
         mode : Call \union {Nobody, "private"}, crossed : SUBSET Call]
OldFile == [by |-> Nobody, whole |-> TRUE, form |-> "text", mode |-> Nobody, crossed |-> {}]

NoCall == [tool |-> "none", guest |-> Nobody, given |-> FALSE, ip |-> Nobody,
           moved |-> FALSE, reached |-> {}, step |-> "idle", answer |-> "none",
           at |-> Nobody, shell |-> "none", exit |-> "none", broke |-> "no",
           chunks |-> 1, temp |-> 0, loud |-> FALSE, ran |-> "no"]

CallState ==
    [tool : Tools \union {"none"}, guest : Guest \union {Nobody},
     given : BOOLEAN,                       \* target_ip was given
     ip : Address \union {Nobody},
     moved : BOOLEAN,                       \* the address changed hands since it was found
     reached : SUBSET Guest,                \* the guests its commands ran in
     step : ClientSteps, answer : { "none", "success", "error" },
     at : Guest \union {Nobody},            \* where its shell runs
     shell : ShellSteps \union { "none", "end" },
     exit : { "none", "ok", "failed" },
     broke : { "no", "failed", "killed" },  \* a step of its chain failed, or it was killed
     chunks : 1..MaxChunks,
     temp : 0..(MaxChunks + 1),             \* 0: no temporary file; else the chunks in it + 1
     loud : BOOLEAN,                        \* the script's output fills the channel's window
     ran : { "no", "ok", "failed", "cut" }]  \* what became of the script

TypeOK ==
    /\ owner \in [Address -> Guest \union {Nobody}]
    /\ moves \in 0..MaxMoves
    /\ file \in [Guest -> File]
    /\ call \in [Call -> CallState]

Init ==
    /\ owner \in FirstOwners
    /\ moves = 0
    /\ file = [g \in Guest |-> OldFile]
    /\ call = [c \in Call |-> NoCall]

----------------------------------------------------------------------------
\* The client.

Set(c, r) == call' = [call EXCEPT ![c] = r]

At(c, step) == call[c].step = step

\* Where a call goes on when it has its address.
FirstCommand(tool) == IF tool = "install_package" THEN "probe" ELSE "run"

Answered(r, a) == [r EXCEPT !.step = "done", !.answer = a]

Start(c, tool, g, n, l) ==
    /\ call[c] = NoCall
    /\ Set(c, [NoCall EXCEPT !.tool = tool, !.guest = g, !.chunks = n, !.loud = l,
                             !.step = "agent"])
    /\ UNCHANGED <<owner, moves, file>>

\* With target_ip the guest's vmid is used only to find a node.
StartGiven(c, tool, n, l, a) ==
    /\ call[c] = NoCall
    /\ Set(c, [NoCall EXCEPT !.tool = tool, !.chunks = n, !.loud = l,
                             !.given = TRUE, !.ip = a, !.step = FirstCommand(tool)])
    /\ UNCHANGED <<owner, moves, file>>

\* Mutant of Usable: loopback and link-local addresses are taken too.
UsableUnfiltered(g) == { a \in Outer : owner[a] = g } \union Inner \union Local

\* The addresses of g's interfaces that the tools take: all that g lists but for the
\* loopback and link-local ones.  Which one comes first is up to the guest.
Usable(g) == { a \in Outer : owner[a] = g } \union Inner

Probes(g) == IF g \in Qemu THEN "agent" ELSE "lxc"

Discover(c) ==
    /\ call[c].step \in { "agent", "lxc" }
    /\ Probes(call[c].guest) = call[c].step
    /\ \E a \in Usable(call[c].guest) :
          Set(c, [call[c] EXCEPT !.ip = a, !.step = FirstCommand(call[c].tool)])
    /\ UNCHANGED <<owner, moves, file>>

\* The interfaces are there, but no address is usable: not every guest has networks
\* of its own.
NoUsable(c) ==
    /\ call[c].step \in { "agent", "lxc" }
    /\ Probes(call[c].guest) = call[c].step
    /\ Usable(call[c].guest) \subseteq Inner
    /\ Set(c, Answered(call[c], "error"))
    /\ UNCHANGED <<owner, moves, file>>

\* Any exception, and an empty list, lead from the one probe to the other.
NoAgent(c) ==
    /\ At(c, "agent")
    /\ Set(c, [call[c] EXCEPT !.step = "lxc"])
    /\ UNCHANGED <<owner, moves, file>>

NoInterfaces(c) ==
    /\ At(c, "lxc")
    /\ Set(c, Answered(call[c], "error"))
    /\ UNCHANGED <<owner, moves, file>>

\* The first step of a shell.
Opens(r) ==
    CASE r.step = "probe" -> "ask"
      [] r.tool = "transfer_file" -> "mkdir"
      [] r.tool = "execute_script" -> "mktemp"
      [] OTHER -> "act"

Waiting(r) == r.step \in { "probe", "run" } /\ r.shell # "none"

Send(c) ==
    /\ call[c].step \in { "probe", "run" } /\ call[c].shell = "none"
    /\ LET g == owner[call[c].ip]
       IN  /\ g # Nobody
           /\ Set(c, [call[c] EXCEPT !.at = g, !.reached = @ \union {g},
                                     !.shell = Opens(call[c])])
    /\ UNCHANGED <<owner, moves, file>>

ConnectFails(c) ==
    /\ call[c].step \in { "probe", "run" } /\ call[c].shell = "none"
    /\ Set(c, Answered(call[c], "error"))
    /\ UNCHANGED <<owner, moves, file>>

\* Mutant of Collect: whatever the exit status, there was an answer.
CollectUntested(c) ==
    /\ Waiting(call[c]) /\ call[c].shell = "end" /\ call[c].exit # "none"
    /\ Set(c, IF At(c, "probe")
              THEN [call[c] EXCEPT !.step = "run", !.shell = "none", !.exit = "none",
                                   !.at = Nobody]
              ELSE Answered(call[c], "success"))
    /\ UNCHANGED <<owner, moves, file>>

\* The shell has ended in time.  The probe is an error if no manager was found.
Collect(c) ==
    /\ Waiting(call[c]) /\ call[c].shell = "end" /\ call[c].exit # "none"
    /\ Set(c, IF At(c, "probe") /\ call[c].exit = "ok"
              THEN [call[c] EXCEPT !.step = "run", !.shell = "none", !.exit = "none",
                                   !.at = Nobody]
              ELSE Answered(call[c], IF call[c].exit = "ok" THEN "success" ELSE "error"))
    /\ UNCHANGED <<owner, moves, file>>

\* The deadline passes, or the connection is lost.
GiveUp(c) ==
    /\ Waiting(call[c])
    /\ Set(c, Answered(call[c], "error"))
    /\ UNCHANGED <<owner, moves, file>>

----------------------------------------------------------------------------
\* The shell.

In(c, step) == call[c].shell = step

Ends(r, e) == [r EXCEPT !.shell = "end", !.exit = e]

\* Mutant of Failing: the temporary file is removed only after a script that ran.
FailingKeepsTemp(r) == Ends([r EXCEPT !.broke = "failed"], "failed")

\* Mutant of Failing: the commands of a script's chain are joined by ; throughout.
FailingRunsOn(r) ==
    IF r.tool = "execute_script" THEN [r EXCEPT !.shell = "exec", !.broke = "failed"]
    ELSE Ends([r EXCEPT !.broke = "failed"], "failed")

\* A step fails: && ends the chain.  What comes after ; in that of a script is rm.
Failing(r) ==
    IF r.tool = "execute_script" THEN [r EXCEPT !.shell = "rm", !.broke = "failed"]
    ELSE Ends([r EXCEPT !.broke = "failed"], "failed")

MakeDir(c) ==
    /\ In(c, "mkdir")
    /\ Set(c, [call[c] EXCEPT !.shell = "mktemp"])
    /\ UNCHANGED <<owner, moves, file>>

MakeTemp(c) ==
    /\ In(c, "mktemp")
    /\ Set(c, [call[c] EXCEPT !.shell = "write", !.temp = 1])
    /\ UNCHANGED <<owner, moves, file>>

\* Mutants of AfterWrite: one chunk too few, and one too many.
AfterWriteEarly(r) ==
    IF r.temp < r.chunks THEN "write"
    ELSE IF r.tool = "execute_script" THEN "exec" ELSE "mv"
AfterWriteLate(r) ==
    IF r.temp <= r.chunks + 1 THEN "write"
    ELSE IF r.tool = "execute_script" THEN "exec" ELSE "mv"

\* The step after a chunk, r.temp - 1 of them being written.  A chown that was
\* asked for is part of the last one.
AfterWrite(r) ==
    IF r.temp <= r.chunks THEN "write"
    ELSE IF r.tool = "execute_script" THEN "exec" ELSE "mv"

Write(c) ==
    /\ In(c, "write")
    /\ LET r == [call[c] EXCEPT !.temp = @ + 1]
       IN  Set(c, [r EXCEPT !.shell = AfterWrite(r)])
    /\ UNCHANGED <<owner, moves, file>>

\* The calls that have moved their file into guest g and not yet set its mode.
BetweenMvAndChmod(g) == { d \in Call : call[d].at = g /\ In(d, "chmod") }

\* The file of call c as mv leaves it: what the chunks hold is never decoded.
Moved(c) ==
    [by |-> c, whole |-> call[c].temp = call[c].chunks + 1, form |-> "base64",
     mode |-> "private", crossed |-> BetweenMvAndChmod(call[c].at)]

Move(c) ==
    /\ In(c, "mv") /\ call[c].at \notin TmpApart
    /\ file' = [file EXCEPT ![call[c].at] = Moved(c)]
    /\ Set(c, [call[c] EXCEPT !.shell = "chmod", !.temp = 0])
    /\ UNCHANGED <<owner, moves>>

\* From another file system mv copies, then removes.
Copy(c) ==
    /\ In(c, "mv") /\ call[c].at \in TmpApart
    /\ file' = [file EXCEPT ![call[c].at] = [Moved(c) EXCEPT !.whole = FALSE]]
    /\ Set(c, [call[c] EXCEPT !.shell = "copy"])
    /\ UNCHANGED <<owner, moves>>

Copied(c) ==
    /\ In(c, "copy")
    /\ file' = [file EXCEPT ![call[c].at] = Moved(c)]
    /\ Set(c, [call[c] EXCEPT !.shell = "chmod", !.temp = 0])
    /\ UNCHANGED <<owner, moves>>

\* Mutant of ChangeMode: it comes before mv.
ChangeModeFirst(c) ==
    /\ In(c, "mv")
    /\ file' = [file EXCEPT ![call[c].at].mode = c]
    /\ UNCHANGED <<owner, moves, call>>

ChangeMode(c) ==
    /\ In(c, "chmod")
    /\ file' = [file EXCEPT ![call[c].at].mode = c]
    /\ Set(c, Ends(call[c], "ok"))
    /\ UNCHANGED <<owner, moves>>

\* A loud script fills the channel's window and waits to be read, which the client
\* does only after the exit; when the client has closed the channel it is cut off.
CanEnd(r) == r.loud => ~Waiting(r)

Execute(c) ==
    /\ In(c, "exec") /\ CanEnd(call[c])
    /\ \E how \in IF call[c].loud THEN { "cut" } ELSE { "ok", "failed" } :
          Set(c, [call[c] EXCEPT !.ran = how, !.shell = "rm"])
    /\ UNCHANGED <<owner, moves, file>>

\* The exit status of a script's chain is that of rm -f.
Remove(c) ==
    /\ In(c, "rm")
    /\ Set(c, Ends([call[c] EXCEPT !.temp = 0], "ok"))
    /\ UNCHANGED <<owner, moves, file>>

\* systemctl, or the package manager, or the search for one.
Act(c) ==
    /\ call[c].shell \in { "act", "ask" }
    /\ Set(c, Ends(call[c], "ok"))
    /\ UNCHANGED <<owner, moves, file>>

\* Any other step than rm -f and the script itself fails: a full disk, say.
StepFails(c) ==
    /\ call[c].shell \in ShellSteps \ { "exec", "rm" }
    /\ Set(c, Failing(call[c]))
    /\ UNCHANGED <<owner, moves, file>>

\* The shell is killed, or its guest stops: it has no exit status.
Kill(c) ==
    /\ call[c].shell \in ShellSteps
    /\ Set(c, [call[c] EXCEPT !.shell = "end", !.broke = "killed"])
    /\ UNCHANGED <<owner, moves, file>>

----------------------------------------------------------------------------
\* An address is given to another guest.
GiveAddress(a, g) ==
    /\ moves < MaxMoves /\ owner[a] # g
    /\ owner' = [owner EXCEPT ![a] = g]
    /\ moves' = moves + 1
    /\ call' = [d \in Call |->
                  [call[d] EXCEPT !.moved = @ \/ (call[d].ip = a /\ ~At(d, "done"))]]
    /\ UNCHANGED file

Client(c) ==
    \/ Discover(c) \/ NoUsable(c) \/ NoAgent(c) \/ NoInterfaces(c)
    \/ Send(c) \/ ConnectFails(c) \/ Collect(c) \/ GiveUp(c)

Shell(c) ==
    \/ MakeDir(c) \/ MakeTemp(c) \/ Write(c) \/ Move(c) \/ Copy(c) \/ Copied(c)
    \/ ChangeMode(c) \/ Execute(c) \/ Remove(c) \/ Act(c) \/ StepFails(c) \/ Kill(c)

Next ==
    \/ \E c \in Call :
          \/ \E tool \in Tools, n \in 1..MaxChunks, l \in BOOLEAN :
                /\ l => tool = "execute_script"
                /\ n > 1 => tool \in Payloads
                /\ \/ \E g \in Guest : Start(c, tool, g, n, l)
                   \/ \E a \in Outer : StartGiven(c, tool, n, l, a)
          \/ Client(c) \/ Shell(c)
    \/ \E a \in Outer, g \in Guest : GiveAddress(a, g)

Spec == Init /\ [][Next]_vars

----------------------------------------------------------------------------
\* Properties

\* A command whose address was discovered runs in the guest it was meant for, if the
\* address is one at which guests are reached from outside and did not change hands
\* on the way: _resolve_vm_ip keeps to addresses of that guest, the first that is
\* neither loopback nor link-local.
RightGuest ==
    \A c \in Call :
        ~call[c].given /\ ~call[c].moved /\ call[c].ip \notin Inner
        => call[c].reached \subseteq {call[c].guest}

\* The destination holds a payload written to its end, the old file or one call's,
\* whichever step fails and whoever is killed, unless /tmp is a file system apart
\* (transfer_file: mktemp, printf, mv).
WholeFile ==
    \A g \in Guest \ TmpApart : file[g].whole

\* A transferred file has mktemp's private mode or its own call's, or that of a call
\* whose transfer crossed: chmod names the destination, so it may strike a file that
\* another call has put there since (transfer_file).
OwnMode ==
    \A g \in Guest :
        file[g].mode \in {file[g].by, "private"} \union file[g].crossed

\* When a shell has ended, its temporary file is left only if it was killed or if it
\* was a transfer that failed; a script leaves none, though any of its steps may
\* fail or the client may be gone (execute_script: ...; rm -f "$TMPF").
TempsRemoved ==
    \A c \in Call : call[c].shell = "end" /\ call[c].temp # 0
        => \/ call[c].broke = "killed"
           \/ call[c].tool = "transfer_file" /\ call[c].broke = "failed"

\* A transfer that was answered with success has put its file there, whole and with
\* the permissions asked for: it is there still, unless another call's transfer went
\* to the same guest, which may only have replaced it or struck it with its own chmod
\* (transfer_file: one chain joined by &&, result.success).
SuccessDelivered ==
    \A c \in Call :
        call[c].tool = "transfer_file" /\ call[c].answer = "success"
        => LET f == file[call[c].at]
               others == { d \in Call \ {c} : /\ call[d].tool = "transfer_file"
                                              /\ call[d].at = call[c].at }
           IN  \/ f.by = c /\ f.whole /\ f.mode \in {c} \union (f.crossed \intersect others)
               \/ f.by \in others

\* A script runs only when the whole of it was written, never after a step of its
\* chain has failed, however many calls run and whatever else breaks (execute_script:
\* the chunks joined by &&, then base64 -d).
WholeScript ==
    \A c \in Call :
        /\ In(c, "exec") => call[c].temp = call[c].chunks + 1
        /\ In(c, "exec") \/ call[c].ran # "no" => call[c].broke # "failed"

\* Refuted (see the findings): after a transfer that was answered with success, a
\* file of that call holds the text (transfer_file).
TextTransferred ==
    \A c \in Call, g \in Guest :
        call[c].answer = "success" /\ file[g].by = c => file[g].form = "text"
=============================================================================
