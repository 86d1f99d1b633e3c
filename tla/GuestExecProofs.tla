-------------------------- MODULE GuestExecProofs --------------------------
(***************************************************************************)
(* The invariants of GuestExec hold for any sets of calls, guests and      *)
(* addresses, payloads of any number of chunks and any number of moves of  *)
(* addresses.                                                              *)
(***************************************************************************)
EXTENDS GuestExec, TLAPS

\* What holds of the record of one call, whatever the others do: which step belongs
\* to which tool, how much is in the temporary file at each step, what an exit status
\* and an answer imply, and where its commands went.
Fine(r) ==
    /\ r.shell # "none" => r.at \in Guest /\ r.step \in { "probe", "run", "done" }
    /\ r.step \in { "probe", "run" } => r.ip \in Address
    /\ r.step \in { "idle", "agent", "lxc" } => r.reached = {}
    /\ r.step = "probe" => r.tool = "install_package"
    /\ r.tool \notin Payloads => r.temp = 0
    /\ r.shell \in { "mkdir", "mv", "copy", "chmod" } => r.tool = "transfer_file"
    /\ r.shell \in { "exec", "rm" } => r.tool = "execute_script"
    /\ r.shell \in { "mktemp", "write" } => r.tool \in Payloads
    /\ r.shell \in { "none", "mkdir", "mktemp", "chmod", "act", "ask" } => r.temp = 0
    /\ r.shell = "write" => r.temp \in 1..r.chunks
    /\ r.shell \in { "mv", "copy" } => r.temp = r.chunks + 1
    /\ r.shell = "end" /\ r.temp # 0
       => r.broke = "killed" \/ (r.tool = "transfer_file" /\ r.broke = "failed")
    /\ r.shell = "none" => r.at = Nobody
    /\ r.shell \in { "act", "ask" } => r.tool \notin Payloads
    /\ r.shell = "exec" => r.temp = r.chunks + 1
    /\ r.exit # "none" => r.shell = "end"
    /\ r.exit = "ok" /\ r.broke # "no" => r.tool = "execute_script"
    /\ r.answer = "success" => r.exit = "ok" /\ r.step = "done"
    /\ r.ran # "no" => r.tool = "execute_script" /\ r.broke # "failed"
    /\ r.ran # "no" \/ r.broke # "no" => r.shell \in { "rm", "end" }
    /\ ~r.given /\ ~r.moved /\ r.ip \notin Inner => r.reached \subseteq {r.guest}

\* An address that was found and did not change hands still leads to its guest.
Leads(r, own) ==
    ~r.given /\ ~r.moved /\ r.ip \notin Inner /\ r.step \in { "probe", "run" }
    => own[r.ip] = r.guest

\* A call whose chmod is to come put the file there, or crossed the one that did.
MayChangeMode(c, r, files) ==
    r.shell = "chmod" => files[r.at].by = c \/ c \in files[r.at].crossed

\* A transfer whose mv is done, and no step of which failed since.
Landed(r) ==
    r.tool = "transfer_file" /\ (r.shell = "chmod" \/ (r.shell = "end" /\ r.exit = "ok"))

\* The other calls whose transfers went to the guest of call c.
Others(c, calls) ==
    { d \in Call \ {c} : calls[d].tool = "transfer_file" /\ calls[d].at = calls[c].at }

\* What a transfer that landed finds at the destination, before its chmod and after.
Delivered(c, calls, files) ==
    Landed(calls[c])
    => LET f == files[calls[c].at]
       IN  \/ /\ f.by = c /\ f.whole
              /\ calls[c].shell = "end" => f.mode \in {c} \union (f.crossed \intersect Others(c, calls))
           \/ f.by \in Others(c, calls)

\* A step that leaves a call's transfer in its guest, and lands none.
Stays(q, r) ==
    /\ q.tool = "transfer_file" /\ q.at # Nobody => r.tool = "transfer_file" /\ r.at = q.at
    /\ Landed(r) => Landed(q) /\ r.at = q.at /\ r.shell = q.shell

\* The inductive invariant.
IInv ==
    /\ TypeOK
    /\ \A c \in Call : Fine(call[c])
    /\ \A c \in Call : Leads(call[c], owner)
    /\ \A c \in Call : MayChangeMode(c, call[c], file)
    /\ \A c \in Call : Delivered(c, call, file)
    /\ WholeFile
    /\ OwnMode

----------------------------------------------------------------------------
\* The names of steps that records are updated with.
LEMMA Names ==
    /\ "agent" \in ClientSteps /\ "lxc" \in ClientSteps
    /\ "run" \in ClientSteps /\ "done" \in ClientSteps
    /\ \A tool : FirstCommand(tool) \in ClientSteps
    /\ \A r : Opens(r) \in ShellSteps
    /\ "mktemp" \in ShellSteps /\ "write" \in ShellSteps /\ "mv" \in ShellSteps
    /\ "exec" \in ShellSteps /\ "copy" \in ShellSteps /\ "chmod" \in ShellSteps
    /\ "rm" \in ShellSteps
BY DEF ClientSteps, ShellSteps, FirstCommand, Opens

LEMMA NoCallTyped == NoCall \in CallState
<1>1. "idle" \in ClientSteps /\ 1 \in 1..MaxChunks /\ 0 \in 0..(MaxChunks + 1)
  BY GuestAssumption DEF ClientSteps
<1>2. QED
  BY <1>1 DEF NoCall, CallState

\* A step of call c that leaves the others alone: what is to be shown is about c.
LEMMA SetKeeps ==
    ASSUME NEW c \in Call, NEW r, Set(c, r), IInv, UNCHANGED <<owner, moves, file>>,
           r \in CallState, Fine(r), Leads(r, owner), Stays(call[c], r),
           r.shell = "chmod" => call[c].shell = "chmod" /\ r.at = call[c].at
    PROVE  IInv'
<1>1. /\ call' \in [Call -> CallState]
      /\ call'[c] = r
      /\ \A d \in Call \ {c} : call'[d] = call[d]
  BY DEF Set, IInv, TypeOK
<1>2. TypeOK'
  BY <1>1 DEF IInv, TypeOK
<1>3. \A d \in Call : Fine(call'[d])
  BY <1>1 DEF IInv
<1>4. \A d \in Call : Leads(call'[d], owner')
  BY <1>1 DEF IInv
<1>5. \A d \in Call : MayChangeMode(d, call'[d], file')
  <2>1. MayChangeMode(c, call'[c], file')
    BY <1>1 DEF IInv, MayChangeMode
  <2>2. ASSUME NEW d \in Call \ {c} PROVE MayChangeMode(d, call'[d], file')
    BY <2>2, <1>1 DEF IInv
  <2>3. QED
    BY <2>1, <2>2
<1>6. WholeFile' /\ OwnMode'
  BY DEF IInv, WholeFile, OwnMode
<1>7. ASSUME NEW d \in Call PROVE Delivered(d, call', file')
  <2>1. SUFFICES ASSUME Landed(call'[d]) PROVE Delivered(d, call', file')
    BY DEF Delivered
  <2>2. Landed(call[d]) /\ call'[d].at = call[d].at /\ call'[d].shell = call[d].shell
    BY <2>1, <1>1 DEF Stays
  <2>3. call[d].at # Nobody
    BY <2>2, GuestAssumption DEF IInv, Fine, Landed
  <2>4. Others(d, call) \subseteq Others(d, call')
    BY <2>2, <2>3, <1>1 DEF Others, Stays
  <2>5. Delivered(d, call, file) /\ file' = file
    BY DEF IInv
  <2>6. QED
    BY <2>2, <2>4, <2>5 DEF Delivered
<1>8. QED
  BY <1>2, <1>3, <1>4, <1>5, <1>6, <1>7 DEF IInv

\* The facts about call c that each step begins with.
LEMMA Facts ==
    ASSUME IInv, NEW c \in Call
    PROVE  /\ call[c] \in CallState
           /\ Fine(call[c])
           /\ Leads(call[c], owner)
           /\ MayChangeMode(c, call[c], file)
BY DEF IInv, TypeOK

LEMMA StartKeeps ==
    ASSUME IInv, NEW c \in Call, NEW tool \in Tools, NEW g \in Guest, NEW n \in 1..MaxChunks,
           NEW l \in BOOLEAN, Start(c, tool, g, n, l)
    PROVE  IInv'
<1> DEFINE r == [NoCall EXCEPT !.tool = tool, !.guest = g, !.chunks = n, !.loud = l,
                               !.step = "agent"]
<1>1. r \in CallState
  BY NoCallTyped, Names DEF CallState
<1>2. Fine(r) /\ Leads(r, owner) /\ Stays(call[c], r) /\ r.shell # "chmod"
  BY DEF Start, NoCall, Fine, Leads, Stays, Landed
<1>3. QED
  BY <1>1, <1>2, SetKeeps DEF Start

LEMMA StartGivenKeeps ==
    ASSUME IInv, NEW c \in Call, NEW tool \in Tools, NEW n \in 1..MaxChunks,
           NEW l \in BOOLEAN, NEW a \in Address, StartGiven(c, tool, n, l, a)
    PROVE  IInv'
<1> DEFINE r == [NoCall EXCEPT !.tool = tool, !.chunks = n, !.loud = l,
                               !.given = TRUE, !.ip = a, !.step = FirstCommand(tool)]
<1>1. r \in CallState
  BY NoCallTyped, Names DEF CallState
<1>2. Fine(r) /\ Leads(r, owner) /\ Stays(call[c], r) /\ r.shell # "chmod"
  BY DEF StartGiven, NoCall, Fine, Leads, Stays, Landed, FirstCommand
<1>3. QED
  BY <1>1, <1>2, SetKeeps DEF StartGiven

LEMMA DiscoverKeeps ==
    ASSUME IInv, NEW c \in Call, Discover(c)
    PROVE  IInv'
<1>1. PICK a \in Usable(call[c].guest) :
        Set(c, [call[c] EXCEPT !.ip = a, !.step = FirstCommand(call[c].tool)])
  BY DEF Discover
<1> DEFINE r == [call[c] EXCEPT !.ip = a, !.step = FirstCommand(call[c].tool)]
<1>2. a \in Address /\ (a \in Inner \/ owner[a] = call[c].guest)
  BY GuestAssumption DEF Usable, Outer
<1>3. call[c] \in CallState /\ Fine(call[c])
  BY Facts
<1>4. FirstCommand(call[c].tool) \in ClientSteps
  BY Names
<1>5. r \in CallState
  BY <1>2, <1>3, <1>4 DEF CallState
<1>6. Fine(r) /\ Leads(r, owner) /\ Stays(call[c], r) /\ r.shell # "chmod"
  BY <1>2, <1>3 DEF Fine, Leads, Stays, Landed, FirstCommand, Discover, CallState
<1>7. QED
  BY <1>1, <1>5, <1>6, SetKeeps DEF Discover

LEMMA AnsweredKeeps ==
    ASSUME IInv, NEW c \in Call, NEW a \in { "success", "error" },
           a = "success" => call[c].exit = "ok",
           Set(c, Answered(call[c], a)), UNCHANGED <<owner, moves, file>>
    PROVE  IInv'
<1>1. call[c] \in CallState /\ Fine(call[c]) /\ "done" \in ClientSteps
  BY Facts, Names
<1>2. Answered(call[c], a) \in CallState
  BY <1>1, ZenonT(60) DEF Answered, CallState
<1>3. /\ Fine(Answered(call[c], a)) /\ Leads(Answered(call[c], a), owner)
      /\ Stays(call[c], Answered(call[c], a))
      /\ Answered(call[c], a).shell = call[c].shell /\ Answered(call[c], a).at = call[c].at
  BY <1>1 DEF Answered, Fine, Leads, Stays, Landed, CallState
<1>4. QED
  BY <1>2, <1>3, SetKeeps

LEMMA NoAgentKeeps ==
    ASSUME IInv, NEW c \in Call, NoAgent(c)
    PROVE  IInv'
<1> DEFINE r == [call[c] EXCEPT !.step = "lxc"]
<1>1. call[c] \in CallState /\ Fine(call[c]) /\ "lxc" \in ClientSteps
  BY Facts, Names
<1>2. r \in CallState
  BY <1>1 DEF CallState
<1>3. Fine(r) /\ Leads(r, owner) /\ Stays(call[c], r) /\ r.shell # "chmod"
  BY <1>1 DEF NoAgent, At, Fine, Leads, Stays, Landed, CallState
<1>4. QED
  BY <1>2, <1>3, SetKeeps DEF NoAgent

LEMMA SendKeeps ==
    ASSUME IInv, NEW c \in Call, Send(c)
    PROVE  IInv'
<1> DEFINE g == owner[call[c].ip]
           r == [call[c] EXCEPT !.at = g, !.reached = @ \union {g}, !.shell = Opens(call[c])]
<1>1. call[c] \in CallState /\ Fine(call[c]) /\ Leads(call[c], owner)
  BY Facts
<1>2. Opens(call[c]) \in ShellSteps
  BY Names
<1>3. g \in Guest
  <2>1. call[c].ip \in Address
    BY <1>1 DEF Send, Fine
  <2>2. QED
    BY <2>1 DEF Send, IInv, TypeOK
<1> HIDE DEF g
<1>4. r \in CallState
  BY <1>1, <1>2, <1>3 DEF CallState
<1>5. Leads(r, owner) /\ Stays(call[c], r) /\ r.shell # "chmod"
  BY <1>1 DEF Send, Leads, Stays, Landed, Opens, Fine, CallState
<1>6. Fine(r)
  <2>1. ~r.given /\ ~r.moved /\ r.ip \notin Inner => r.reached \subseteq {r.guest}
    BY <1>1 DEF Send, Fine, Leads, CallState, g
  <2>2. QED
    BY <2>1, <1>1, <1>3 DEF Send, Fine, Opens, CallState, Payloads, Tools
<1>7. QED
  BY <1>4, <1>5, <1>6, SetKeeps DEF Send, g

LEMMA CollectKeeps ==
    ASSUME IInv, NEW c \in Call, Collect(c)
    PROVE  IInv'
<1>1. call[c] \in CallState /\ Fine(call[c]) /\ Leads(call[c], owner) /\ "run" \in ClientSteps
  BY Facts, Names
<1>3. CASE At(c, "probe") /\ call[c].exit = "ok"
  <2> DEFINE r == [call[c] EXCEPT !.step = "run", !.shell = "none", !.exit = "none",
                                  !.at = Nobody]
  <2>1. r \in CallState
    BY <1>1 DEF CallState
  <2>2. Fine(r) /\ Leads(r, owner) /\ Stays(call[c], r) /\ r.shell # "chmod"
    BY <1>1, <1>3 DEF At, Fine, Leads, Stays, Landed, CallState, Payloads
  <2>3. QED
    BY <1>3, <2>1, <2>2, SetKeeps DEF Collect
<1>4. CASE ~(At(c, "probe") /\ call[c].exit = "ok")
  <2>1. PICK a \in { "success", "error" } :
          Set(c, Answered(call[c], a)) /\ (a = "success" => call[c].exit = "ok")
    BY <1>4 DEF Collect
  <2>2. QED
    BY <2>1, AnsweredKeeps DEF Collect
<1>5. QED
  BY <1>3, <1>4

----------------------------------------------------------------------------
\* The steps of the shell that change no file.

LEMMA MakeDirKeeps ==
    ASSUME IInv, NEW c \in Call, MakeDir(c)
    PROVE  IInv'
<1> DEFINE r == [call[c] EXCEPT !.shell = "mktemp"]
<1>1. call[c] \in CallState /\ Fine(call[c]) /\ Leads(call[c], owner) /\ "mktemp" \in ShellSteps
  BY Facts, Names
<1>2. r \in CallState
  BY <1>1 DEF CallState
<1>3. Fine(r) /\ Leads(r, owner) /\ Stays(call[c], r) /\ r.shell # "chmod"
  BY <1>1 DEF MakeDir, In, Fine, Leads, Stays, Landed, CallState, Payloads
<1>4. QED
  BY <1>2, <1>3, SetKeeps DEF MakeDir

LEMMA MakeTempKeeps ==
    ASSUME IInv, NEW c \in Call, MakeTemp(c)
    PROVE  IInv'
<1> DEFINE r == [call[c] EXCEPT !.shell = "write", !.temp = 1]
<1>1. call[c] \in CallState /\ Fine(call[c]) /\ Leads(call[c], owner) /\ "write" \in ShellSteps
  BY Facts, Names
<1>2. 1 \in 0..(MaxChunks + 1)
  BY GuestAssumption
<1>3. r \in CallState
  BY <1>1, <1>2 DEF CallState
<1>4. call[c].chunks \in 1..MaxChunks
  BY <1>1 DEF CallState
<1>5. Fine(r) /\ Leads(r, owner) /\ Stays(call[c], r) /\ r.shell # "chmod"
  BY <1>1, <1>4, GuestAssumption DEF MakeTemp, In, Fine, Leads, Stays, Landed, CallState
<1>6. QED
  BY <1>3, <1>5, SetKeeps DEF MakeTemp

LEMMA WriteKeeps ==
    ASSUME IInv, NEW c \in Call, Write(c)
    PROVE  IInv'
<1> DEFINE w == [call[c] EXCEPT !.temp = @ + 1]
           r == [w EXCEPT !.shell = AfterWrite(w)]
<1>1. /\ call[c] \in CallState /\ Fine(call[c]) /\ Leads(call[c], owner)
      /\ "write" \in ShellSteps /\ "mv" \in ShellSteps /\ "exec" \in ShellSteps
  BY Facts, Names
<1>2. call[c].chunks \in 1..MaxChunks /\ call[c].temp \in 1..call[c].chunks
  BY <1>1 DEF Write, In, Fine, CallState
<1>3. call[c].temp + 1 \in 0..(MaxChunks + 1)
  BY <1>2, GuestAssumption
<1>4. w \in CallState
  BY <1>1, <1>3 DEF CallState
<1>5. w.temp = call[c].temp + 1 /\ w.chunks = call[c].chunks /\ w.tool = call[c].tool
  BY <1>1 DEF CallState
<1>6. AfterWrite(w) \in ShellSteps
  BY <1>1 DEF AfterWrite
<1>7. r \in CallState
  BY <1>4, <1>6 DEF CallState
<1>8. CASE w.temp <= w.chunks
  <2>1. r = [call[c] EXCEPT !.temp = call[c].temp + 1, !.shell = "write"]
    BY <1>8, <1>1 DEF AfterWrite, CallState
  <2>2. call[c].temp + 1 \in 1..call[c].chunks
    BY <1>2, <1>5, <1>8, GuestAssumption
  <2>3. Fine(r) /\ Leads(r, owner) /\ Stays(call[c], r) /\ r.shell # "chmod"
    BY <2>1, <2>2, <1>1, ZenonT(60) DEF Write, In, Fine, Leads, Stays, Landed, CallState
  <2>4. QED
    BY <2>3, <1>7, SetKeeps DEF Write
<1>9. CASE ~(w.temp <= w.chunks)
  <2>1. w.temp = w.chunks + 1
    BY <1>9, <1>2, <1>5, GuestAssumption
  <2>2. PICK x \in { "exec", "mv" } :
          /\ AfterWrite(w) = x
          /\ x = "exec" <=> call[c].tool = "execute_script"
    BY <1>9, <1>5 DEF AfterWrite
  <2>3. call[c].tool \in Payloads
    BY <1>1 DEF Write, In, Fine
  <2>4. Fine(r) /\ Leads(r, owner) /\ Stays(call[c], r) /\ r.shell # "chmod"
    <3>1. r = [call[c] EXCEPT !.temp = call[c].temp + 1, !.shell = x]
      BY <2>2, <1>1 DEF CallState
    <3>2. QED
      BY <3>1, <2>1, <2>2, <2>3, <1>1, <1>5 DEF Write, In, Fine, Leads, Stays, Landed, CallState, Payloads
  <2>5. QED
    BY <2>4, <1>7, SetKeeps DEF Write
<1>10. QED
  BY <1>8, <1>9

LEMMA ExecuteKeeps ==
    ASSUME IInv, NEW c \in Call, Execute(c)
    PROVE  IInv'
<1>1. PICK how \in { "no", "ok", "failed", "cut" } :
        Set(c, [call[c] EXCEPT !.ran = how, !.shell = "rm"])
  BY DEF Execute
<1> DEFINE r == [call[c] EXCEPT !.ran = how, !.shell = "rm"]
<1>2. call[c] \in CallState /\ Fine(call[c]) /\ Leads(call[c], owner) /\ "rm" \in ShellSteps
  BY Facts, Names
<1>3. r \in CallState
  BY <1>2, ZenonT(60) DEF CallState
<1>4. Fine(r) /\ Leads(r, owner) /\ Stays(call[c], r) /\ r.shell # "chmod"
  BY <1>2 DEF Execute, In, Fine, Leads, Stays, Landed, CallState
<1>5. QED
  BY <1>1, <1>3, <1>4, SetKeeps DEF Execute

\* A shell that ends, with its temporary file removed or for one of the reasons that
\* TempsRemoved names.
LEMMA EndKeeps ==
    ASSUME IInv, NEW c \in Call, NEW e \in { "none", "ok", "failed" },
           NEW b \in { "no", "failed", "killed" }, NEW t \in {0, call[c].temp},
           call[c].shell \in ShellSteps,
           e = "ok" => call[c].tool # "transfer_file",
           e = "ok" /\ b # "no" => call[c].tool = "execute_script",
           call[c].ran # "no" => b # "failed",
           t # 0 => b = "killed" \/ (call[c].tool = "transfer_file" /\ b = "failed"),
           Set(c, [call[c] EXCEPT !.shell = "end", !.exit = e, !.broke = b, !.temp = t]),
           UNCHANGED <<owner, moves, file>>
    PROVE  IInv'
<1> DEFINE r == [call[c] EXCEPT !.shell = "end", !.exit = e, !.broke = b, !.temp = t]
<1>1. call[c] \in CallState /\ Fine(call[c]) /\ Leads(call[c], owner)
  BY Facts
<1>2. 0 \in 0..(MaxChunks + 1) /\ "none" \notin ShellSteps /\ "end" \notin ShellSteps
  BY GuestAssumption DEF ShellSteps
<1>3. t \in 0..(MaxChunks + 1)
  BY <1>1, <1>2 DEF CallState
<1>4. r \in CallState
  BY <1>1, <1>3, ZenonT(60) DEF CallState
<1>5. Fine(r) /\ Leads(r, owner) /\ Stays(call[c], r) /\ r.shell # "chmod"
  BY <1>1, <1>2 DEF Fine, Leads, Stays, Landed, CallState
<1>6. QED
  BY <1>4, <1>5, SetKeeps

LEMMA RemoveKeeps ==
    ASSUME IInv, NEW c \in Call, Remove(c)
    PROVE  IInv'
<1>1. call[c] \in CallState /\ call[c].shell \in ShellSteps
  BY Facts, Names DEF Remove, In
<1>2. PICK b \in { "no", "failed", "killed" } : b = call[c].broke
  BY <1>1 DEF CallState
<1>3. Set(c, [call[c] EXCEPT !.shell = "end", !.exit = "ok", !.broke = b, !.temp = 0])
  <2>1. Ends([call[c] EXCEPT !.temp = 0], "ok")
        = [call[c] EXCEPT !.shell = "end", !.exit = "ok", !.broke = b, !.temp = 0]
    BY <1>1, <1>2 DEF Ends, CallState
  <2>2. QED
    BY <2>1 DEF Remove
<1>4. Fine(call[c]) /\ call[c].tool = "execute_script"
  BY Facts DEF Remove, In, Fine
<1>5. call[c].ran # "no" => b # "failed"
  BY <1>2, <1>4 DEF Fine
<1>6. PICK e \in { "none", "ok", "failed" }, t \in {0, call[c].temp} : e = "ok" /\ t = 0
  OBVIOUS
<1>7. QED
  BY <1>1, <1>3, <1>4, <1>5, <1>6, EndKeeps DEF Remove

LEMMA ActKeeps ==
    ASSUME IInv, NEW c \in Call, Act(c)
    PROVE  IInv'
<1>1. call[c] \in CallState /\ Fine(call[c])
  BY Facts
<1>2. call[c].shell \in ShellSteps
  BY DEF Act, ShellSteps
<1>3. PICK b \in { "no", "failed", "killed" } : b = call[c].broke
  BY <1>1 DEF CallState
<1>4. call[c].temp = 0
  BY <1>1 DEF Act, Fine
<1>5. PICK t \in {0, call[c].temp} : t = 0
  OBVIOUS
<1>6. Ends(call[c], "ok") = [call[c] EXCEPT !.shell = "end", !.exit = "ok", !.broke = b,
                                            !.temp = t]
  BY <1>1, <1>3, <1>4, <1>5 DEF Ends, CallState
<1>7. call[c].tool # "transfer_file" /\ b = "no" /\ call[c].ran = "no"
  BY <1>1, <1>3 DEF Act, Fine, Payloads
<1>8. PICK e \in { "none", "ok", "failed" } : e = "ok"
  OBVIOUS
<1>9. QED
  BY <1>2, <1>5, <1>6, <1>7, <1>8, EndKeeps DEF Act

LEMMA StepFailsKeeps ==
    ASSUME IInv, NEW c \in Call, StepFails(c)
    PROVE  IInv'
<1>1. call[c] \in CallState /\ Fine(call[c]) /\ Leads(call[c], owner) /\ "rm" \in ShellSteps
  BY Facts, Names
<1>2. CASE call[c].tool = "execute_script"
  <2> DEFINE r == [call[c] EXCEPT !.shell = "rm", !.broke = "failed"]
  <2>1. PICK b \in { "no", "failed", "killed" } : b = "failed"
    OBVIOUS
  <2>2. [call[c] EXCEPT !.shell = "rm", !.broke = b] \in CallState
    BY <1>1, ZenonT(60) DEF CallState
  <2>3. Fine(r) /\ Leads(r, owner) /\ Stays(call[c], r) /\ r.shell # "chmod"
    BY <1>1, <1>2 DEF StepFails, Fine, Leads, Stays, Landed, CallState, ShellSteps
  <2>4. QED
    BY <1>2, <2>1, <2>2, <2>3, SetKeeps DEF StepFails, Failing
<1>3. CASE call[c].tool # "execute_script"
  <2>1. PICK t \in {0, call[c].temp} : t = call[c].temp
    OBVIOUS
  <2>2. Failing(call[c]) = [call[c] EXCEPT !.shell = "end", !.exit = "failed",
                                           !.broke = "failed", !.temp = t]
    BY <1>1, <1>3, <2>1 DEF Failing, Ends, CallState
  <2>3. t # 0 => call[c].tool = "transfer_file"
    BY <1>1, <1>3, <2>1 DEF Fine, Payloads
  <2>4. call[c].ran = "no"
    BY <1>1, <1>3 DEF Fine
  <2>5. PICK e \in { "none", "ok", "failed" }, b \in { "no", "failed", "killed" } :
          e = "failed" /\ b = "failed"
    OBVIOUS
  <2>6. call[c].shell \in ShellSteps
    BY DEF StepFails
  <2>7. QED
    BY <1>3, <2>1, <2>2, <2>3, <2>4, <2>5, <2>6, EndKeeps DEF StepFails
<1>4. QED
  BY <1>2, <1>3

LEMMA KillKeeps ==
    ASSUME IInv, NEW c \in Call, Kill(c)
    PROVE  IInv'
<1>1. call[c] \in CallState
  BY Facts
<1>2. PICK e \in { "none", "ok", "failed" } : e = call[c].exit
  BY <1>1 DEF CallState
<1>3. PICK t \in {0, call[c].temp} : t = call[c].temp
  OBVIOUS
<1>4. [call[c] EXCEPT !.shell = "end", !.broke = "killed"]
      = [call[c] EXCEPT !.shell = "end", !.exit = e, !.broke = "killed", !.temp = t]
  BY <1>1, <1>2, <1>3 DEF CallState
<1>5. e = "none"
  BY <1>2, Facts DEF Kill, Fine, ShellSteps
<1>6. PICK b \in { "no", "failed", "killed" } : b = "killed"
  OBVIOUS
<1>7. QED
  BY <1>3, <1>4, <1>5, <1>6, EndKeeps DEF Kill

----------------------------------------------------------------------------
\* The steps that change a file.

\* Call c, whose record becomes r, leaves the file f at the destination in its guest.
\* Nobody else's record changes.
LEMMA FileKeeps ==
    ASSUME NEW c \in Call, NEW r, NEW f \in File, IInv, Set(c, r),
           file' = [file EXCEPT ![call[c].at] = f], UNCHANGED <<owner, moves>>,
           call[c].at \in Guest, r.at = call[c].at,
           r \in CallState, Fine(r), Leads(r, owner),
           call[c].tool = "transfer_file", r.tool = "transfer_file",
           call[c].at \notin TmpApart => f.whole,
           f.mode \in {f.by, "private"} \union f.crossed,
           Landed(r) => \/ f.by = c /\ f.whole /\ (r.shell = "end" => f.mode = c)
                        \/ f.by \in Others(c, call),
           \A d \in Call \ {c} : call[d].at = call[c].at /\ Landed(call[d])
                => \/ f.by = d /\ f.whole /\ f.mode = c /\ c \in f.crossed
                   \/ f.by \in Others(d, call),
           r.shell = "chmod" => f.by = c,
           \A d \in Call \ {c} : call[d].at = call[c].at /\ call[d].shell = "chmod"
                                 => f.by = d \/ d \in f.crossed
    PROVE  IInv'
<1>1. /\ call' \in [Call -> CallState]
      /\ call'[c] = r
      /\ \A d \in Call \ {c} : call'[d] = call[d]
  BY DEF Set, IInv, TypeOK
<1>2. /\ file' \in [Guest -> File]
      /\ file'[call[c].at] = f
      /\ \A g \in Guest \ {call[c].at} : file'[g] = file[g]
  BY DEF IInv, TypeOK
<1>3. TypeOK'
  BY <1>1, <1>2 DEF IInv, TypeOK
<1>4. \A d \in Call : Fine(call'[d])
  BY <1>1 DEF IInv
<1>5. \A d \in Call : Leads(call'[d], owner')
  BY <1>1 DEF IInv
<1>6. \A d \in Call : MayChangeMode(d, call'[d], file')
  <2>1. MayChangeMode(c, call'[c], file')
    BY <1>1, <1>2 DEF MayChangeMode
  <2>2. ASSUME NEW d \in Call \ {c} PROVE MayChangeMode(d, call'[d], file')
    <3>1. SUFFICES ASSUME call[d].shell = "chmod"
                   PROVE  file'[call[d].at].by = d \/ d \in file'[call[d].at].crossed
      BY <1>1 DEF MayChangeMode
    <3>2. call[d].at \in Guest /\ MayChangeMode(d, call[d], file)
      BY <3>1 DEF IInv, Fine
    <3>3. QED
      BY <3>1, <3>2, <1>2 DEF MayChangeMode
  <2>3. QED
    BY <2>1, <2>2
<1>7. WholeFile'
  BY <1>2 DEF IInv, WholeFile
<1>8. OwnMode'
  BY <1>2 DEF IInv, OwnMode
<1>9. \A d \in Call : Others(d, call') = Others(d, call)
  BY <1>1 DEF Others
<1>10. Delivered(c, call', file')
  BY <1>1, <1>2, <1>9 DEF Delivered
<1>11. ASSUME NEW d \in Call \ {c} PROVE Delivered(d, call', file')
  <2>1. SUFFICES ASSUME Landed(call[d]) PROVE Delivered(d, call', file')
    BY <1>1 DEF Delivered
  <2>2. CASE call[d].at = call[c].at
    <3>1. c \in Others(d, call)
      BY <2>2 DEF Others
    <3>2. QED
      BY <3>1, <2>1, <2>2, <1>1, <1>2, <1>9 DEF Delivered
  <2>3. CASE call[d].at # call[c].at
    <3>1. call[d].at \in Guest
      BY <2>1 DEF IInv, Fine, Landed
    <3>2. file'[call'[d].at] = file[call[d].at] /\ Delivered(d, call, file)
      BY <3>1, <2>3, <1>1, <1>2 DEF IInv
    <3>3. QED
      BY <3>2, <1>1, <1>9 DEF Delivered
  <2>4. QED
    BY <2>2, <2>3
<1>12. QED
  BY <1>3, <1>4, <1>5, <1>6, <1>7, <1>8, <1>10, <1>11 DEF IInv

\* What mv needs and brings, whether it moves or has copied.
LEMMA MovedFits ==
    ASSUME IInv, NEW c \in Call, call[c].shell \in { "mv", "copy" }
    PROVE  /\ call[c].at \in Guest
           /\ Moved(c) \in File
           /\ Moved(c).by = c /\ Moved(c).whole /\ Moved(c).mode = "private"
           /\ \A d \in Call \ {c} : call[d].at = call[c].at /\ call[d].shell = "chmod"
                                    => d \in Moved(c).crossed
           /\ call[c].tool = "transfer_file"
           /\ \A d \in Call \ {c} : call[d].at = call[c].at => c \in Others(d, call)
<1>1. call[c] \in CallState /\ Fine(call[c])
  BY Facts
<1>2. call[c].at \in Guest /\ call[c].temp = call[c].chunks + 1
  BY <1>1 DEF Fine
<1>3. BetweenMvAndChmod(call[c].at) \in SUBSET Call
  BY DEF BetweenMvAndChmod
<1>4. Moved(c) \in File
  BY <1>3 DEF Moved, File
<1>5. call[c].tool = "transfer_file"
  BY <1>1 DEF Fine
<1>6. QED
  BY <1>2, <1>4, <1>5 DEF Moved, BetweenMvAndChmod, In, Others

LEMMA MoveKeeps ==
    ASSUME IInv, NEW c \in Call, Move(c) \/ Copied(c)
    PROVE  IInv'
<1> DEFINE r == [call[c] EXCEPT !.shell = "chmod", !.temp = 0]
<1>1. /\ call[c] \in CallState /\ Fine(call[c]) /\ Leads(call[c], owner)
      /\ "chmod" \in ShellSteps
  BY Facts, Names
<1>2. 0 \in 0..(MaxChunks + 1)
  BY GuestAssumption
<1>3. r \in CallState /\ r.at = call[c].at /\ r.tool = call[c].tool /\ r.shell = "chmod"
  BY <1>1, <1>2 DEF CallState
<1>4. Fine(r) /\ Leads(r, owner)
  BY <1>1 DEF Move, Copied, In, Fine, Leads, CallState
<1>5. call[c].shell \in { "mv", "copy" }
  BY DEF Move, Copied, In
<1>6. /\ call[c].at \in Guest /\ Moved(c) \in File
      /\ Moved(c).by = c /\ Moved(c).whole /\ Moved(c).mode = "private"
      /\ \A d \in Call \ {c} : call[d].at = call[c].at /\ call[d].shell = "chmod"
                               => d \in Moved(c).crossed
      /\ call[c].tool = "transfer_file"
      /\ \A d \in Call \ {c} : call[d].at = call[c].at => c \in Others(d, call)
  BY <1>5, MovedFits
<1>7. /\ file' = [file EXCEPT ![call[c].at] = Moved(c)] /\ Set(c, r)
      /\ UNCHANGED <<owner, moves>>
  BY DEF Move, Copied
<1> HIDE DEF r
<1>8. QED
  BY <1>3, <1>4, <1>6, <1>7, FileKeeps

LEMMA CopyKeeps ==
    ASSUME IInv, NEW c \in Call, Copy(c)
    PROVE  IInv'
<1> DEFINE r == [call[c] EXCEPT !.shell = "copy"]
           f == [Moved(c) EXCEPT !.whole = FALSE]
<1>1. /\ call[c] \in CallState /\ Fine(call[c]) /\ Leads(call[c], owner)
      /\ "copy" \in ShellSteps
  BY Facts, Names
<1>2. /\ r \in CallState /\ r.at = call[c].at /\ r.tool = call[c].tool
      /\ r.shell # "chmod" /\ ~Landed(r)
  BY <1>1 DEF CallState, Landed
<1>3. Fine(r) /\ Leads(r, owner)
  BY <1>1 DEF Copy, In, Fine, Leads, CallState
<1>4. call[c].shell \in { "mv", "copy" } /\ call[c].at \in TmpApart
  BY DEF Copy, In
<1>5. /\ call[c].at \in Guest /\ Moved(c) \in File
      /\ Moved(c).by = c /\ Moved(c).mode = "private"
      /\ \A d \in Call \ {c} : call[d].at = call[c].at /\ call[d].shell = "chmod"
                               => d \in Moved(c).crossed
      /\ call[c].tool = "transfer_file"
      /\ \A d \in Call \ {c} : call[d].at = call[c].at => c \in Others(d, call)
  BY <1>4, MovedFits
<1>6. /\ f \in File /\ f.mode = "private" /\ f.by = c
      /\ f.crossed = Moved(c).crossed
  <2>1. PICK b \in BOOLEAN : b = FALSE
    OBVIOUS
  <2>2. [Moved(c) EXCEPT !.whole = b] \in File
    BY <1>5 DEF File
  <2>3. QED
    BY <1>5, <2>1, <2>2 DEF File
<1>7. /\ file' = [file EXCEPT ![call[c].at] = f] /\ Set(c, r)
      /\ UNCHANGED <<owner, moves>>
  BY DEF Copy
<1> HIDE DEF f, r
<1>8. QED
  BY <1>2, <1>3, <1>4, <1>5, <1>6, <1>7, FileKeeps

LEMMA ChangeModeKeeps ==
    ASSUME IInv, NEW c \in Call, ChangeMode(c)
    PROVE  IInv'
<1> DEFINE r == Ends(call[c], "ok")
           g == call[c].at
           f == [file[g] EXCEPT !.mode = c]
<1>1. /\ call[c] \in CallState /\ Fine(call[c]) /\ Leads(call[c], owner)
      /\ MayChangeMode(c, call[c], file)
  BY Facts
<1>2. g \in Guest /\ file[g] \in File
  BY <1>1 DEF ChangeMode, In, Fine, IInv, TypeOK
<1>3. /\ f \in File /\ f.mode = c /\ f.by = file[g].by /\ f.crossed = file[g].crossed
      /\ f.whole = file[g].whole
  BY <1>2 DEF File
<1>4. file' = [file EXCEPT ![g] = f]
  BY DEF ChangeMode
<1>5. r \in CallState /\ r.at = call[c].at /\ r.shell # "chmod"
  <2>1. PICK e \in { "none", "ok", "failed" } : e = "ok"
    OBVIOUS
  <2>2. [call[c] EXCEPT !.shell = "end", !.exit = e] \in CallState
    BY <1>1, ZenonT(60) DEF CallState
  <2>3. QED
    BY <2>1, <2>2, <1>1 DEF Ends, CallState
<1>6. Fine(r) /\ Leads(r, owner) /\ r.tool = "transfer_file" /\ call[c].tool = "transfer_file"
  BY <1>1 DEF ChangeMode, In, Ends, Fine, Leads, CallState
<1>7. f.by = c \/ c \in f.crossed
  BY <1>1, <1>3 DEF ChangeMode, In, MayChangeMode
<1>8. \A d \in Call \ {c} : call[d].at = g /\ call[d].shell = "chmod"
                            => f.by = d \/ d \in f.crossed
  BY <1>3 DEF IInv, MayChangeMode
<1>9. g \notin TmpApart => f.whole
  BY <1>2, <1>3 DEF IInv, WholeFile
<1>11. (f.by = c /\ f.whole /\ f.mode = c) \/ f.by \in Others(c, call)
  <2>1. Landed(call[c]) /\ Delivered(c, call, file)
    BY <1>6 DEF ChangeMode, In, Landed, IInv
  <2>2. QED
    BY <2>1, <1>3 DEF Delivered
<1>12. ASSUME NEW d \in Call \ {c}, call[d].at = g, Landed(call[d])
       PROVE  \/ f.by = d /\ f.whole /\ f.mode = c /\ c \in f.crossed
              \/ f.by \in Others(d, call)
  <2>1. Delivered(d, call, file)
    BY DEF IInv
  <2>2. QED
    BY <2>1, <1>3, <1>7, <1>12 DEF Delivered
<1> HIDE DEF f
<1>13. QED
  BY <1>2, <1>3, <1>4, <1>5, <1>6, <1>7, <1>8, <1>9, <1>11, <1>12, FileKeeps DEF ChangeMode

----------------------------------------------------------------------------
LEMMA GiveAddressKeeps ==
    ASSUME IInv, NEW a \in Outer, NEW g \in Guest, GiveAddress(a, g)
    PROVE  IInv'
<1> DEFINE new(d) == [call[d] EXCEPT !.moved = @ \/ (call[d].ip = a /\ ~At(d, "done"))]
<1>1. a \in Address
  BY DEF Outer
<1>2. owner' \in [Address -> Guest \union {Nobody}] /\ moves' \in 0..MaxMoves
  BY <1>1, GuestAssumption DEF GiveAddress, IInv, TypeOK
<1>3. ASSUME NEW d \in Call
      PROVE  /\ call[d] \in CallState /\ Fine(call[d]) /\ Leads(call[d], owner)
             /\ call'[d] = new(d)
  BY <1>3, Facts DEF GiveAddress
<1>4. ASSUME NEW d \in Call
      PROVE  /\ new(d) \in CallState /\ Fine(new(d)) /\ Leads(new(d), owner')
             /\ new(d).shell = call[d].shell /\ new(d).at = call[d].at
             /\ new(d).tool = call[d].tool /\ new(d).exit = call[d].exit
  <2>1. PICK m \in BOOLEAN : m = (call[d].moved \/ (call[d].ip = a /\ ~At(d, "done")))
    OBVIOUS
  <2>2. new(d) = [call[d] EXCEPT !.moved = m]
    BY <2>1, <1>3 DEF CallState
  <2> HIDE DEF new
  <2>3. /\ new(d) \in CallState /\ new(d).shell = call[d].shell
        /\ new(d).at = call[d].at
    BY <2>2, <1>3 DEF CallState
  <2>4. ~m => ~call[d].moved
    BY <2>1
  <2>5. Fine(new(d))
    BY <2>2, <2>4, <1>3 DEF Fine, CallState
  <2>6. Leads(new(d), owner')
    <3>1. SUFFICES ASSUME ~call[d].given, ~m, call[d].ip \notin Inner,
                          call[d].step \in { "probe", "run" }
                   PROVE  owner'[call[d].ip] = call[d].guest
      BY <2>2, <1>3 DEF Leads, CallState
    <3>2. call[d].ip # a /\ owner[call[d].ip] = call[d].guest
      BY <2>1, <2>4, <1>3, <3>1 DEF At, Leads
    <3>3. call[d].ip \in Address
      BY <1>3, <3>1 DEF Fine
    <3>4. QED
      BY <3>2, <3>3 DEF GiveAddress, IInv, TypeOK
  <2>7. new(d).tool = call[d].tool /\ new(d).exit = call[d].exit
    BY <2>2, <1>3 DEF CallState
  <2>8. QED
    BY <2>3, <2>5, <2>6, <2>7
<1>5. call' \in [Call -> CallState]
  BY <1>4 DEF GiveAddress
<1>6. \A d \in Call : MayChangeMode(d, call'[d], file')
  BY <1>3, <1>4 DEF IInv, MayChangeMode, GiveAddress
<1>7. WholeFile' /\ OwnMode'
  BY DEF GiveAddress, IInv, WholeFile, OwnMode
<1>8. ASSUME NEW d \in Call PROVE Delivered(d, call', file')
  <2>1. \A e \in Call : /\ call'[e].tool = call[e].tool /\ call'[e].at = call[e].at
                         /\ call'[e].shell = call[e].shell /\ call'[e].exit = call[e].exit
    BY <1>3, <1>4
  <2>2. Others(d, call') = Others(d, call) /\ (Landed(call'[d]) => Landed(call[d]))
    BY <2>1 DEF Others, Landed
  <2>3. Delivered(d, call, file) /\ file' = file
    BY DEF IInv, GiveAddress
  <2>4. QED
    BY <2>1, <2>2, <2>3 DEF Delivered
<1>9. QED
  BY <1>2, <1>3, <1>4, <1>5, <1>6, <1>7, <1>8 DEF IInv, TypeOK, GiveAddress

LEMMA InitHolds == Init => IInv
<1> SUFFICES ASSUME Init PROVE IInv
  OBVIOUS
<1>1. OldFile \in File
  BY DEF OldFile, File
<1>2. TypeOK
  BY <1>1, NoCallTyped, GuestAssumption DEF Init, TypeOK
<1>3. /\ \A c \in Call : call[c] = NoCall
      /\ ~Landed(NoCall)
  BY DEF Init, NoCall, Landed
<1>4. Fine(NoCall) /\ Leads(NoCall, owner) /\ NoCall.shell # "chmod"
  BY DEF NoCall, Fine, Leads
<1>5. WholeFile /\ OwnMode
  BY DEF Init, WholeFile, OwnMode, OldFile
<1>6. QED
  BY <1>2, <1>3, <1>4, <1>5 DEF IInv, MayChangeMode, Delivered

LEMMA ClientKeeps ==
    ASSUME IInv, NEW c \in Call, Client(c)
    PROVE  IInv'
<1>1. CASE Discover(c)
  BY <1>1, DiscoverKeeps
<1>2. CASE NoUsable(c) \/ NoInterfaces(c) \/ ConnectFails(c) \/ GiveUp(c)
  BY <1>2, AnsweredKeeps DEF NoUsable, NoInterfaces, ConnectFails, GiveUp
<1>3. CASE NoAgent(c)
  BY <1>3, NoAgentKeeps
<1>4. CASE Send(c)
  BY <1>4, SendKeeps
<1>5. CASE Collect(c)
  BY <1>5, CollectKeeps
<1>6. QED
  BY <1>1, <1>2, <1>3, <1>4, <1>5 DEF Client

LEMMA ShellKeeps ==
    ASSUME IInv, NEW c \in Call, Shell(c)
    PROVE  IInv'
<1>1. CASE MakeDir(c) \/ MakeTemp(c) \/ Write(c) \/ Execute(c)
  BY <1>1, MakeDirKeeps, MakeTempKeeps, WriteKeeps, ExecuteKeeps
<1>2. CASE Move(c) \/ Copied(c) \/ Copy(c) \/ ChangeMode(c)
  BY <1>2, MoveKeeps, CopyKeeps, ChangeModeKeeps
<1>3. CASE Remove(c) \/ Act(c) \/ StepFails(c) \/ Kill(c)
  BY <1>3, RemoveKeeps, ActKeeps, StepFailsKeeps, KillKeeps
<1>4. QED
  BY <1>1, <1>2, <1>3 DEF Shell

LEMMA NextKeeps == IInv /\ [Next]_vars => IInv'
<1> SUFFICES ASSUME IInv, [Next]_vars PROVE IInv'
  OBVIOUS
<1>1. CASE UNCHANGED vars
  <2>1. /\ owner' = owner /\ moves' = moves /\ file' = file /\ call' = call
    BY <1>1 DEF vars
  <2>2. QED
    BY <2>1 DEF IInv, TypeOK, WholeFile, OwnMode
<1>2. ASSUME NEW c \in Call, NEW tool \in Tools, NEW n \in 1..MaxChunks, NEW l \in BOOLEAN,
             \/ \E g \in Guest : Start(c, tool, g, n, l)
             \/ \E a \in Outer : StartGiven(c, tool, n, l, a)
      PROVE  IInv'
  BY <1>2, StartKeeps, StartGivenKeeps DEF Outer
<1>3. ASSUME NEW c \in Call, Client(c) \/ Shell(c)
      PROVE  IInv'
  BY <1>3, ClientKeeps, ShellKeeps
<1>4. ASSUME NEW a \in Outer, NEW g \in Guest, GiveAddress(a, g)
      PROVE  IInv'
  BY <1>4, GiveAddressKeeps
<1>5. QED
  BY <1>1, <1>2, <1>3, <1>4 DEF Next

\* The inductive invariant holds of every run of the SSH tools (ssh_tools.py).
THEOREM Invariance == Spec => []IInv
<1>1. QED
  BY InitHolds, NextKeeps, PTL DEF Spec

\* Every variable keeps its type; no temporary file ever holds more chunks than the
\* payload has (_chunked_payload_commands).
THEOREM TypeCorrect == Spec => []TypeOK
<1>1. IInv => TypeOK
  BY DEF IInv
<1>2. QED
  BY <1>1, Invariance, PTL

\* A command whose address was discovered runs in the guest it was meant for
\* (_resolve_vm_ip, execute_on_host).
THEOREM CommandsReachTheirGuest == Spec => []RightGuest
<1>1. IInv => RightGuest
  BY DEF IInv, Fine, RightGuest
<1>2. QED
  BY <1>1, Invariance, PTL

\* No destination is ever left with a part of a payload (transfer_file).
THEOREM FilesAreWhole == Spec => []WholeFile
<1>1. IInv => WholeFile
  BY DEF IInv
<1>2. QED
  BY <1>1, Invariance, PTL

\* A file has its own call's mode, or that of a transfer that crossed (transfer_file).
THEOREM ModesAreOwn == Spec => []OwnMode
<1>1. IInv => OwnMode
  BY DEF IInv
<1>2. QED
  BY <1>1, Invariance, PTL

\* A transfer answered with success has put its file there, whole and with its
\* permissions, and only another transfer can have changed that (transfer_file).
THEOREM SuccessIsDelivered == Spec => []SuccessDelivered
<1>1. ASSUME IInv PROVE SuccessDelivered
  <2>1. SUFFICES ASSUME NEW c \in Call, call[c].tool = "transfer_file",
                        call[c].answer = "success"
                 PROVE  LET f == file[call[c].at]
                        IN  \/ /\ f.by = c /\ f.whole
                               /\ f.mode \in {c} \union (f.crossed \intersect Others(c, call))
                            \/ f.by \in Others(c, call)
    BY DEF SuccessDelivered, Others
  <2>2. Fine(call[c]) /\ Delivered(c, call, file)
    BY <1>1 DEF IInv
  <2>3. call[c].shell = "end" /\ call[c].exit = "ok"
    BY <2>1, <2>2 DEF Fine
  <2>4. QED
    BY <2>1, <2>2, <2>3 DEF Delivered, Landed
<1>2. QED
  BY <1>1, Invariance, PTL

\* Only a whole script runs, and none of whose chain a step has failed
\* (execute_script).
THEOREM ScriptsRunWhole == Spec => []WholeScript
<1>1. IInv => WholeScript
  BY DEF IInv, Fine, WholeScript, In
<1>2. QED
  BY <1>1, Invariance, PTL

\* Temporary files are left only by killed shells and failed transfers
\* (execute_script, transfer_file).
THEOREM TempsAreRemoved == Spec => []TempsRemoved
<1>1. IInv => TempsRemoved
  BY DEF IInv, Fine, TempsRemoved
<1>2. QED
  BY <1>1, Invariance, PTL
=============================================================================
