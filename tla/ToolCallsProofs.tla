-------------------------- MODULE ToolCallsProofs --------------------------
(***************************************************************************)
(* The safety of tool calls for any tools whose gates are well ordered,    *)
(* any configuration and any number of calls, guests and nodes.            *)
(***************************************************************************)
EXTENDS ToolCalls, NodeCacheProofs

----------------------------------------------------------------------------
\* The part of a call's state that concerns only the call and the configuration.

Fine(r) ==
    /\ r \in CallState
    /\ r.status # "idle" =>
          /\ r.tool \in Tools
          /\ r.vmid \in Vmid
          /\ r.at \in 1..Len(Gates[r.tool]) + 1
    /\ r.status = "running" => r.at <= Len(Gates[r.tool]) /\ r.sent < r.at
    /\ r.sent <= r.at
    /\ Walked(r)
    /\ r.status = "idle" => r = NoCall
    /\ r.named => \E g \in NodeGates : HasGate(r.tool, g)

LEMMA FineIsIInv ==
    ToolIInv <=> /\ TypeOK
                 /\ config \in Configs
                 /\ call \in [Call -> CallState]
                 /\ \A c \in Call : Fine(call[c])
                 /\ Resolving
                 /\ ResolvedWhereGuestWas
<1>1. ASSUME call \in [Call -> CallState], NEW c \in Call PROVE call[c] \in CallState
  BY <1>1
<1> QED BY <1>1 DEF ToolIInv, ToolTypeOK, Fine, NamedHasGate

LEMMA FineStays ==
    ASSUME UNCHANGED config, NEW r, Fine(r)
    PROVE  Fine(r)'
BY DEF Fine, Walked, Cleared, Permitted

LEMMA LengthInNat ==
    ASSUME NEW t \in Tools
    PROVE  Len(Gates[t]) \in Nat /\ Len(Gates[t]) >= 1
BY GatesAssumption

LEMMA NoCallFine == Fine(NoCall)
<1>1. NoCall \in CallState
  BY ClockAssumption DEF NoCall, CallState, NoTool, Statuses, Place, Time
<1>2. NoCall.status = "idle" /\ NoCall.sent <= NoCall.at /\ ~NoCall.named
  BY DEF NoCall
<1> QED BY <1>1, <1>2 DEF Fine, Walked

\* The call walks on.
LEMMA PassFine ==
    ASSUME NEW r \in CallState, Fine(r), r.status = "running",
           NEW q \in CallState,
           q.tool = r.tool, q.vmid = r.vmid, q.at = r.at, q.named = r.named,
           q.confirm = r.confirm, q.target = r.target, q.status = "running",
           r.named => q.node = r.node,
           Cleared(q, Gates[r.tool][r.at]),
           \/ q.sent = r.sent
           \/ q.sent = r.sent + 1 /\ Gates[r.tool][r.at] \in WriteGates
    PROVE  Fine([q EXCEPT !.at = @ + 1,
                          !.status = IF q.at = Len(Gates[q.tool])
                                     THEN "success" ELSE "running"])
<1> DEFINE s == [q EXCEPT !.at = @ + 1,
                          !.status = IF q.at = Len(Gates[q.tool])
                                     THEN "success" ELSE "running"]
<1>1. /\ s.tool = r.tool /\ s.vmid = r.vmid /\ s.named = r.named
      /\ s.confirm = r.confirm /\ s.node = q.node /\ s.sent = q.sent /\ s.at = r.at + 1
      /\ s.status \in {"success", "running"}
      /\ s.status = "running" <=> r.at # Len(Gates[r.tool])
  BY DEF CallState
<1>2. s \in CallState
  <2>1. q.at + 1 \in Nat
    BY DEF CallState
  <2>2. (IF q.at = Len(Gates[q.tool]) THEN "success" ELSE "running") \in Statuses
    BY DEF Statuses
  <2> QED BY <2>1, <2>2 DEF CallState
<1>3. r.tool \in Tools /\ r.vmid \in Vmid /\ r.at \in 1..Len(Gates[r.tool])
  BY LengthInNat DEF Fine
<1>4. \A j \in 1..r.at : Cleared(s, Gates[r.tool][j])
  <2> SUFFICES ASSUME NEW j \in 1..r.at PROVE Cleared(s, Gates[r.tool][j])
    OBVIOUS
  <2>1. CASE j = r.at
    BY <1>1, <2>1 DEF Cleared
  <2>2. CASE j # r.at
    <3>1. Cleared(r, Gates[r.tool][j])
      BY <1>3, <2>2 DEF Fine, Walked
    <3>2. r.sent > 0 => s.sent > 0
      BY <1>1 DEF CallState
    <3> QED BY <1>1, <3>1, <3>2 DEF Cleared
  <2> QED BY <2>1, <2>2
<1>5. s.sent > 0 => \E i \in 1..s.at : /\ i <= Len(Gates[s.tool])
                                       /\ Gates[s.tool][i] \in WriteGates
  <2> SUFFICES ASSUME s.sent > 0
               PROVE  \E i \in 1..(r.at + 1) : /\ i <= Len(Gates[r.tool])
                                               /\ Gates[r.tool][i] \in WriteGates
    BY <1>1
  <2>1. CASE q.sent = r.sent
    <3>1. PICK i \in 1..r.at : i <= Len(Gates[r.tool]) /\ Gates[r.tool][i] \in WriteGates
      BY <1>1, <2>1 DEF Fine, Walked
    <3> QED BY <1>3, <3>1
  <2>2. CASE Gates[r.tool][r.at] \in WriteGates
    BY <1>3, <2>2
  <2> QED BY <2>1, <2>2
<1> HIDE DEF s
<1>6. Walked(s)
  <2>1. (s.at - 1) = r.at
    BY <1>1, <1>3
  <2>2. s.status = "success" => s.at = Len(Gates[s.tool]) + 1
    BY <1>1, <1>3
  <2> QED BY <1>1, <1>4, <1>5, <2>1, <2>2 DEF Walked
<1>7. s.sent <= s.at /\ s.sent < s.at
  BY <1>1, <1>3 DEF Fine, CallState
<1>8. s.named => \E g \in NodeGates : HasGate(s.tool, g)
  BY <1>1 DEF Fine
<1>9. s.at \in 1..Len(Gates[s.tool]) + 1 /\ (s.status = "running" => s.at <= Len(Gates[s.tool]))
  BY <1>1, <1>3, LengthInNat
<1>10. Fine(s)
  BY <1>1, <1>2, <1>3, <1>6, <1>7, <1>8, <1>9 DEF Fine
<1> QED BY <1>10 DEF s

\* The call is answered where it stands.
LEMMA AnswerFine ==
    ASSUME NEW r \in CallState, Fine(r), r.status = "running",
           NEW s \in {"success", "error", "confirmation_required", "dry_run"},
           s = "dry_run" => Gates[r.tool][r.at] = "dryrun" /\ config.dry_run,
           s = "confirmation_required" =>
               Gates[r.tool][r.at] \in ConfirmGates /\ ~r.confirm,
           s = "success" => Gates[r.tool][r.at] = "option"
    PROVE  Fine([r EXCEPT !.status = s])
BY DEF Fine, Walked, Cleared, CallState, Statuses

\* A client may call a tool only with the parameters it has.
LEMMA InvokeFine ==
    ASSUME NEW t \in Tools, NEW v \in Vmid, NEW n \in NodeArguments(t),
           NEW m \in TargetArguments(t), NEW b \in ConfirmArguments(t)
    PROVE  Fine([NoCall EXCEPT !.tool = t, !.vmid = v, !.named = (n # NoNode), !.node = n,
                               !.target = m, !.confirm = b, !.status = "running"])
<1> DEFINE r == [NoCall EXCEPT !.tool = t, !.vmid = v, !.named = (n # NoNode), !.node = n,
                               !.target = m, !.confirm = b, !.status = "running"]
<1>1. n \in Place /\ m \in Place /\ b \in BOOLEAN
  BY DEF NodeArguments, TargetArguments, ConfirmArguments, Place
<1>2. /\ r.tool = t /\ r.vmid = v /\ r.at = 1 /\ r.sent = 0 /\ r.status = "running"
      /\ r.named = (n # NoNode) /\ r.node = n
  BY DEF NoCall
<1>3. r \in CallState
  <2>1. NoCall \in CallState
    BY NoCallFine DEF Fine
  <2> QED BY <1>1, <2>1 DEF CallState, Statuses
<1>4. r.named => \E g \in NodeGates : HasGate(r.tool, g)
  BY <1>2 DEF NodeArguments, NodeGates
<1> HIDE DEF r
<1>5. Walked(r)
  BY <1>2 DEF Walked
<1>6. Fine(r)
  BY <1>2, <1>3, <1>4, <1>5, LengthInNat DEF Fine
<1> QED BY <1>6 DEF r

LEMMA CallMoves ==
    ASSUME call \in [Call -> CallState], \A d \in Call : Fine(call[d]),
           UNCHANGED config, NEW c \in Call, NEW r, Fine(r),
           call' = [call EXCEPT ![c] = r]
    PROVE  /\ call' \in [Call -> CallState]
           /\ \A d \in Call : Fine(call[d])'
<1>1. r \in CallState
  BY DEF Fine
<1>2. \A d \in Call : Fine(call'[d])
  BY DEF Fine
<1>3. ASSUME NEW d \in Call PROVE Fine(call[d])'
  <2>1. Fine(call'[d])
    BY <1>2
  <2> QED BY <2>1 DEF Fine, Walked, Cleared, Permitted
<1> QED BY <1>1, <1>3

\* What a client asked of a call does not change while the call runs.
Follows(r, q) ==
    /\ r.tool = q.tool /\ r.vmid = q.vmid /\ r.named = q.named /\ r.confirm = q.confirm
    /\ r.target = q.target
    /\ r.named => r.node = q.node
    /\ r.sent = q.sent \/ r.sent = q.sent + 1
    /\ r.status # "idle"

\* Every step of a call but the resolver's own.
LEMMA StepFine ==
    ASSUME ToolIInv, NEW c \in Call,
           \/ Args(c) \/ CheckProtected(c) \/ ValidateNode(c)
           \/ ResolveNamed(c) \/ ResolveEnd(c) \/ ResolveFail(c)
           \/ Confirm(c) \/ ConfirmRead(c) \/ Read(c) \/ DryRun(c) \/ Option(c)
           \/ Write(c) \/ SkipWrite(c)
    PROVE  \E r : Fine(r) /\ Follows(r, call[c]) /\ call' = [call EXCEPT ![c] = r]
<1> DEFINE q == call[c]
<1>1. q \in CallState /\ Fine(q)
  BY FineIsIInv
<1>2. q.status = "running" /\ Gate(c) = Gates[q.tool][q.at]
  BY DEF Args, CheckProtected, ValidateNode, ResolveNamed, ResolveEnd, ResolveFail,
         Confirm, ConfirmRead, Read, DryRun, Option, Write, SkipWrite, At, Running, Gate
<1> DEFINE passed(r) == [r EXCEPT !.at = @ + 1,
                                  !.status = IF r.at = Len(Gates[r.tool])
                                             THEN "success" ELSE "running"]
           answered(s) == [q EXCEPT !.status = s]
           Goal == \E r : Fine(r) /\ Follows(r, q) /\ call' = [call EXCEPT ![c] = r]
<1>3. ASSUME Pass(c), Cleared(q, Gates[q.tool][q.at]) PROVE Goal
  <2>1. Fine(passed(q))
    BY <1>1, <1>2, <1>3, PassFine
  <2>2. call' = [call EXCEPT ![c] = passed(q)]
    BY <1>3 DEF Pass, PassWith
  <2>3. Follows(passed(q), q)
    BY <1>1 DEF CallState, Follows
  <2> HIDE DEF passed
  <2> QED BY <2>1, <2>2, <2>3
<1>4. ASSUME NEW s \in {"success", "error", "confirmation_required", "dry_run"},
             Answer(c, s),
             s = "dry_run" => Gates[q.tool][q.at] = "dryrun" /\ config.dry_run,
             s = "confirmation_required" =>
                 Gates[q.tool][q.at] \in ConfirmGates /\ ~q.confirm,
             s = "success" => Gates[q.tool][q.at] = "option"
      PROVE  Goal
  <2>1. Fine(answered(s))
    BY <1>1, <1>2, <1>4, AnswerFine
  <2>2. call' = [call EXCEPT ![c] = answered(s)]
    BY <1>1, <1>4, FineIsIInv DEF Answer
  <2>3. Follows(answered(s), q)
    BY <1>1 DEF CallState, Follows
  <2> HIDE DEF answered
  <2> QED BY <2>1, <2>2, <2>3
<1>5. ASSUME Gate(c) \notin {"dryrun", "protected", "write"} \union ConfirmGates \union NodeGates
      PROVE  Cleared(q, Gates[q.tool][q.at])
  BY <1>2, <1>5 DEF Cleared
<1>6. CASE Args(c) \/ Read(c)
  BY <1>3, <1>4, <1>5, <1>6 DEF Args, Read, At, ConfirmGates, NodeGates
<1>7. CASE Option(c)
  <2>1. Gates[q.tool][q.at] = "option"
    BY <1>2, <1>7 DEF Option, At
  <2>2. Cleared(q, Gates[q.tool][q.at])
    BY <2>1 DEF Cleared, ConfirmGates, NodeGates
  <2> QED BY <1>3, <1>4, <1>7, <2>1, <2>2 DEF Option
<1>8. CASE SkipWrite(c)
  BY <1>3, <1>5, <1>8 DEF SkipWrite, At, ConfirmGates, NodeGates
<1>9. CASE CheckProtected(c)
  <2>1. Gates[q.tool][q.at] = "protected"
    BY <1>2, <1>9 DEF CheckProtected, At
  <2>2. CASE q.vmid \notin config.protected
    <3>1. Cleared(q, Gates[q.tool][q.at])
      BY <2>1, <2>2 DEF Cleared, ConfirmGates, NodeGates
    <3> QED BY <1>3, <1>9, <2>2, <3>1 DEF CheckProtected, Check
  <2>3. CASE ~(q.vmid \notin config.protected)
    BY <1>4, <1>9, <2>3 DEF CheckProtected, Check
  <2> QED BY <2>2, <2>3
<1>10. CASE ValidateNode(c) \/ ResolveNamed(c)
  <2>1. Gates[q.tool][q.at] \in NodeGates
    BY <1>2, <1>10 DEF ValidateNode, ResolveNamed, At, NodeGates
  <2>2. CASE Permitted(q.node)
    <3>1. Cleared(q, Gates[q.tool][q.at])
      BY <2>1, <2>2 DEF Cleared, ConfirmGates, NodeGates
    <3> QED BY <1>3, <1>10, <2>2, <3>1 DEF ValidateNode, ResolveNamed, Check
  <2>3. CASE ~Permitted(q.node)
    BY <1>4, <1>10, <2>3 DEF ValidateNode, ResolveNamed, Check
  <2> QED BY <2>2, <2>3
<1>11. CASE ResolveEnd(c)
  <2>1. Gates[q.tool][q.at] = "resolve" /\ answer[c] \in Place /\ now[c] \in Time
    BY <1>2, <1>11 DEF ResolveEnd, At, ToolIInv, ToolTypeOK, TypeOK
  <2>2. ~q.named
    BY <1>11 DEF ResolveEnd, Return, Resolving, ToolIInv
  <2>3. CASE answer[c] = NoNode
    BY <1>4, <1>11, <2>3 DEF ResolveEnd
  <2>4. CASE answer[c] # NoNode
    <3> DEFINE p == [q EXCEPT !.node = answer[c], !.since = now[c]]
    <3>1. /\ p \in CallState /\ p.tool = q.tool /\ p.vmid = q.vmid /\ p.named = q.named
          /\ p.at = q.at /\ p.confirm = q.confirm
          /\ p.target = q.target /\ p.status = q.status /\ p.sent = q.sent
      BY <1>1, <2>1 DEF CallState
    <3>2. call' = [call EXCEPT ![c] = passed(p)]
      BY <1>11, <2>4 DEF ResolveEnd, PassWith
    <3> HIDE DEF p
    <3>3. Cleared(p, Gates[q.tool][q.at])
      BY <2>1, <2>2, <3>1 DEF Cleared, ConfirmGates
    <3>4. Fine(passed(p))
      BY <1>1, <1>2, <2>2, <3>1, <3>3, PassFine
    <3>5. Follows(passed(p), q)
      BY <2>2, <3>1 DEF CallState, Follows
    <3> HIDE DEF passed
    <3> QED BY <3>2, <3>4, <3>5
  <2> QED BY <2>3, <2>4
<1>12. CASE ResolveFail(c)
  BY <1>4, <1>12 DEF ResolveFail
<1>13. CASE Confirm(c) \/ ConfirmRead(c)
  <2>1. Gates[q.tool][q.at] \in ConfirmGates
    BY <1>2, <1>13 DEF Confirm, ConfirmRead, At, ConfirmGates
  <2>2. CASE q.confirm
    <3>1. Cleared(q, Gates[q.tool][q.at])
      BY <2>1, <2>2 DEF Cleared, ConfirmGates, NodeGates
    <3> QED BY <1>3, <1>13, <2>2, <3>1 DEF Confirm, ConfirmRead
  <2>3. CASE ~q.confirm
    BY <1>4, <1>13, <2>1, <2>3 DEF Confirm, ConfirmRead
  <2> QED BY <2>2, <2>3
<1>14. CASE DryRun(c)
  <2>1. Gates[q.tool][q.at] = "dryrun"
    BY <1>2, <1>14 DEF DryRun, At
  <2>2. CASE config.dry_run
    BY <1>4, <1>14, <2>1, <2>2 DEF DryRun
  <2>3. CASE ~config.dry_run
    <3>1. Cleared(q, Gates[q.tool][q.at])
      BY <2>1, <2>3 DEF Cleared, ConfirmGates, NodeGates
    <3> QED BY <1>3, <1>14, <2>3, <3>1 DEF DryRun
  <2> QED BY <2>2, <2>3
<1>15. CASE Write(c)
  <2> DEFINE w == [q EXCEPT !.sent = @ + 1]
  <2>1. Gates[q.tool][q.at] \in WriteGates
    BY <1>2, <1>15 DEF Write, At, WriteGates
  <2>2. /\ w \in CallState /\ w.tool = q.tool /\ w.vmid = q.vmid /\ w.named = q.named
        /\ w.at = q.at /\ w.confirm = q.confirm
        /\ w.target = q.target /\ w.status = q.status
        /\ w.sent = q.sent + 1 /\ w.node = q.node
    BY <1>1 DEF CallState
  <2>3. CASE PassWith(c, w)
    <3>1. Cleared(w, Gates[q.tool][q.at])
      BY <1>1, <2>1, <2>2 DEF Cleared, ConfirmGates, NodeGates, WriteGates, CallState
    <3>2. call' = [call EXCEPT ![c] = passed(w)]
      BY <2>3 DEF PassWith
    <3> HIDE DEF w
    <3>3. Fine(passed(w))
      BY <1>1, <1>2, <2>1, <2>2, <3>1, PassFine
    <3>4. Follows(passed(w), q)
      BY <2>2 DEF CallState, Follows
    <3> HIDE DEF passed
    <3> QED BY <3>2, <3>3, <3>4
  <2>4. CASE call' = [call EXCEPT ![c] = [w EXCEPT !.status = "error"]]
    <3> DEFINE e == [w EXCEPT !.status = "error"]
    <3>1. /\ e \in CallState /\ e.tool = q.tool /\ e.vmid = q.vmid /\ e.named = q.named
          /\ e.at = q.at /\ e.confirm = q.confirm
          /\ e.target = q.target /\ e.status = "error" /\ e.sent = q.sent + 1
          /\ e.node = q.node
      BY <2>2 DEF CallState, Statuses
    <3> HIDE DEF w, e
    <3>2. q.tool \in Tools /\ q.vmid \in Vmid /\ q.at \in 1..Len(Gates[q.tool])
      BY <1>1, <1>2, LengthInNat DEF Fine
    <3>3. \A j \in 1..(e.at - 1) : Cleared(e, Gates[e.tool][j])
      BY <1>1, <1>2, <3>1 DEF Fine, Walked, Cleared, CallState
    <3>4. Walked(e)
      BY <2>1, <3>1, <3>2, <3>3 DEF Walked
    <3>5. e.sent <= e.at
      BY <1>1, <1>2, <3>1, <3>2 DEF Fine, CallState
    <3>6. Fine(e)
      BY <1>1, <3>1, <3>2, <3>4, <3>5 DEF Fine
    <3>7. Follows(e, q)
      BY <3>1 DEF Follows
    <3> QED BY <2>4, <3>6, <3>7 DEF e
  <2> QED BY <1>15, <2>3, <2>4 DEF Write
<1> QED BY <1>6, <1>7, <1>8, <1>9, <1>10, <1>11, <1>12, <1>13, <1>14, <1>15

----------------------------------------------------------------------------
\* The resolver inside the tools behaves as NodeCache specifies.

LEMMA ResolverStep ==
    ASSUME ToolIInv, [ToolNext]_toolVars
    PROVE  [Next]_vars
<1>1. CASE UNCHANGED toolVars
  BY <1>1 DEF toolVars
<1>2. CASE ClusterNext /\ UNCHANGED <<cache, callVars, config, call>>
  BY <1>2 DEF Next
<1>3. ASSUME NEW c \in Call, NEW t \in Tools, NEW v \in Vmid,
             NEW n \in NodeArguments(t), NEW m \in TargetArguments(t),
             NEW b \in ConfirmArguments(t),
             Invoke(c, t, v, n, m, b)
      PROVE  [Next]_vars
  BY <1>3 DEF Invoke
<1>4. ASSUME NEW c \in Call, Done(c) PROVE [Next]_vars
  BY <1>4 DEF Done
<1>5. ASSUME NEW c \in Call, Step(c) PROVE [Next]_vars
  <2>1. CASE \/ Args(c) \/ CheckProtected(c) \/ ValidateNode(c) \/ ResolveNamed(c)
             \/ Confirm(c) \/ ConfirmRead(c) \/ Read(c) \/ DryRun(c) \/ Option(c)
             \/ Write(c) \/ SkipWrite(c)
    BY <2>1 DEF Args, CheckProtected, ValidateNode, ResolveNamed, Confirm, ConfirmRead,
                Read, DryRun, Option, Write, SkipWrite
  <2>2. CASE ResolveBegin(c)
    <3>1. call[c].vmid \in Vmid
      BY <2>2 DEF ResolveBegin, At, Running, ToolIInv, ToolTypeOK
    <3>2. Hit(c, call[c].vmid) \/ Miss(c, call[c].vmid)
      BY <2>2 DEF ResolveBegin
    <3> QED BY <3>1, <3>2 DEF Next
  <2>3. CASE ResolveEnd(c)
    BY <2>3 DEF ResolveEnd, Next
  <2>4. CASE ResolveFail(c)
    BY <2>4 DEF ResolveFail, Next
  <2>5. CASE Query(c) \/ Resume(c)
    BY <2>5 DEF Next
  <2> QED BY <1>5, <2>1, <2>2, <2>3, <2>4, <2>5 DEF Step
<1> QED BY <1>1, <1>2, <1>3, <1>4, <1>5 DEF ToolNext

----------------------------------------------------------------------------
\* The invariant.

LEMMA ToolInitInv == ToolInit => ToolIInv /\ IInv
<1> SUFFICES ASSUME ToolInit PROVE ToolIInv /\ IInv
  OBVIOUS
<1>1. IInv
  BY InitIInv DEF ToolInit
<1>2. TypeOK
  BY <1>1 DEF IInv
<1>3. \A c \in Call : call[c] = NoCall /\ pc[c] = "idle"
  BY DEF ToolInit, Init, ResolverInit
<1>4. call \in [Call -> CallState]
  BY NoCallFine DEF ToolInit, Fine
<1>5. \A c \in Call : Fine(call[c])
  BY <1>3, NoCallFine
<1>6. Resolving /\ ResolvedWhereGuestWas
  BY <1>3 DEF Resolving, ResolvedWhereGuestWas, NoCall
<1> QED BY <1>1, <1>2, <1>4, <1>5, <1>6, FineIsIInv DEF ToolInit

LEMMA ConfigStays == [ToolNext]_toolVars => UNCHANGED config
BY DEF ToolNext, toolVars, Invoke, Done, Step, Args, CheckProtected, ValidateNode,
       ResolveNamed, ResolveBegin, ResolveEnd, ResolveFail, Confirm, ConfirmRead, Read,
       DryRun, Option, Write, SkipWrite

LEMMA FineKept ==
    ASSUME ToolIInv, [ToolNext]_toolVars
    PROVE  /\ config' \in Configs
           /\ call' \in [Call -> CallState]
           /\ \A d \in Call : Fine(call[d])'
<1>1. config \in Configs /\ call \in [Call -> CallState] /\ \A d \in Call : Fine(call[d])
  BY FineIsIInv
<1>2. UNCHANGED config
  BY ConfigStays
<1>3. CASE UNCHANGED call
  <2>1. \A d \in Call : Fine(call[d])'
    BY <1>1, <1>2, <1>3 DEF Fine, Walked, Cleared, Permitted
  <2> QED BY <1>1, <1>2, <1>3, <2>1
<1>4. ASSUME NEW c \in Call, NEW t \in Tools, NEW v \in Vmid,
             NEW n \in NodeArguments(t), NEW m \in TargetArguments(t),
             NEW b \in ConfirmArguments(t),
             Invoke(c, t, v, n, m, b)
      PROVE  /\ call' \in [Call -> CallState]
             /\ \A d \in Call : Fine(call[d])'
  BY <1>1, <1>2, <1>4, InvokeFine, CallMoves DEF Invoke
<1>5. ASSUME NEW c \in Call, Done(c)
      PROVE  /\ call' \in [Call -> CallState]
             /\ \A d \in Call : Fine(call[d])'
  BY <1>1, <1>2, <1>5, NoCallFine, CallMoves DEF Done
<1>6. ASSUME NEW c \in Call, Step(c), ~UNCHANGED call
      PROVE  /\ call' \in [Call -> CallState]
             /\ \A d \in Call : Fine(call[d])'
  <2>1. \/ Args(c) \/ CheckProtected(c) \/ ValidateNode(c)
        \/ ResolveNamed(c) \/ ResolveEnd(c) \/ ResolveFail(c)
        \/ Confirm(c) \/ ConfirmRead(c) \/ Read(c) \/ DryRun(c) \/ Option(c)
        \/ Write(c) \/ SkipWrite(c)
    BY <1>6 DEF Step, ResolveBegin
  <2>2. PICK r : Fine(r) /\ call' = [call EXCEPT ![c] = r]
    BY <2>1, StepFine
  <2> QED BY <1>1, <1>2, <2>2, CallMoves
<1> QED BY <1>1, <1>2, <1>3, <1>4, <1>5, <1>6 DEF ToolNext, toolVars

\* Of a call that is not in the resolver, the resolver changes nothing.
LEMMA ResolvingKept ==
    ASSUME ToolIInv, [ToolNext]_toolVars
    PROVE  Resolving'
<1>1. TypeOK /\ Resolving /\ call \in [Call -> CallState]
  BY FineIsIInv
<1>2. CASE UNCHANGED <<callVars, call>>
  BY <1>1, <1>2 DEF callVars, Resolving, At, Running, Gate
<1>3. ASSUME NEW c \in Call, UNCHANGED vars,
             \A d \in Call : d # c => call'[d] = call[d],
             ~(At(c, "resolve") /\ ~call[c].named)
      PROVE  Resolving'
  <2>1. pc[c] = "idle"
    BY <1>1, <1>3 DEF Resolving
  <2> QED BY <1>1, <1>3, <2>1 DEF vars, callVars, Resolving, At, Running, Gate
<1>4. ASSUME NEW c \in Call, Step(c) PROVE Resolving'
  <2>1. CASE \/ Args(c) \/ CheckProtected(c) \/ ValidateNode(c) \/ ResolveNamed(c)
             \/ Confirm(c) \/ ConfirmRead(c) \/ Read(c) \/ DryRun(c) \/ Option(c)
             \/ Write(c) \/ SkipWrite(c)
    <3>1. PICK r : call' = [call EXCEPT ![c] = r]
      BY <2>1, StepFine
    <3>2. UNCHANGED vars /\ ~(At(c, "resolve") /\ ~call[c].named)
      BY <2>1 DEF Args, CheckProtected, ValidateNode, ResolveNamed, Confirm, ConfirmRead,
                  Read, DryRun, Option, Write, SkipWrite, At
    <3> QED BY <1>1, <1>3, <3>1, <3>2
  <2>2. CASE ResolveBegin(c)
    BY <1>1, <2>2 DEF ResolveBegin, Hit, Miss, TypeOK, Resolving, At, Running, Gate
  <2>3. CASE ResolveEnd(c) \/ ResolveFail(c)
    <3>1. PICK r : call' = [call EXCEPT ![c] = r]
      BY <2>3, StepFine
    <3>2. Forget(c)
      BY <2>3 DEF ResolveEnd, ResolveFail, Return, Abort
    <3> QED BY <1>1, <3>1, <3>2 DEF Forget, TypeOK, Resolving, At, Running, Gate
  <2>4. CASE (Query(c) \/ Resume(c)) /\ UNCHANGED <<config, call>>
    BY <1>1, <2>4 DEF Query, Resume, TypeOK, Resolving, At, Running, Gate
  <2> QED BY <1>4, <2>1, <2>2, <2>3, <2>4 DEF Step
<1>5. ASSUME NEW c \in Call, NEW t \in Tools, NEW v \in Vmid,
             NEW n \in NodeArguments(t), NEW m \in TargetArguments(t),
             NEW b \in ConfirmArguments(t),
             Invoke(c, t, v, n, m, b)
      PROVE  Resolving'
  <2>1. ~At(c, "resolve") /\ UNCHANGED vars
    BY <1>5 DEF Invoke, At, Running
  <2>2. \A d \in Call : d # c => call'[d] = call[d]
    BY <1>1, <1>5 DEF Invoke
  <2> QED BY <1>3, <2>1, <2>2
<1>6. ASSUME NEW c \in Call, Done(c) PROVE Resolving'
  BY <1>1, <1>3, <1>6 DEF Done, At, Running
<1> QED BY <1>2, <1>4, <1>5, <1>6 DEF ToolNext, toolVars, vars

\* Only ResolveEnd gives a running call a node.
LEMMA NodeStays ==
    ASSUME ToolIInv, NEW c \in Call,
           \/ Args(c) \/ CheckProtected(c) \/ ValidateNode(c)
           \/ ResolveNamed(c) \/ ResolveFail(c)
           \/ Confirm(c) \/ ConfirmRead(c) \/ Read(c) \/ DryRun(c) \/ Option(c)
           \/ Write(c) \/ SkipWrite(c)
    PROVE  /\ call'[c].node = call[c].node /\ call'[c].since = call[c].since
           /\ UNCHANGED lastSeen
<1>1. call[c] \in CallState /\ call \in [Call -> CallState]
  BY FineIsIInv
<1>2. UNCHANGED lastSeen
  BY DEF Args, CheckProtected, ValidateNode, ResolveNamed, ResolveFail, Confirm, ConfirmRead,
         Read, DryRun, Option, Write, SkipWrite, Abort, Forget, vars, clusterVars
<1>3. ASSUME NEW r \in CallState, PassWith(c, r)
      PROVE  call'[c].node = r.node /\ call'[c].since = r.since
  BY <1>1, <1>3 DEF PassWith, CallState
<1>4. ASSUME NEW s, Answer(c, s)
      PROVE  call'[c].node = call[c].node /\ call'[c].since = call[c].since
  BY <1>1, <1>4 DEF Answer, CallState
<1>5. CASE Write(c)
  <2> DEFINE w == [call[c] EXCEPT !.sent = @ + 1]
  <2>1. w \in CallState /\ w.node = call[c].node /\ w.since = call[c].since
    BY <1>1 DEF CallState
  <2>2. CASE PassWith(c, w)
    BY <1>2, <1>3, <2>1, <2>2
  <2>3. CASE call' = [call EXCEPT ![c] = [w EXCEPT !.status = "error"]]
    BY <1>1, <1>2, <2>3 DEF CallState
  <2> QED BY <1>5, <2>2, <2>3 DEF Write
<1>6. CASE Pass(c)
  BY <1>1, <1>2, <1>3, <1>6 DEF Pass
<1>7. CASE \E s : Answer(c, s)
  BY <1>2, <1>4, <1>7
<1> QED BY <1>5, <1>6, <1>7 DEF Args, CheckProtected, ValidateNode, ResolveNamed, ResolveFail,
           Confirm, ConfirmRead, Read, DryRun, Option, SkipWrite, Check

\* What a call has resolved stays true: evidence lasts, and what ResolveEnd takes
\* from the resolver is fresh.
LEMMA ResolvedKept ==
    ASSUME ToolIInv, IInv, [ToolNext]_toolVars
    PROVE  ResolvedWhereGuestWas'
<1> DEFINE Seen(r) == ~r.named /\ r.node # NoNode =>
               r.vmid \in Vmid /\ SeenSince(r.vmid, r.node, r.since - TTL + 1)
<1>1. /\ ResolvedWhereGuestWas /\ Resolving /\ TypeOK /\ ClusterTypeOK /\ NotAhead
      /\ call \in [Call -> CallState] /\ \A d \in Call : call[d] \in CallState
  BY FineIsIInv DEF IInv, TypeOK
<1>2. CASE ClusterNext /\ UNCHANGED <<cache, callVars, config, call>>
  <2> SUFFICES ASSUME NEW d \in Call, ~call[d].named, call[d].node # NoNode
               PROVE  /\ call[d].vmid \in Vmid
                      /\ SeenSince(call[d].vmid, call[d].node, call[d].since - TTL + 1)'
    BY <1>2 DEF ResolvedWhereGuestWas
  <2> DEFINE t == call[d].since - TTL + 1
  <2>1. t \in Int /\ call[d].vmid \in Vmid /\ call[d].node \in Place
    BY <1>1, TTLAssumption DEF CallState, Time, ResolvedWhereGuestWas
  <2>2. SeenSince(call[d].vmid, call[d].node, t)
    BY <1>1 DEF ResolvedWhereGuestWas
  <2>3. lastSeen'[call[d].vmid][call[d].node] # Never /\ lastSeen'[call[d].vmid][call[d].node] >= t
    <3> HIDE DEF t
    <3> QED BY <1>1, <1>2, <2>1, <2>2, EvidenceLasts DEF SeenSince
  <2> QED BY <1>2, <2>1, <2>3 DEF SeenSince
<1>3. CASE UNCHANGED <<lastSeen, call>>
  BY <1>1, <1>3 DEF ResolvedWhereGuestWas, SeenSince
<1>4. ASSUME NEW c \in Call, UNCHANGED lastSeen,
             \A d \in Call : d # c => call'[d] = call[d],
             Seen(call'[c])
      PROVE  ResolvedWhereGuestWas'
  BY <1>1, <1>4 DEF ResolvedWhereGuestWas, SeenSince
<1>5. ASSUME NEW c \in Call, NEW t \in Tools, NEW v \in Vmid,
             NEW n \in NodeArguments(t), NEW m \in TargetArguments(t),
             NEW b \in ConfirmArguments(t),
             Invoke(c, t, v, n, m, b)
      PROVE  ResolvedWhereGuestWas'
  <2>1. \A d \in Call : d # c => call'[d] = call[d]
    BY <1>1, <1>5 DEF Invoke
  <2>2. call'[c].named = (n # NoNode) /\ call'[c].node = n
    BY <1>1, <1>5 DEF Invoke, NoCall
  <2> QED BY <1>4, <1>5, <2>1, <2>2 DEF Invoke, vars, clusterVars
<1>6. ASSUME NEW c \in Call, Done(c) PROVE ResolvedWhereGuestWas'
  <2>1. call'[c].node = NoNode
    BY <1>1, <1>6 DEF Done, NoCall
  <2> QED BY <1>1, <1>4, <1>6, <2>1 DEF Done, vars, clusterVars
<1>7. ASSUME NEW c \in Call, Step(c) PROVE ResolvedWhereGuestWas'
  <2>0. CASE ResolveBegin(c)
    BY <1>3, <2>0 DEF ResolveBegin, Hit, Miss, clusterVars
  <2>1. CASE (Query(c) \/ Resume(c)) /\ UNCHANGED <<config, call>>
    BY <1>3, <2>1 DEF Query, Resume, clusterVars
  <2>2. CASE \/ Args(c) \/ CheckProtected(c) \/ ValidateNode(c)
             \/ ResolveNamed(c) \/ ResolveFail(c)
             \/ Confirm(c) \/ ConfirmRead(c) \/ Read(c) \/ DryRun(c) \/ Option(c)
             \/ Write(c) \/ SkipWrite(c)
    <3>1. PICK r : /\ call' = [call EXCEPT ![c] = r]
                   /\ r.vmid = call[c].vmid /\ r.named = call[c].named
      BY <2>2, StepFine DEF Follows
    <3>2. call'[c].node = call[c].node /\ call'[c].since = call[c].since /\ UNCHANGED lastSeen
      BY <2>2, NodeStays
    <3>3. Seen(call'[c])
      BY <1>1, <3>1, <3>2 DEF ResolvedWhereGuestWas
    <3> QED BY <1>1, <1>4, <3>1, <3>2, <3>3
  <2>3. CASE ResolveEnd(c)
    <3>1. PICK r : /\ call' = [call EXCEPT ![c] = r]
                   /\ r.vmid = call[c].vmid /\ r.named = call[c].named
      BY <2>3, StepFine DEF Follows
    <3>2. UNCHANGED lastSeen /\ pc[c] = "done"
      BY <2>3 DEF ResolveEnd, Return, Forget, clusterVars
    <3>3. arg[c] = call[c].vmid /\ arg[c] \in Vmid
      BY <1>1, <3>2 DEF Resolving, TypeOK
    <3>4. CASE answer[c] = NoNode
      <4>1. call'[c].node = call[c].node /\ call'[c].since = call[c].since
        BY <1>1, <2>3, <3>4 DEF ResolveEnd, Answer, CallState
      <4> QED BY <1>1, <1>4, <3>1, <3>2, <4>1 DEF ResolvedWhereGuestWas
    <3>5. CASE answer[c] # NoNode
      <4>1. call'[c].node = answer[c] /\ call'[c].since = now[c]
        <5> DEFINE p == [call[c] EXCEPT !.node = answer[c], !.since = now[c]]
        <5>1. /\ p.node = answer[c] /\ p.since = now[c]
              /\ DOMAIN p = DOMAIN call[c] /\ p = [x \in DOMAIN p |-> p[x]]
          BY <1>1 DEF CallState
        <5>2. PassWith(c, p)
          BY <2>3, <3>5 DEF ResolveEnd
        <5>3. "node" \in DOMAIN p /\ "since" \in DOMAIN p
          BY <1>1, <5>1 DEF CallState
        <5> HIDE DEF p
        <5> QED BY <1>1, <5>1, <5>2, <5>3 DEF PassWith
      <4>2. SeenSince(arg[c], answer[c], now[c] - TTL + 1)
        BY <3>2, <3>5 DEF IInv, AnswerFresh
      <4> QED BY <1>1, <1>4, <3>1, <3>2, <3>3, <4>1, <4>2
    <3> QED BY <3>4, <3>5
  <2> QED BY <1>7, <2>0, <2>1, <2>2, <2>3 DEF Step
<1>8. CASE UNCHANGED toolVars
  BY <1>3, <1>8 DEF toolVars, vars, clusterVars
<1> QED BY <1>2, <1>5, <1>6, <1>7, <1>8 DEF ToolNext

LEMMA ToolNextInv == ToolIInv /\ IInv /\ [ToolNext]_toolVars => (ToolIInv /\ IInv)'
<1> SUFFICES ASSUME ToolIInv, IInv, [ToolNext]_toolVars PROVE (ToolIInv /\ IInv)'
  OBVIOUS
<1>1. IInv'
  BY ResolverStep, NextIInv
<1>2. TypeOK'
  BY <1>1 DEF IInv
<1>3. ASSUME call' \in [Call -> CallState], NEW c \in Call PROVE call'[c] \in CallState
  BY <1>3
<1> QED BY <1>1, <1>2, <1>3, FineKept, ResolvingKept, ResolvedKept
        DEF ToolIInv, ToolTypeOK, Fine, NamedHasGate

(***************************************************************************)
(* Both invariants, of the calls and of the cache they share, hold of      *)
(* every run.                                                              *)
(***************************************************************************)
THEOREM ToolInvariance == ToolSpec => [](ToolIInv /\ IInv)
BY ToolInitInv, ToolNextInv, PTL DEF ToolSpec

(***************************************************************************)
(* The tools use the resolver as NodeCache specifies it, so everything     *)
(* proved of NodeCache, its refinement of VmidLocation included, holds of  *)
(* the composition.                                                        *)
(***************************************************************************)
THEOREM ToolsUseTheResolver == ToolSpec => Spec
<1>1. ToolInit => Init
  BY DEF ToolInit
<1>2. ToolIInv /\ [ToolNext]_toolVars => [Next]_vars
  BY ResolverStep
<1> QED BY ToolInvariance, <1>1, <1>2, PTL DEF ToolSpec, Spec

(***************************************************************************)
(* The state of the calls keeps its type: no handler runs past its last    *)
(* gate, and none sends more requests than the gates it has passed.        *)
(***************************************************************************)
THEOREM ToolTypeCorrect == ToolSpec => []ToolTypeOK
<1>1. ToolIInv => ToolTypeOK
  BY DEF ToolIInv
<1> QED BY ToolInvariance, <1>1, PTL

(***************************************************************************)
(* resolve_node, across concurrent tool calls: a request goes to a node    *)
(* that owned the guest less than the TTL before its call resolved it.     *)
(***************************************************************************)
THEOREM SentToTheOwner == ToolSpec => []SentWhereGuestWas
<1>1. ToolIInv => SentWhereGuestWas
  BY DEF ToolIInv, ResolvedWhereGuestWas, SentWhereGuestWas
<1> QED BY ToolInvariance, <1>1, PTL

----------------------------------------------------------------------------
\* What follows for any tools whose gates come in the right order.

\* A call that has sent a request knows of a gate that precedes every request.
LEMMA FineCleared ==
    ASSUME NEW r, Fine(r), r.sent > 0, NEW G, Precedes(G, r.tool)
    PROVE  \E g \in G : Cleared(r, g)
<1>1. r.status # "idle"
  BY DEF Fine, NoCall
<1>2. r.tool \in Tools /\ r.at \in Nat /\ Len(Gates[r.tool]) \in Nat
  BY <1>1, LengthInNat DEF Fine, CallState
<1>3. PICK i \in 1..r.at : i <= Len(Gates[r.tool]) /\ Gates[r.tool][i] \in WriteGates
  BY <1>1 DEF Fine, Walked
<1>4. PICK j \in 1..(i - 1) : Gates[r.tool][j] \in G
  BY <1>2, <1>3 DEF Precedes
<1>5. Cleared(r, Gates[r.tool][j])
  BY <1>1, <1>2, <1>3, <1>4 DEF Fine, Walked
<1> QED BY <1>4, <1>5

LEMMA SentCleared ==
    ASSUME ToolIInv, NEW c \in Call, Sent(c), NEW G, Precedes(G, call[c].tool)
    PROVE  \E g \in G : Cleared(call[c], g)
BY FineCleared, FineIsIInv DEF Sent

(***************************************************************************)
(* PROXMOX_DRY_RUN: if every tool tests is_dry_run before its requests, no *)
(* interleaving of calls sends one.                                        *)
(***************************************************************************)
THEOREM DryRunHolds ==
    ASSUME DryRunFirst
    PROVE  ToolSpec => []DryRunSendsNothing
<1>1. ToolIInv => DryRunSendsNothing
  <2> SUFFICES ASSUME ToolIInv, config.dry_run, NEW c \in Call, Sent(c) PROVE FALSE
    BY DEF DryRunSendsNothing
  <2>1. call[c].tool \in Tools
    BY DEF ToolIInv, ToolTypeOK, Sent, NoCall
  <2>2. \E g \in {"dryrun"} : Cleared(call[c], g)
    BY <2>1, SentCleared DEF DryRunFirst
  <2> QED BY <2>2 DEF Cleared
<1> QED BY ToolInvariance, <1>1, PTL

(***************************************************************************)
(* confirm_destructive: if every tool with a confirm parameter tests it    *)
(* before its requests, an unconfirmed call sends none.                    *)
(***************************************************************************)
THEOREM ConfirmationHolds ==
    ASSUME ConfirmFirst
    PROVE  ToolSpec => []ConfirmedOnly
<1>1. ToolIInv => ConfirmedOnly
  <2> SUFFICES ASSUME ToolIInv, NEW c \in Call, call[c].tool \in ConfirmTools, Sent(c)
               PROVE  call[c].confirm
    BY DEF ConfirmedOnly
  <2>1. call[c].tool \in Tools
    BY DEF ToolIInv, ToolTypeOK, Sent, NoCall
  <2>2. \E g \in ConfirmGates : Cleared(call[c], g)
    BY <2>1, SentCleared DEF ConfirmFirst
  <2> QED BY <2>2 DEF Cleared
<1> QED BY ToolInvariance, <1>1, PTL

(***************************************************************************)
(* check_protected: if every tool on a guest's own endpoints calls it      *)
(* before its requests, a protected guest is sent none of them.            *)
(***************************************************************************)
THEOREM ProtectionHolds ==
    ASSUME ProtectFirst
    PROVE  ToolSpec => []ProtectedGuestsKept
<1>1. ToolIInv => ProtectedGuestsKept
  <2> SUFFICES ASSUME ToolIInv, NEW c \in Call, call[c].tool \in GuestTools, Sent(c)
               PROVE  call[c].vmid \notin config.protected
    BY DEF ProtectedGuestsKept
  <2>1. call[c].tool \in Tools
    BY DEF ToolIInv, ToolTypeOK, Sent, NoCall
  <2>2. \E g \in {"protected"} : Cleared(call[c], g)
    BY <2>1, SentCleared DEF ProtectFirst
  <2> QED BY <2>2 DEF Cleared
<1> QED BY ToolInvariance, <1>1, PTL

(***************************************************************************)
(* validate_node: if every tool that takes the parameter node checks it    *)
(* before its requests, no request is sent for a call that asks to act on  *)
(* a node off the allowlist.  No order of gates says this of a target.     *)
(***************************************************************************)
THEOREM AllowlistHolds ==
    ASSUME NodeFirst
    PROVE  ToolSpec => []ActingNodesAllowed
<1>1. ToolIInv => ActingNodesAllowed
  <2> SUFFICES ASSUME ToolIInv, NEW c \in Call, call[c].named, Sent(c)
               PROVE  Permitted(call[c].node)
    BY DEF ActingNodesAllowed
  <2>1. call[c].tool \in Tools
    BY DEF ToolIInv, ToolTypeOK, Sent, NoCall
  <2>2. \E g \in NodeGates : Cleared(call[c], g)
    BY <2>1, SentCleared DEF NodeFirst, ToolIInv, NamedHasGate
  <2> QED BY <2>2 DEF Cleared
<1> QED BY ToolInvariance, <1>1, PTL

\* No call refuses after it has sent something.
LEMMA RefusedUnsent ==
    ASSUME RefuseFirst, NEW r, Fine(r),
           r.status \in {"dry_run", "confirmation_required"}
    PROVE  r.sent = 0
<1> SUFFICES ASSUME r.sent > 0 PROVE FALSE
  BY DEF Fine, CallState
<1>1. r.tool \in Tools /\ r.at \in Nat /\ r.at >= 1 /\ Len(Gates[r.tool]) \in Nat
  BY LengthInNat DEF Fine
<1>2. PICK i \in 1..r.at : i <= Len(Gates[r.tool]) /\ Gates[r.tool][i] \in WriteGates
  BY DEF Fine, Walked
<1>3. r.at <= Len(Gates[r.tool]) /\ Gates[r.tool][r.at] \in {"dryrun"} \union ConfirmGates
  BY DEF Fine, Walked
<1>4. r.at < i
  BY <1>1, <1>2, <1>3 DEF RefuseFirst, PrecedesAny
<1> QED BY <1>1, <1>2, <1>4

(***************************************************************************)
(* A dry_run or confirmation_required answer is true, if no tool refuses   *)
(* after it has sent something.                                            *)
(***************************************************************************)
THEOREM RefusalsHold ==
    ASSUME RefuseFirst
    PROVE  ToolSpec => []RefusalsAreClean
<1>1. ToolIInv => RefusalsAreClean
  <2> SUFFICES ASSUME ToolIInv, NEW c \in Call,
                      call[c].status \in {"dry_run", "confirmation_required"}
               PROVE  ~Sent(c)
    BY DEF RefusalsAreClean
  <2>1. call[c].sent = 0
    BY RefusedUnsent, FineIsIInv
  <2> QED BY <2>1 DEF Sent
<1> QED BY ToolInvariance, <1>1, PTL

----------------------------------------------------------------------------
\* The gates implement PermittedCalls.

Asked == [c \in Call |-> AskedOf(call[c])]
Requests == [c \in Call |-> call[c].sent]
Told(r) == IF r.status \in {"idle", "running"} THEN "none" ELSE r.status
Answers == [c \in Call |-> Told(call[c])]

LEMMA MappingMoves ==
    ASSUME call \in [Call -> CallState], NEW c \in Call, NEW r,
           call' = [call EXCEPT ![c] = r]
    PROVE  /\ Asked' = [Asked EXCEPT ![c] = AskedOf(r)]
           /\ Requests' = [Requests EXCEPT ![c] = r.sent]
           /\ Answers' = [Answers EXCEPT ![c] = Told(r)]
<1>1. \A d \in Call : call'[d] = IF d = c THEN r ELSE call[d]
  OBVIOUS
<1>2. Asked' = [Asked EXCEPT ![c] = AskedOf(r)]
  BY <1>1 DEF Asked
<1>3. Requests' = [Requests EXCEPT ![c] = r.sent]
  BY <1>1 DEF Requests
<1>4. Answers' = [Answers EXCEPT ![c] = Told(r)]
  BY <1>1 DEF Answers
<1> QED BY <1>2, <1>3, <1>4

LEMMA NotAskedIsIdle ==
    ASSUME NEW r, Fine(r)
    PROVE  AskedOf(r) = Promise!NotAsked <=> r.status = "idle"
<1>1. CASE r.status = "idle"
  <2>1. r = NoCall
    BY <1>1 DEF Fine
  <2>2. AskedOf(NoCall) = Promise!NotAsked
    BY DEF AskedOf, NoCall, NoTool, Promise!NotAsked
  <2> QED BY <1>1, <2>1, <2>2
<1>2. CASE r.status # "idle"
  <2>1. AskedOf(r).vmid # NoVmid
    BY <1>2, VmidAssumption DEF Fine, AskedOf
  <2>2. Promise!NotAsked.vmid = NoVmid
    BY DEF Promise!NotAsked
  <2> QED BY <1>2, <2>1, <2>2
<1> QED BY <1>1, <1>2

\* A call that has sent something may do so.
LEMMA MaySendWhatIsSent ==
    ASSUME DryRunFirst, ConfirmFirst, ProtectFirst, NodeFirst,
           NEW r, Fine(r), r.sent > 0
    PROVE  Promise!MaySend(AskedOf(r))
<1>1. r.tool \in Tools
  BY DEF Fine, NoCall
<1>2. ~config.dry_run
  BY <1>1, FineCleared DEF DryRunFirst, Cleared
<1>3. r.tool \in ConfirmTools => r.confirm
  BY <1>1, FineCleared DEF ConfirmFirst, Cleared
<1>4. r.tool \in GuestTools => r.vmid \notin config.protected
  <2> SUFFICES ASSUME r.tool \in GuestTools PROVE r.vmid \notin config.protected
    OBVIOUS
  <2>1. \E g \in {"protected"} : Cleared(r, g)
    BY <1>1, FineCleared DEF ProtectFirst
  <2> QED BY <2>1 DEF Cleared
<1>5. r.named => Permitted(r.node)
  <2> SUFFICES ASSUME r.named PROVE Permitted(r.node)
    OBVIOUS
  <2>1. \E g \in NodeGates : Cleared(r, g)
    BY <1>1, FineCleared DEF NodeFirst, Fine
  <2> QED BY <2>1 DEF Cleared
<1> QED BY <1>2, <1>3, <1>4, <1>5 DEF Promise!MaySend, AskedOf, Permitted

\* What a call that has been answered was told is so.
LEMMA AnswersAreTrue ==
    ASSUME RefuseFirst, WriteBeforeEnd, ConfirmOffered,
           NEW r, Fine(r), r.status \notin {"idle", "running"}
    PROVE  Promise!True(AskedOf(r), r.sent, r.status)
<1>1. r.tool \in Tools /\ r.at \in 1..Len(Gates[r.tool]) + 1 /\ Walked(r)
      /\ Len(Gates[r.tool]) \in Nat
  BY LengthInNat DEF Fine
<1>2. r.status = "success" => r.sent > 0
  <2> SUFFICES ASSUME r.status = "success" PROVE r.sent > 0
    OBVIOUS
  <2>1. r.at = Len(Gates[r.tool]) + 1 \/ Gates[r.tool][r.at] = "option"
    BY <1>1 DEF Walked
  <2>2. PICK j \in 1..(r.at - 1) : Gates[r.tool][j] = "write"
    BY <1>1, <2>1 DEF WriteBeforeEnd, EndsAfterWrite
  <2> QED BY <1>1, <2>2 DEF Walked, Cleared
<1>3. r.status \in {"dry_run", "confirmation_required"} => r.sent = 0
  BY RefusedUnsent
<1>4. r.status = "dry_run" => config.dry_run
  BY <1>1 DEF Walked
<1>5. r.status = "confirmation_required" => r.tool \in ConfirmTools /\ ~r.confirm
  BY <1>1 DEF Walked, ConfirmOffered, HasGate
<1> QED BY <1>2, <1>3, <1>4, <1>5 DEF Promise!True, AskedOf

(***************************************************************************)
(* The safety gates as a whole: if the gates of the tools are in order,    *)
(* concurrent calls do nothing that PermittedCalls, which knows no gates,  *)
(* does not allow.  Every single request is sent while its call may send   *)
(* it, and every answer is true when it is given.  Invoke is Ask, Write is *)
(* Send, a gate that ends the call is Tell and Done is Leave; the other    *)
(* gates, the resolver and the cluster are internal.                       *)
(***************************************************************************)
THEOREM GatesImplementThePromise ==
    ASSUME DryRunFirst, ConfirmFirst, ProtectFirst, NodeFirst, RefuseFirst,
           WriteBeforeEnd, ConfirmOffered
    PROVE  ToolSpec => ImplementsPermittedCalls
<1> DEFINE mapped == <<config, Asked, Requests, Answers>>
<1>1. ToolInit => Promise!Init
  BY DEF ToolInit, Promise!Init, AskedOf, NoCall, NoTool, Promise!NotAsked
<1>2. ToolIInv /\ [ToolNext]_toolVars => [Promise!Next]_<<config, Promise!callVars>>
  <2> SUFFICES ASSUME ToolIInv, [ToolNext]_toolVars
               PROVE  Promise!Next \/ UNCHANGED mapped
    BY DEF Promise!callVars, Asked, Requests, Answers, Told
  <2>1. call \in [Call -> CallState] /\ \A d \in Call : Fine(call[d])
    BY FineIsIInv
  <2>2. UNCHANGED config
    BY ConfigStays
  <2>3. CASE UNCHANGED call
    BY <2>2, <2>3 DEF Asked, Requests, Answers, Told, AskedOf
  <2>4. ASSUME NEW c \in Call, NEW t \in Tools, NEW v \in Vmid,
               NEW n \in NodeArguments(t), NEW m \in TargetArguments(t),
             NEW b \in ConfirmArguments(t),
               Invoke(c, t, v, n, m, b)
        PROVE  Promise!Next
    <3> DEFINE r == [NoCall EXCEPT !.tool = t, !.vmid = v, !.named = (n # NoNode), !.node = n,
                                   !.target = m, !.confirm = b, !.status = "running"]
    <3>1. /\ AskedOf(r) = [tool |-> t, vmid |-> v, node |-> n, target |-> m,
                                       confirm |-> b]
          /\ r.sent = 0 /\ Told(r) = "none"
      BY DEF AskedOf, NoCall, Told
    <3>2. call' = [call EXCEPT ![c] = r] /\ call[c].status = "idle"
      BY <2>4 DEF Invoke
    <3>3. Requests[c] = 0 /\ Answers[c] = "none" /\ Asked[c] = Promise!NotAsked
      BY <2>1, <3>2, NotAskedIsIdle DEF Requests, Answers, Asked, Told, Fine, NoCall
    <3>4. n \in Node \union {NoNode} /\ m \in Node \union {NoNode} /\ b \in BOOLEAN
      BY DEF NodeArguments, TargetArguments, ConfirmArguments, Place
    <3> HIDE DEF r
    <3>5. /\ Asked' = [Asked EXCEPT ![c] = [tool |-> t, vmid |-> v, node |-> n, target |-> m,
                                       confirm |-> b]]
          /\ Requests' = [Requests EXCEPT ![c] = 0]
          /\ Answers' = [Answers EXCEPT ![c] = "none"]
      <4>1. /\ Asked' = [Asked EXCEPT ![c] = AskedOf(r)]
            /\ Requests' = [Requests EXCEPT ![c] = r.sent]
            /\ Answers' = [Answers EXCEPT ![c] = Told(r)]
        BY <2>1, <3>2, MappingMoves
      <4> QED BY <3>1, <4>1
    <3>6. Requests' = Requests /\ Answers' = Answers
      BY <3>3, <3>5 DEF Requests, Answers
    <3>7. Promise!Ask(c)
      <4>1. \E u \in Tools, w \in Vmid, x, y \in Node \union {NoNode}, k \in BOOLEAN :
               Asked' = [Asked EXCEPT ![c] =
                            [tool |-> u, vmid |-> w, node |-> x, target |-> y, confirm |-> k]]
        BY <3>4, <3>5
      <4> QED BY <2>2, <3>3, <3>6, <4>1 DEF Promise!Ask, Asked, Requests, Answers, Told
    <3> QED BY <3>7 DEF Promise!Next
  <2>5. ASSUME NEW c \in Call, Done(c)
        PROVE  Promise!Next
    <3>1. call' = [call EXCEPT ![c] = NoCall] /\ call[c].status \notin {"idle", "running"}
      BY <2>5 DEF Done
    <3>2. AskedOf(NoCall) = Promise!NotAsked /\ NoCall.sent = 0 /\ Told(NoCall) = "none"
      BY DEF AskedOf, NoCall, NoTool, Told, Promise!NotAsked
    <3>3. /\ Asked' = [Asked EXCEPT ![c] = Promise!NotAsked]
          /\ Requests' = [Requests EXCEPT ![c] = 0]
          /\ Answers' = [Answers EXCEPT ![c] = "none"]
      <4>1. /\ Asked' = [Asked EXCEPT ![c] = AskedOf(NoCall)]
            /\ Requests' = [Requests EXCEPT ![c] = NoCall.sent]
            /\ Answers' = [Answers EXCEPT ![c] = Told(NoCall)]
        BY <2>1, <3>1, MappingMoves
      <4> QED BY <3>2, <4>1
    <3>4. Answers[c] # "none"
      BY <2>1, <3>1 DEF Answers, Told, CallState, Statuses
    <3>5. Promise!Leave(c)
      BY <2>2, <3>3, <3>4 DEF Promise!Leave, Asked, Requests, Answers, Told
    <3> QED BY <3>5 DEF Promise!Next
  <2>6. ASSUME NEW c \in Call, Step(c), ~UNCHANGED call
        PROVE  Promise!Next \/ UNCHANGED mapped
    <3>1. \/ Args(c) \/ CheckProtected(c) \/ ValidateNode(c)
          \/ ResolveNamed(c) \/ ResolveEnd(c) \/ ResolveFail(c)
          \/ Confirm(c) \/ ConfirmRead(c) \/ Read(c) \/ DryRun(c) \/ Option(c)
          \/ Write(c) \/ SkipWrite(c)
      BY <2>6 DEF Step, ResolveBegin
    <3>2. call[c].status = "running"
      BY <3>1 DEF Args, CheckProtected, ValidateNode, ResolveNamed, ResolveEnd, ResolveFail,
             Confirm, ConfirmRead, Read, DryRun, Option, Write, SkipWrite, At, Running
    <3>3. PICK r : Fine(r) /\ Follows(r, call[c]) /\ call' = [call EXCEPT ![c] = r]
      BY <3>1, StepFine
    <3>4. /\ r.sent \in Nat /\ call[c].sent \in Nat /\ r.status \in Statuses
          /\ AskedOf(r) = AskedOf(call[c])
      BY <2>1, <3>3 DEF Fine, Follows, CallState, AskedOf
    <3>5. /\ Asked[c] = AskedOf(r) /\ Requests[c] = call[c].sent /\ Answers[c] = "none"
          /\ Promise!Open(c)
      BY <2>1, <3>2, <3>4, NotAskedIsIdle
         DEF Asked, Requests, Answers, Told, Promise!Open
    <3>6. /\ Asked' = Asked
          /\ Requests' = [Requests EXCEPT ![c] = r.sent]
          /\ Answers' = [Answers EXCEPT ![c] = Told(r)]
      <4>1. /\ Asked' = [Asked EXCEPT ![c] = AskedOf(r)]
            /\ Requests' = [Requests EXCEPT ![c] = r.sent]
            /\ Answers' = [Answers EXCEPT ![c] = Told(r)]
        BY <2>1, <3>3, MappingMoves
      <4> QED BY <3>5, <4>1 DEF Asked
    <3>7. CASE r.sent = call[c].sent + 1
      <4>1. Promise!MaySend(Asked[c])
        BY <3>3, <3>4, <3>5, <3>7, MaySendWhatIsSent
      <4>2. Told(r) \in {"none", "success", "error"}
        BY <3>3, <3>4, <3>7, RefusedUnsent DEF Told, Statuses
      <4>3. Requests' = [Requests EXCEPT ![c] = @ + 1]
        BY <3>5, <3>6, <3>7
      <4>4. Promise!Send(c, Told(r))
        BY <2>2, <3>5, <3>6, <4>1, <4>3 DEF Promise!Send, Asked, Requests, Answers, Told
      <4> QED BY <4>2, <4>4 DEF Promise!Next
    <3>8. CASE r.sent = call[c].sent
      <4>1. Requests' = Requests
        BY <3>5, <3>6, <3>8 DEF Requests
      <4>2. CASE r.status = "running"
        <5>1. Answers' = Answers
          BY <3>5, <3>6, <4>2 DEF Answers, Told
        <5> QED BY <2>2, <3>6, <4>1, <5>1
      <4>3. CASE r.status # "running"
        <5>1. r.status \notin {"idle", "running"} /\ Told(r) = r.status
          BY <3>3, <4>3 DEF Follows, Told
        <5>2. Promise!True(Asked[c], Requests[c], Told(r))
          BY <3>3, <3>5, <3>8, <5>1, AnswersAreTrue
        <5>3. Promise!Tell(c, Told(r))
          BY <2>2, <3>5, <3>6, <4>1, <5>2 DEF Promise!Tell, Asked, Requests, Answers, Told
        <5>4. Told(r) \in {"success", "error", "dry_run", "confirmation_required"}
          BY <3>4, <5>1 DEF Statuses
        <5> QED BY <5>3, <5>4 DEF Promise!Next
      <4> QED BY <4>2, <4>3
    <3> QED BY <3>3, <3>7, <3>8 DEF Follows
  <2> QED BY <2>3, <2>4, <2>5, <2>6 DEF ToolNext, toolVars
<1> QED BY ToolInvariance, <1>1, <1>2, PTL DEF ToolSpec, ImplementsPermittedCalls, Promise!Spec
=============================================================================
