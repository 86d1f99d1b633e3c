-------------------------- MODULE NodeCacheProofs --------------------------
(***************************************************************************)
(* The node cache is correct for every set of calls, guests and nodes,     *)
(* every TTL and every length of the run.                                  *)
(***************************************************************************)
EXTENDS NodeCache, TLAPS

(***************************************************************************)
(* What the invariant says of one entry of the history.                    *)
(***************************************************************************)
LEMMA HistoryRange ==
    ASSUME ClusterTypeOK, NotAhead, NEW v \in Vmid, NEW p \in Place
    PROVE  /\ clock \in Int
           /\ clock >= 0
           /\ lastSeen[v][p] \in Int
           /\ lastSeen[v][p] <= clock
           /\ owner[v] \in Place
           /\ lastSeen[v][owner[v]] = clock
BY ClockAssumption DEF ClusterTypeOK, NotAhead, Time, Never

(***************************************************************************)
(* Evidence lasts: nothing the cluster does makes a guest un-seen at a     *)
(* place where it was seen at t or later.                                  *)
(***************************************************************************)
LEMMA EvidenceLasts ==
    ASSUME ClusterTypeOK, NotAhead, ClusterNext,
           NEW v \in Vmid, NEW p \in Place, NEW t \in Int,
           SeenSince(v, p, t)
    PROVE  SeenSince(v, p, t)'
<1>1. CASE Tick
  <2>1. lastSeen'[v][p] = IF p = owner[v] THEN clock + 1 ELSE lastSeen[v][p]
    BY <1>1 DEF Tick, ClusterTypeOK
  <2> QED BY <2>1, HistoryRange DEF SeenSince, Never
<1>2. ASSUME NEW w \in Vmid, NEW q \in Place, Move(w, q)
      PROVE  SeenSince(v, p, t)'
  <2>1. lastSeen'[v][p] = IF v = w /\ p = q THEN clock ELSE lastSeen[v][p]
    BY <1>2 DEF Move, ClusterTypeOK
  <2> QED BY <2>1, HistoryRange DEF SeenSince, Never
<1> QED BY <1>1, <1>2 DEF ClusterNext

(***************************************************************************)
(* The invariant holds initially.                                          *)
(***************************************************************************)
LEMMA InitIInv == Init => IInv
<1> SUFFICES ASSUME Init PROVE IInv
  OBVIOUS
<1>1. ClusterTypeOK
  BY ClockAssumption DEF Init, ClusterInit, ClusterTypeOK, Place, Time, Never
<1>2. TypeOK
  BY <1>1, ClockAssumption, VmidAssumption
  DEF Init, ResolverInit, TypeOK, NoEntry, Place, Time
<1>3. NotAhead
  BY DEF Init, ClusterInit, ResolverInit, NotAhead, NoEntry, Never, Place
<1>4. CacheWitnessed /\ InFlightWitnessed /\ AnswerFresh
  BY DEF Init, ResolverInit, CacheWitnessed, InFlightWitnessed, AnswerFresh, Cached, NoEntry
<1> QED BY <1>2, <1>3, <1>4 DEF IInv

(***************************************************************************)
(* A step of the cluster preserves the invariant: evidence lasts.          *)
(***************************************************************************)
LEMMA ClusterStep ==
    ASSUME IInv, ClusterNext, UNCHANGED <<cache, callVars>>
    PROVE  IInv'
<1> USE DEF callVars
<1>1. ClusterTypeOK'
  <2>1. CASE Tick
    BY <2>1, ClockAssumption DEF IInv, TypeOK, ClusterTypeOK, Tick, Time
  <2>2. ASSUME NEW v \in Vmid, NEW p \in Place, Move(v, p) PROVE ClusterTypeOK'
    BY <2>2 DEF IInv, TypeOK, ClusterTypeOK, Move
  <2> QED BY <2>1, <2>2 DEF ClusterNext
<1>2. TypeOK'
  BY <1>1 DEF IInv, TypeOK
<1>3. NotAhead'
  <2>1. CASE Tick
    <3>1. clock' = clock + 1 /\ owner' = owner /\ clock \in Int
      BY <2>1 DEF IInv, TypeOK, ClusterTypeOK, Tick, Time
    <3>2. ASSUME NEW v \in Vmid, NEW p \in Place
          PROVE  lastSeen'[v][p] = IF p = owner[v] THEN clock + 1 ELSE lastSeen[v][p]
      BY <2>1 DEF IInv, TypeOK, ClusterTypeOK, Tick
    <3>3. ASSUME NEW v \in Vmid
          PROVE  /\ lastSeen'[v][owner'[v]] = clock'
                 /\ \A p \in Place : lastSeen'[v][p] <= clock'
                 /\ cache'[v].stamped <= clock'
      <4>1. \A p \in Place : lastSeen[v][p] \in Int /\ lastSeen[v][p] <= clock
        BY HistoryRange DEF IInv, TypeOK
      <4>2. owner[v] \in Place /\ cache[v].stamped \in Int /\ cache[v].stamped <= clock
        BY DEF IInv, TypeOK, ClusterTypeOK, NotAhead, Time
      <4> QED BY <3>1, <3>2, <4>1, <4>2
    <3>4. \A c \in Call : now'[c] <= clock'
      BY <3>1 DEF IInv, TypeOK, NotAhead, Time
    <3> QED BY <3>3, <3>4 DEF NotAhead
  <2>2. ASSUME NEW w \in Vmid, NEW q \in Place, Move(w, q) PROVE NotAhead'
    <3>1. clock' = clock /\ clock \in Int
      BY <2>2 DEF IInv, TypeOK, ClusterTypeOK, Move, Time
    <3>2. ASSUME NEW v \in Vmid, NEW p \in Place
          PROVE  /\ lastSeen'[v][p] = IF v = w /\ p = q THEN clock ELSE lastSeen[v][p]
                 /\ owner'[v] = IF v = w THEN q ELSE owner[v]
      BY <2>2 DEF IInv, TypeOK, ClusterTypeOK, Move
    <3>3. \A v \in Vmid : owner[v] \in Place
      BY DEF IInv, TypeOK, ClusterTypeOK
    <3> QED BY <3>1, <3>2, <3>3 DEF IInv, NotAhead
  <2> QED BY <2>1, <2>2 DEF ClusterNext
<1>4. CacheWitnessed'
  BY EvidenceLasts DEF IInv, CacheWitnessed, Cached, TypeOK, Time
<1>5. InFlightWitnessed'
  BY EvidenceLasts DEF IInv, InFlightWitnessed, TypeOK, Time
<1>6. AnswerFresh'
  <2> SUFFICES ASSUME NEW c \in Call, pc[c] = "done"
               PROVE  SeenSince(arg[c], answer[c],
                          IF answer[c] = NoNode THEN now[c] ELSE now[c] - TTL + 1)'
    BY DEF AnswerFresh
  <2> DEFINE t == IF answer[c] = NoNode THEN now[c] ELSE now[c] - TTL + 1
  <2>1. t \in Int /\ arg[c] \in Vmid /\ answer[c] \in Place
    BY TTLAssumption DEF IInv, TypeOK, Time
  <2>2. SeenSince(arg[c], answer[c], t)
    BY DEF IInv, AnswerFresh
  <2>3. t' = t
    OBVIOUS
  <2>4. lastSeen'[arg[c]][answer[c]] # Never /\ lastSeen'[arg[c]][answer[c]] >= t
    BY <2>1, <2>2, EvidenceLasts DEF IInv, TypeOK, SeenSince
  <2> QED BY <2>3, <2>4 DEF SeenSince
<1> QED BY <1>2, <1>3, <1>4, <1>5, <1>6 DEF IInv

(***************************************************************************)
(* A step of a call preserves the invariant.  The cluster is unchanged, so *)
(* evidence is: what changes is one call and, on Resume, one cache entry.  *)
(***************************************************************************)
LEMMA CallStep ==
    ASSUME IInv, NEW c \in Call,
           \/ \E v \in Vmid : Hit(c, v) \/ Miss(c, v)
           \/ Query(c) \/ Resume(c) \/ Abort(c) \/ Return(c)
    PROVE  IInv'
<1> USE DEF clusterVars, callVars
<1>1. ASSUME NEW v \in Vmid, Hit(c, v) PROVE IInv'
  <2>1. TypeOK'
    BY <1>1 DEF Hit, IInv, TypeOK, ClusterTypeOK
  <2>2. NotAhead'
    BY <1>1 DEF Hit, IInv, TypeOK, ClusterTypeOK, NotAhead, Time
  <2>3. CacheWitnessed' /\ InFlightWitnessed'
    BY <1>1 DEF Hit, IInv, TypeOK, CacheWitnessed, InFlightWitnessed, Cached, SeenSince
  <2>4. SeenSince(v, cache[v].node, clock - TTL + 1) /\ cache[v].node # NoNode
    <3>1. /\ SeenSince(v, cache[v].node, cache[v].stamped)
          /\ cache[v].node # NoNode
          /\ clock - cache[v].stamped < TTL
      BY <1>1 DEF Hit, Fresh, Cached, IInv, CacheWitnessed
    <3>2. /\ cache[v].stamped \in Int /\ clock \in Int /\ TTL \in Int
          /\ lastSeen[v][cache[v].node] \in Int
      BY TTLAssumption, HistoryRange DEF IInv, TypeOK, ClusterTypeOK, Time
    <3> QED BY <3>1, <3>2 DEF SeenSince
  <2>5. AnswerFresh'
    BY <1>1, <2>4 DEF Hit, IInv, TypeOK, AnswerFresh, SeenSince
  <2> QED BY <2>1, <2>2, <2>3, <2>5 DEF IInv
<1>2. ASSUME NEW v \in Vmid, Miss(c, v) PROVE IInv'
  <2>1. TypeOK'
    BY <1>2 DEF Miss, IInv, TypeOK, ClusterTypeOK
  <2>2. NotAhead'
    BY <1>2 DEF Miss, IInv, TypeOK, ClusterTypeOK, NotAhead, Time
  <2>3. CacheWitnessed' /\ InFlightWitnessed' /\ AnswerFresh'
    BY <1>2 DEF Miss, IInv, TypeOK, CacheWitnessed, InFlightWitnessed, AnswerFresh,
                Cached, SeenSince
  <2> QED BY <2>1, <2>2, <2>3 DEF IInv
<1>3. CASE Query(c)
  <2>0. pc[c] = "query" /\ arg[c] \in Vmid /\ owner[arg[c]] \in Place
    BY <1>3 DEF Query, IInv, TypeOK, ClusterTypeOK
  <2>1. TypeOK'
    BY <1>3, <2>0 DEF Query, IInv, TypeOK, ClusterTypeOK
  <2>2. NotAhead' /\ CacheWitnessed'
    BY <1>3 DEF Query, IInv, NotAhead, CacheWitnessed, Cached, SeenSince
  <2>3. SeenSince(arg[c], owner[arg[c]], now[c])
    <3>1. lastSeen[arg[c]][owner[arg[c]]] = clock /\ now[c] <= clock
      BY <2>0 DEF IInv, NotAhead
    <3>2. clock \in Int /\ clock >= 0 /\ now[c] \in Int
      BY ClockAssumption DEF IInv, TypeOK, ClusterTypeOK, Time
    <3> QED BY <3>1, <3>2 DEF SeenSince, Never
  <2>4. InFlightWitnessed' /\ AnswerFresh'
    BY <1>3, <2>3 DEF Query, IInv, TypeOK, InFlightWitnessed, AnswerFresh, SeenSince
  <2> QED BY <2>1, <2>2, <2>4 DEF IInv
<1>4. CASE Resume(c)
  <2>0. /\ pc[c] = "answered" /\ arg[c] \in Vmid
        /\ answer[c] \in Place /\ now[c] \in Time /\ now[c] <= clock
        /\ SeenSince(arg[c], answer[c], now[c])
    BY <1>4 DEF Resume, IInv, TypeOK, NotAhead, InFlightWitnessed
  <2>1. UpdatedEntry(c) \in [node : Place, stamped : Time]
    BY <2>0, ClockAssumption DEF UpdatedEntry, NoEntry, Place, Time
  <2>2. TypeOK'
    BY <1>4, <2>1 DEF Resume, IInv, TypeOK, ClusterTypeOK
  <2>3. UpdatedEntry(c).stamped <= clock
    <3>1. clock \in Int /\ clock >= 0
      BY DEF IInv, TypeOK, ClusterTypeOK, Time
    <3> QED BY <2>0, <3>1 DEF UpdatedEntry, NoEntry
  <2>4. NotAhead'
    BY <1>4, <2>3 DEF Resume, IInv, TypeOK, NotAhead
  <2>5. \A v \in Vmid : cache'[v] = IF v = arg[c] THEN UpdatedEntry(c) ELSE cache[v]
    BY <1>4 DEF Resume, IInv, TypeOK
  <2>6. CacheWitnessed'
    BY <1>4, <2>0, <2>5
    DEF Resume, UpdatedEntry, NoEntry, IInv, CacheWitnessed, Cached, SeenSince
  <2>7. InFlightWitnessed'
    BY <1>4 DEF Resume, IInv, TypeOK, InFlightWitnessed, SeenSince
  <2>8. AnswerFresh'
    <3>1. SeenSince(arg[c], answer[c],
              IF answer[c] = NoNode THEN now[c] ELSE now[c] - TTL + 1)
      <4>1. now[c] \in Int /\ TTL \in Int /\ TTL > 0
        BY <2>0, TTLAssumption DEF Time
      <4>2. lastSeen[arg[c]][answer[c]] \in Int
        BY <2>0, HistoryRange DEF IInv, TypeOK
      <4> QED BY <2>0, <4>1, <4>2 DEF SeenSince
    <3> QED BY <1>4, <3>1 DEF Resume, IInv, TypeOK, AnswerFresh, SeenSince
  <2> QED BY <2>2, <2>4, <2>6, <2>7, <2>8 DEF IInv
<1>5. ASSUME Forget(c) PROVE IInv'
  <2>1. TypeOK'
    <3>1. 0 \in Time /\ NoNode \in Place
      BY ClockAssumption DEF Time, Place
    <3>2. ClusterTypeOK' /\ (cache \in [Vmid -> [node : Place, stamped : Time]])'
      BY <1>5 DEF Forget, IInv, TypeOK, ClusterTypeOK
    <3>3. /\ pc' \in [Call -> {"idle", "query", "answered", "done"}]
          /\ arg' \in [Call -> Vmid \union {NoVmid}]
          /\ now' \in [Call -> Time]
          /\ answer' \in [Call -> Place]
      BY <1>5, <3>1 DEF Forget, IInv, TypeOK
    <3>4. \A d \in Call : pc'[d] # "idle" => arg'[d] \in Vmid
      BY <1>5 DEF Forget, IInv, TypeOK
    <3> QED BY <3>2, <3>3, <3>4 DEF TypeOK
  <2>2. NotAhead'
    BY <1>5 DEF Forget, IInv, TypeOK, ClusterTypeOK, NotAhead, Time
  <2>3. CacheWitnessed' /\ InFlightWitnessed' /\ AnswerFresh'
    BY <1>5 DEF Forget, IInv, TypeOK, CacheWitnessed, InFlightWitnessed, AnswerFresh,
                Cached, SeenSince
  <2> QED BY <2>1, <2>2, <2>3 DEF IInv
<1> QED BY <1>1, <1>2, <1>3, <1>4, <1>5 DEF Abort, Return

(***************************************************************************)
(* IInv is inductive.                                                      *)
(***************************************************************************)
LEMMA NextIInv == IInv /\ [Next]_vars => IInv'
<1> SUFFICES ASSUME IInv, [Next]_vars PROVE IInv'
  OBVIOUS
<1>1. CASE ClusterNext /\ UNCHANGED <<cache, callVars>>
  BY <1>1, ClusterStep
<1>2. ASSUME NEW c \in Call,
             \/ \E v \in Vmid : Hit(c, v) \/ Miss(c, v)
             \/ Query(c) \/ Resume(c) \/ Abort(c) \/ Return(c)
      PROVE  IInv'
  BY <1>2, CallStep
<1>3. CASE UNCHANGED vars
  BY <1>3 DEF vars, clusterVars, callVars, IInv, TypeOK, ClusterTypeOK, NotAhead,
              CacheWitnessed, InFlightWitnessed, AnswerFresh, Cached, SeenSince
<1> QED BY <1>1, <1>2, <1>3 DEF Next

(***************************************************************************)
(* The invariant holds of every run.                                       *)
(***************************************************************************)
THEOREM Invariance == Spec => []IInv
BY InitIInv, NextIInv, PTL DEF Spec

(***************************************************************************)
(* The variables of client.py's cache and of its calls keep their types.   *)
(***************************************************************************)
THEOREM TypeCorrect == Spec => []TypeOK
<1>1. IInv => TypeOK
  BY DEF IInv
<1> QED BY Invariance, <1>1, PTL

(***************************************************************************)
(* Every cached node owned its guest at the stamp of its entry or later.   *)
(***************************************************************************)
THEOREM CacheIsWitnessed == Spec => []CacheWitnessed
<1>1. IInv => CacheWitnessed
  BY DEF IInv
<1> QED BY Invariance, <1>1, PTL

(***************************************************************************)
(* Bounded staleness: resolve_node_for_vmid never returns a location older *)
(* than the TTL when the call began, whatever interleaves with it.         *)
(***************************************************************************)
THEOREM AnswersAreFresh == Spec => []AnswerFresh
<1>1. IInv => AnswerFresh
  BY DEF IInv
<1> QED BY Invariance, <1>1, PTL

(***************************************************************************)
(* A call that moves to a new state moves its abstract status with it, and *)
(* no other.                                                               *)
(***************************************************************************)
LEMMA StatusMoves ==
    ASSUME TypeOK, NEW c \in Call,
           NEW s \in {"idle", "query", "answered", "done"},
           pc' = [pc EXCEPT ![c] = s]
    PROVE  [d \in Call |-> Status(d)]' =
               [[d \in Call |-> Status(d)] EXCEPT ![c] =
                   CASE s = "idle" -> "idle"
                     [] s \in {"query", "answered"} -> "asking"
                     [] s = "done" -> "told"]
BY DEF TypeOK, Status

(***************************************************************************)
(* The cached resolver implements the cache-free specification.  Hit is    *)
(* TellAtOnce, Miss is Ask, Query is internal, Resume is Tell, and Abort   *)
(* and Return are Release.                                                 *)
(***************************************************************************)
THEOREM Refinement == Spec => ImplementsLocation
<1> DEFINE told == [c \in Call |-> IF pc[c] = "done" THEN answer[c] ELSE NoNode]
           status == [c \in Call |-> Status(c)]
<1>1. Init => Location!Init
  BY DEF Init, ResolverInit, Status, Location!Init, Location!ClusterInit, ClusterInit,
         Location!Place, Place, Location!Never, Never
<1>2. IInv /\ [Next]_vars => [Location!Next]_<<Location!clusterVars, Location!locationVars>>
  <2> SUFFICES ASSUME IInv, [Next]_vars
               PROVE  [Location!Next]_<<Location!clusterVars, Location!locationVars>>
    OBVIOUS
  <2> USE DEF callVars, clusterVars, Location!clusterVars, Location!locationVars
  <2>0. TypeOK
    BY DEF IInv
  <2>1. CASE ClusterNext /\ UNCHANGED <<cache, callVars>>
    <3>1. Location!ClusterNext
      BY <2>1 DEF ClusterNext, Location!ClusterNext, Tick, Location!Tick, Move,
                  Location!Move, Place, Location!Place
    <3>2. status' = status /\ told' = told
      BY <2>1 DEF Status
    <3> QED BY <2>1, <3>1, <3>2 DEF Location!Next
  <2>2. ASSUME NEW c \in Call, NEW v \in Vmid, Hit(c, v)
        PROVE  Location!Next
    <3>0. PICK p \in Place : p = cache[v].node
      BY <2>0 DEF TypeOK
    <3>1. status' = [status EXCEPT ![c] = "told"] /\ status[c] = "idle"
      BY <2>0, <2>2, StatusMoves DEF Hit, Status
    <3>2. told' = [told EXCEPT ![c] = p]
      BY <2>0, <2>2, <3>0 DEF Hit, TypeOK
    <3>3. p \in Place /\ p # NoNode
      BY <2>0, <2>2, <3>0 DEF Hit, Fresh, Cached, TypeOK
    <3>4. Location!Acceptable(v, p, clock)
      <4>1. IInv'
        BY <2>2, CallStep
      <4>2. SeenSince(v, p, clock - TTL + 1)
        BY <2>0, <2>2, <3>0, <3>3, <4>1 DEF Hit, IInv, AnswerFresh, TypeOK, SeenSince
      <4> QED BY <3>3, <4>2 DEF Location!Acceptable, Location!SeenSince, SeenSince,
                                Location!Never, Never
    <3>5. Location!TellAtOnce(c, v, p)
      BY <2>2, <3>1, <3>2, <3>4 DEF Hit, Location!TellAtOnce
    <3> QED BY <3>3, <3>5 DEF Location!Next, Location!Place, Place
  <2>3. ASSUME NEW c \in Call, NEW v \in Vmid, Miss(c, v)
        PROVE  Location!Next
    <3>1. status' = [status EXCEPT ![c] = "asking"] /\ status[c] = "idle"
      BY <2>0, <2>3, StatusMoves DEF Miss, Status
    <3>2. told' = told
      BY <2>0, <2>3 DEF Miss, TypeOK
    <3> QED BY <2>3, <3>1, <3>2 DEF Miss, Location!Ask, Location!Next
  <2>4. ASSUME NEW c \in Call, Query(c)
        PROVE  UNCHANGED <<Location!clusterVars, Location!locationVars>>
    <3>1. status' = status
      BY <2>0, <2>4 DEF Query, Status, TypeOK
    <3>2. told' = told
      BY <2>0, <2>4 DEF Query, TypeOK
    <3> QED BY <2>4, <3>1, <3>2 DEF Query
  <2>5. ASSUME NEW c \in Call, Resume(c)
        PROVE  Location!Next
    <3>0. PICK p \in Place : p = answer[c]
      BY <2>0 DEF TypeOK
    <3>1. status' = [status EXCEPT ![c] = "told"] /\ status[c] = "asking"
      BY <2>0, <2>5, StatusMoves DEF Resume, Status
    <3>2. told' = [told EXCEPT ![c] = p]
      BY <2>0, <2>5, <3>0 DEF Resume, TypeOK
    <3>3. p \in Place /\ arg[c] \in Vmid
      BY <2>0, <2>5 DEF Resume, TypeOK
    <3>4. Location!Acceptable(arg[c], p, now[c])
      <4>1. IInv'
        BY <2>5, CallStep
      <4>2. SeenSince(arg[c], answer[c],
                IF answer[c] = NoNode THEN now[c] ELSE now[c] - TTL + 1)
        BY <2>0, <2>5, <4>1 DEF Resume, IInv, AnswerFresh, TypeOK, SeenSince
      <4> QED BY <3>0, <4>2 DEF Location!Acceptable, Location!SeenSince, SeenSince,
                          Location!Never, Never
    <3>5. Location!Tell(c, p)
      BY <2>5, <3>1, <3>2, <3>4 DEF Resume, Location!Tell
    <3> QED BY <3>3, <3>5 DEF Location!Next, Location!Place, Place
  <2>6. ASSUME NEW c \in Call, pc[c] # "idle", Forget(c)
        PROVE  Location!Next
    <3>1. status' = [status EXCEPT ![c] = "idle"] /\ status[c] # "idle"
      BY <2>0, <2>6, StatusMoves DEF Forget, Status, TypeOK
    <3>2. told' = [told EXCEPT ![c] = NoNode]
      BY <2>0, <2>6 DEF Forget, TypeOK
    <3> QED BY <2>6, <3>1, <3>2 DEF Forget, Location!Release, Location!Next
  <2>7. CASE UNCHANGED vars
    BY <2>7 DEF vars, Status
  <2> QED BY <2>1, <2>2, <2>3, <2>4, <2>5, <2>6, <2>7 DEF Next, Abort, Return
<1> QED BY Invariance, <1>1, <1>2, PTL DEF Spec, ImplementsLocation, Location!Spec
=============================================================================
