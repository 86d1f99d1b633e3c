--------------------------- MODULE SshPoolProofs ---------------------------
(***************************************************************************)
(* The pool's safety for any threads, keys and bounds (see SshPool).       *)
(***************************************************************************)
EXTENDS SshPool, FiniteSetTheorems, WellFoundedInduction, TLAPS

LEMMA LeastExists ==
    ASSUME NEW T \in SUBSET Nat, T # {}
    PROVE  \E m \in T : \A n \in T : m <= n
<1> DEFINE R == {ss \in Nat \X Nat : ss[1] < ss[2]}
<1>1. IsWellFoundedOn(R, Nat)
  <2>1. OpToRel(<, Nat) = R
    BY DEF OpToRel
  <2> QED BY <2>1, NatLessThanWellFounded
<1>2. PICK m \in T : \A n \in T : <<n, m>> \notin R
  <2> HIDE DEF R
  <2> QED BY <1>1, WFMin
<1>3. \A n \in T : m <= n
  <2> SUFFICES ASSUME NEW n \in T PROVE m <= n
    OBVIOUS
  <2>1. <<n, m>> \notin R
    BY <1>2
  <2>2. ~(n < m)
    BY <2>1
  <2> QED BY <2>2
<1> QED BY <1>3

LEMMA OldestCached ==
    ASSUME TypeOK, CachedKeys # {}
    PROVE  Oldest \in CachedKeys
<1> DEFINE T == {cached[k] : k \in CachedKeys}
<1>1. T \in SUBSET Nat /\ T # {}
  <2>1. \A k \in CachedKeys : cached[k] \in Nat
    BY BoundAssumption DEF TypeOK, CachedKeys, Client, NoClient
  <2> QED BY <2>1
<1>2. PICK m \in T : \A n \in T : m <= n
  BY <1>1, LeastExists
<1>3. \E k \in CachedKeys : \A l \in CachedKeys : cached[k] <= cached[l]
  BY <1>2
<1> QED BY <1>3 DEF Oldest

LEMMA NextClientUnused ==
    ASSUME Unused # {}
    PROVE  NextClient \in Unused
<1>1. Unused \in SUBSET Nat
  BY BoundAssumption DEF Unused, Client
<1>2. \E c \in Unused : \A d \in Unused : c <= d
  BY <1>1, LeastExists
<1> QED BY <1>2 DEF NextClient

\* A cache that only loses entries stays bounded.
LEMMA ShrinkingBounded ==
    ASSUME IsFiniteSet(CachedKeys), CacheBounded, CachedKeys' \subseteq CachedKeys
    PROVE  IsFiniteSet(CachedKeys)' /\ CacheBounded'
<1>1. /\ IsFiniteSet(CachedKeys')
      /\ Cardinality(CachedKeys') <= Cardinality(CachedKeys)
  BY FS_Subset
<1>2. /\ Cardinality(CachedKeys') \in Nat
      /\ Cardinality(CachedKeys) \in Nat
  BY <1>1, FS_CardinalityType
<1> QED BY <1>1, <1>2, BoundAssumption DEF CacheBounded

LEMMA EvictedCached ==
    ASSUME TypeOK, IsFiniteSet(CachedKeys)
    PROVE  \A k \in Evicted : k \in CachedKeys
<1>1. Cardinality(CachedKeys) >= MaxCached => CachedKeys # {}
  BY FS_EmptySet, BoundAssumption
<1> QED BY <1>1, OldestCached DEF Evicted

\* An insertion evicts when it has to.
LEMMA InsertionBounded ==
    ASSUME TypeOK, IsFiniteSet(CachedKeys), CacheBounded, NEW t \in Thread,
           pc[t] = "connect", Unused # {}, cached' = Inserted(t)
    PROVE  IsFiniteSet(CachedKeys)' /\ CacheBounded'
<1> DEFINE kept == CachedKeys \ Evicted
<1>1. CachedKeys' \subseteq kept \union {key[t]}
  BY DEF CachedKeys, Inserted, TypeOK
<1>2. IsFiniteSet(kept) /\ Cardinality(kept) \in Nat /\ Cardinality(kept) + 1 <= MaxCached
  <2>1. Cardinality(CachedKeys) \in Nat
    BY FS_CardinalityType
  <2>2. CASE Cardinality(CachedKeys) >= MaxCached
    <3>1. Oldest \in CachedKeys
      BY <2>2, FS_EmptySet, OldestCached, BoundAssumption
    <3>2. kept = CachedKeys \ {Oldest}
      BY <2>2 DEF Evicted
    <3>3. IsFiniteSet(kept) /\ Cardinality(kept) = Cardinality(CachedKeys) - 1
      BY <3>1, <3>2, FS_RemoveElement
    <3>4. Cardinality(kept) \in Nat
      BY <3>3, FS_CardinalityType
    <3> QED BY <2>1, <3>3, <3>4, BoundAssumption DEF CacheBounded
  <2>3. CASE ~(Cardinality(CachedKeys) >= MaxCached)
    <3>1. kept = CachedKeys
      BY <2>3 DEF Evicted
    <3> QED BY <2>1, <2>3, <3>1, BoundAssumption
  <2> QED BY <2>2, <2>3
<1>3. /\ IsFiniteSet(kept \union {key[t]})
      /\ Cardinality(kept \union {key[t]}) <= MaxCached
  <2> HIDE DEF kept
  <2>1. /\ IsFiniteSet(kept \union {key[t]})
        /\ Cardinality(kept \union {key[t]}) =
              IF key[t] \in kept THEN Cardinality(kept) ELSE Cardinality(kept) + 1
    BY <1>2, FS_AddElement
  <2> QED BY <1>2, <2>1, BoundAssumption
<1>4. /\ IsFiniteSet(CachedKeys')
      /\ Cardinality(CachedKeys') <= Cardinality(kept \union {key[t]})
  BY <1>1, <1>3, FS_Subset
<1>5. /\ Cardinality(CachedKeys') \in Nat
      /\ Cardinality(kept \union {key[t]}) \in Nat
  BY <1>3, <1>4, FS_CardinalityType
<1> QED
  <2> HIDE DEF kept
  <2> QED BY <1>3, <1>4, <1>5, BoundAssumption DEF CacheBounded

LEMMA InitIInv == Init => IInv
<1> SUFFICES ASSUME Init PROVE IInv
  OBVIOUS
<1>1. CachedKeys = {}
  BY DEF Init, CachedKeys
<1>2. IsFiniteSet(CachedKeys) /\ CacheBounded
  BY <1>1, FS_EmptySet, BoundAssumption DEF CacheBounded
<1>3. TypeOK
  BY BoundAssumption DEF Init, TypeOK, Client, NoClient
<1>4. LockHeldToConnect /\ RightHost
  BY ThreadAssumption DEF Init, LockHeldToConnect, RightHost
<1>5. CachedAtHome /\ CachedNotClosed /\ FailedNotReused
  BY <1>1 DEF Init, CachedAtHome, CachedNotClosed, FailedNotReused, Cached
<1>6. UnusedUnknown
  BY BoundAssumption DEF Init, UnusedUnknown, Unused, Client, NoClient
<1> QED BY <1>2, <1>3, <1>4, <1>5, <1>6 DEF IInv

\* Steps that leave the cache and the connections alone.
LEMMA QuietStep ==
    ASSUME IInv, NEW t \in Thread,
           \/ \E k \in Key : Start(t, k)
           \/ ConnectFail(t) \/ Succeed(t) \/ Fail(t) \/ Return(t)
    PROVE  IInv'
<1> USE DEF IInv
<1>1. UNCHANGED <<cached, conn, home, failed>>
  BY DEF Start, ConnectFail, Succeed, Fail, Return
<1>2. TypeOK' /\ LockHeldToConnect' /\ RightHost' /\ UnusedUnknown'
  <2> USE DEF TypeOK, LockHeldToConnect, RightHost, UnusedUnknown, Unused, Goto, Leave
  <2> USE ThreadAssumption, BoundAssumption, KeyAssumption
  <2>1. CASE \E k \in Key : Start(t, k)
    <3>1. PICK k \in Key : Start(t, k)
      BY <2>1
    <3>2. TypeOK' /\ LockHeldToConnect'
      BY <3>1 DEF Start
    <3>3. using[t] = NoClient
      BY <3>1 DEF Start, Client
    <3>4. RightHost'
      BY <3>1, <3>3 DEF Start
    <3>5. UnusedUnknown'
      BY <3>1 DEF Start
    <3> QED BY <3>2, <3>4, <3>5
  <2>2. CASE ConnectFail(t)
    <3>1. TypeOK' /\ LockHeldToConnect'
      BY <2>2 DEF ConnectFail
    <3>2. RightHost'
      BY <2>2 DEF ConnectFail
    <3>3. UnusedUnknown'
      BY <2>2 DEF ConnectFail, Client, NoClient
    <3> QED BY <3>1, <3>2, <3>3
  <2>3. CASE Succeed(t)
    BY <2>3 DEF Succeed
  <2>4. CASE Fail(t)
    BY <2>4 DEF Fail
  <2>5. CASE Return(t)
    BY <2>5 DEF Return, Client, NoClient
  <2> QED BY <2>1, <2>2, <2>3, <2>4, <2>5
<1>3. CachedKeys' = CachedKeys /\ Cached' = Cached
  BY <1>1 DEF CachedKeys, Cached
<1>4. /\ CachedAtHome' /\ CachedNotClosed' /\ FailedNotReused'
      /\ CacheBounded' /\ IsFiniteSet(CachedKeys)'
  BY <1>1, <1>3 DEF CachedAtHome, CachedNotClosed, FailedNotReused, CacheBounded
<1> QED BY <1>2, <1>4

\* The client found leaves the cache for the thread.
LEMMA ReuseStep ==
    ASSUME IInv, NEW t \in Thread, Reuse(t)
    PROVE  IInv'
<1> USE DEF IInv
<1> DEFINE c == cached[key[t]]
<1>1. key[t] \in Key /\ c \in Client /\ conn[c] = "live" /\ using' = [using EXCEPT ![t] = c]
  BY DEF TypeOK, Reuse, NoClient
<1>2. TypeOK'
  BY <1>1, BoundAssumption DEF TypeOK, Reuse, Goto, NoClient, Client
<1>3. LockHeldToConnect'
  BY DEF TypeOK, LockHeldToConnect, Reuse, Goto
<1>4. home[c] = key[t]
  BY <1>1 DEF CachedAtHome, CachedKeys, Reuse
<1>5. RightHost'
  BY <1>1, <1>4 DEF TypeOK, RightHost, Reuse
<1>6. UnusedUnknown'
  BY <1>1 DEF TypeOK, UnusedUnknown, Unused, Reuse
<1>7. CachedKeys' \subseteq CachedKeys /\ \A k \in CachedKeys' : cached'[k] = cached[k]
  BY DEF TypeOK, CachedKeys, Reuse
<1>8. IsFiniteSet(CachedKeys)' /\ CacheBounded'
  BY <1>7, ShrinkingBounded
<1>9. CachedAtHome' /\ CachedNotClosed' /\ FailedNotReused'
  BY <1>7 DEF CachedAtHome, CachedNotClosed, FailedNotReused, Cached, Reuse
<1> QED BY <1>2, <1>3, <1>5, <1>6, <1>8, <1>9

\* Steps that close clients close those of the keys they remove: the other cached
\* clients are other clients, each at its own home.
LEMMA RemovalKeeps ==
    ASSUME TypeOK, CachedAtHome, CachedNotClosed, FailedNotReused, NEW K \in SUBSET Key,
           cached' = [k \in Key |-> IF k \in K THEN NoClient ELSE cached[k]],
           conn' = Close(conn, {cached[k] : k \in K}),
           UNCHANGED home
    PROVE  /\ CachedKeys' \subseteq CachedKeys
           /\ \A k \in CachedKeys' : k \notin K /\ cached'[k] = cached[k]
           /\ CachedAtHome'
           /\ CachedNotClosed'
           /\ \A c \in Client : c \in Unused' => c \in Unused
<1>1. /\ CachedKeys' \subseteq CachedKeys
      /\ \A k \in CachedKeys' : k \notin K /\ cached'[k] = cached[k]
  BY DEF CachedKeys
<1>2. CachedAtHome'
  BY <1>1 DEF CachedAtHome
<1>3. CachedNotClosed'
  <2> SUFFICES ASSUME NEW k \in CachedKeys' PROVE conn'[cached'[k]] \in {"live", "dead"}
    BY DEF CachedNotClosed, Cached
  <2>1. k \in CachedKeys /\ k \notin K /\ cached'[k] = cached[k] /\ cached[k] \in Client
    BY <1>1 DEF CachedKeys, TypeOK
  <2>2. conn[cached[k]] \in {"live", "dead"}
    BY <2>1 DEF CachedNotClosed, Cached
  <2>3. \A l \in K : cached[l] # cached[k]
    BY <2>1 DEF CachedAtHome, CachedKeys
  <2> QED BY <2>1, <2>2, <2>3 DEF Close
<1>4. \A c \in Client : c \in Unused' => c \in Unused
  BY DEF Unused, Close
<1> QED BY <1>1, <1>2, <1>3, <1>4

LEMMA GoConnectStep ==
    ASSUME IInv, NEW t \in Thread, GoConnect(t)
    PROVE  IInv'
<1> USE DEF IInv
<1>1. key[t] \in Key
  BY DEF TypeOK, GoConnect
<1>2. /\ cached' = [k \in Key |-> IF k \in {key[t]} THEN NoClient ELSE cached[k]]
      /\ conn' = Close(conn, {cached[k] : k \in {key[t]}})
  <2>1. {cached[k] : k \in {key[t]}} = {cached[key[t]]}
    OBVIOUS
  <2>2. cached' = [cached EXCEPT ![key[t]] = NoClient]
    BY DEF GoConnect
  <2>3. conn' = Close(conn, {cached[key[t]]})
    BY DEF GoConnect
  <2> QED BY <2>1, <2>2, <2>3 DEF TypeOK
<1>3. /\ CachedKeys' \subseteq CachedKeys
      /\ \A k \in CachedKeys' : cached'[k] = cached[k]
      /\ CachedAtHome' /\ CachedNotClosed'
      /\ \A c \in Client : c \in Unused' => c \in Unused
  BY <1>1, <1>2, RemovalKeeps, ZenonT(60) DEF GoConnect
<1>4. TypeOK'
  <2>1. conn' \in [Client -> {"none", "live", "dead", "closed"}]
    BY <1>2 DEF TypeOK, Close
  <2>2. cached' \in [Key -> Client \union {NoClient}]
    BY <1>2 DEF TypeOK
  <2> QED BY <1>1, <2>1, <2>2 DEF TypeOK, GoConnect, Goto
<1>5. LockHeldToConnect'
  BY ThreadAssumption DEF TypeOK, LockHeldToConnect, GoConnect, Goto
<1>6. RightHost'
  BY DEF RightHost, GoConnect
<1>7. UnusedUnknown'
  BY <1>3 DEF UnusedUnknown, GoConnect, Unused
<1>8. FailedNotReused'
  BY <1>3 DEF FailedNotReused, Cached, GoConnect
<1>9. IsFiniteSet(CachedKeys)' /\ CacheBounded'
  BY <1>3, ShrinkingBounded
<1> QED BY <1>3, <1>4, <1>5, <1>6, <1>7, <1>8, <1>9

\* The client of the command that failed is not cached under another key: it
\* would be away from home.
LEMMA DiscardStep ==
    ASSUME IInv, NEW t \in Thread, Discard(t)
    PROVE  IInv'
<1> USE DEF IInv
<1>1. key[t] \in Key /\ using[t] \in Client /\ home[using[t]] = key[t]
  BY BoundAssumption DEF TypeOK, Discard, RightHost, NoClient, Client
<1>2. /\ CachedKeys' \subseteq CachedKeys
      /\ \A k \in CachedKeys' : k # key[t] /\ cached'[k] = cached[k]
      /\ CachedAtHome' /\ CachedNotClosed'
      /\ \A c \in Client : c \in Unused' => c \in Unused
  BY <1>1, RemovalKeeps DEF Discard, Discarded
<1>3. TypeOK'
  <2>1. conn' \in [Client -> {"none", "live", "dead", "closed"}]
    BY DEF TypeOK, Discard, Close
  <2>2. cached' \in [Key -> Client \union {NoClient}]
    BY DEF TypeOK, Discard
  <2>3. using' = [using EXCEPT ![t] = NoClient] /\ NoClient \notin Client
    BY BoundAssumption DEF Discard, Leave, NoClient, Client
  <2>4. failed' \subseteq Client
    BY <1>1 DEF Discard, TypeOK
  <2> QED BY <2>1, <2>2, <2>3, <2>4 DEF TypeOK, Discard, Leave, Goto
<1>4. LockHeldToConnect'
  BY ThreadAssumption DEF TypeOK, LockHeldToConnect, Discard, Leave, Goto
<1>5. RightHost'
  BY DEF TypeOK, RightHost, Discard, Leave, Goto
<1>6. UnusedUnknown'
  <2>1. using[t] \notin Unused
    BY DEF UnusedUnknown
  <2>2. \A c \in Unused' : c \in Unused /\ c # using[t]
    BY <1>2, <2>1 DEF Unused
  <2>3. \A c \in Unused' : c \notin failed'
    BY <2>2 DEF UnusedUnknown, Discard
  <2>4. \A c \in Unused', u \in Thread : using'[u] # c
    BY <2>2, BoundAssumption
    DEF UnusedUnknown, Discard, Leave, TypeOK, Unused, Client, NoClient
  <2> QED BY <2>3, <2>4 DEF UnusedUnknown
<1>7. FailedNotReused'
  <2> SUFFICES ASSUME NEW k \in CachedKeys' PROVE cached'[k] \notin failed'
    BY DEF FailedNotReused, Cached
  <2>1. cached'[k] = cached[k] /\ k \in CachedKeys /\ k # key[t]
    BY <1>2
  <2>2. cached[k] # using[t]
    BY <1>1, <2>1 DEF CachedAtHome
  <2>3. cached[k] \notin failed
    BY <2>1 DEF FailedNotReused, Cached
  <2> QED BY <2>1, <2>2, <2>3 DEF Discard
<1>8. IsFiniteSet(CachedKeys)' /\ CacheBounded'
  BY <1>2, ShrinkingBounded
<1> QED BY <1>2, <1>3, <1>4, <1>5, <1>6, <1>7, <1>8

LEMMA CloseAllStep ==
    ASSUME IInv, CloseAll
    PROVE  IInv'
<1> USE DEF IInv
<1>1. cached' = [k \in Key |-> IF k \in Key THEN NoClient ELSE cached[k]]
  BY DEF CloseAll
<1>2. /\ CachedKeys' \subseteq CachedKeys
      /\ \A k \in CachedKeys' : k \notin Key
      /\ \A c \in Client : c \in Unused' => c \in Unused
  BY <1>1, RemovalKeeps DEF CloseAll
<1>3. CachedKeys' = {}
  BY <1>2 DEF CachedKeys
<1>4. TypeOK'
  BY DEF TypeOK, CloseAll, Close
<1>5. LockHeldToConnect' /\ RightHost'
  BY DEF LockHeldToConnect, RightHost, CloseAll
<1>6. UnusedUnknown'
  BY <1>2 DEF UnusedUnknown, CloseAll, Unused
<1>7. CachedAtHome' /\ CachedNotClosed' /\ FailedNotReused'
  BY <1>3 DEF CachedAtHome, CachedNotClosed, FailedNotReused, Cached
<1>8. IsFiniteSet(CachedKeys)' /\ CacheBounded'
  BY <1>2, ShrinkingBounded
<1> QED BY <1>4, <1>5, <1>6, <1>7, <1>8

LEMMA LoseStep ==
    ASSUME IInv, NEW c \in Client, Lose(c)
    PROVE  IInv'
<1> USE DEF IInv
<1>1. UNCHANGED <<cached, lock, home, failed, pc, key, using, commands>>
  BY DEF Lose
<1>2. TypeOK'
  BY DEF TypeOK, Lose
<1>3. LockHeldToConnect' /\ CachedAtHome' /\ RightHost' /\ FailedNotReused'
  BY <1>1 DEF LockHeldToConnect, CachedAtHome, RightHost, FailedNotReused, Cached, CachedKeys
<1>4. IsFiniteSet(CachedKeys)' /\ CacheBounded'
  BY <1>1 DEF CacheBounded, CachedKeys
<1>5. CachedNotClosed'
  BY <1>1 DEF CachedNotClosed, Cached, CachedKeys, Lose, TypeOK
<1>6. UnusedUnknown'
  BY <1>1 DEF UnusedUnknown, Unused, Lose, TypeOK
<1> QED BY <1>2, <1>3, <1>4, <1>5, <1>6

\* The new client is unknown to everyone, and evicted clients are other clients.
LEMMA ConnectStep ==
    ASSUME IInv, NEW t \in Thread, Connect(t)
    PROVE  IInv'
<1> USE DEF IInv
<1> DEFINE n == NextClient
           gone == {cached[k] : k \in Evicted}
<1>1. key[t] \in Key
  BY DEF TypeOK, Connect
<1>2. n \in Client /\ conn[n] = "none"
  BY NextClientUnused DEF Connect, Unused
<1>3. /\ conn' = [c \in Client |-> IF c = n THEN "live"
                                   ELSE IF c \in gone THEN "closed" ELSE conn[c]]
      /\ home' = [home EXCEPT ![n] = key[t]]
      /\ using' = [using EXCEPT ![t] = n]
      /\ cached' = [k \in Key |-> IF k = key[t] THEN n
                                  ELSE IF k \in Evicted THEN NoClient ELSE cached[k]]
  BY <1>2 DEF Connect, Close, Inserted
<1>4. /\ \A c \in Cached : c # n
      /\ \A u \in Thread : using[u] # n
      /\ n \notin failed
  BY <1>2 DEF CachedNotClosed, UnusedUnknown, Unused
<1>5. \A k \in CachedKeys' : \/ k = key[t] /\ cached'[k] = n
                             \/ /\ k # key[t] /\ k \notin Evicted /\ k \in CachedKeys
                                /\ cached'[k] = cached[k] /\ cached[k] \in Client
  BY <1>3 DEF CachedKeys, TypeOK
<1> HIDE DEF n, gone
<1>6. TypeOK'
  <2>1. NoClient \notin Client
    BY BoundAssumption DEF NoClient, Client
  <2>2. /\ cached' \in [Key -> Client \union {NoClient}]
        /\ conn' \in [Client -> {"none", "live", "dead", "closed"}]
        /\ home' \in [Client -> Key \union {NoKey}]
    BY <1>1, <1>2, <1>3 DEF TypeOK
  <2> QED BY <1>2, <1>3, <2>1, <2>2 DEF TypeOK, Connect, Goto
<1>7. LockHeldToConnect'
  BY ThreadAssumption DEF TypeOK, LockHeldToConnect, Connect, Goto
<1>8. CachedAtHome'
  <2> SUFFICES ASSUME NEW k \in CachedKeys' PROVE home'[cached'[k]] = k
    BY DEF CachedAtHome
  <2>1. home \in [Client -> Key \union {NoKey}]
    BY DEF TypeOK
  <2>2. CASE k = key[t] /\ cached'[k] = n
    BY <1>2, <1>3, <2>1, <2>2
  <2>3. CASE k \in CachedKeys /\ cached'[k] = cached[k] /\ cached[k] \in Client
    <3>1. cached[k] # n /\ home[cached[k]] = k
      BY <1>4, <2>3 DEF Cached, CachedAtHome
    <3> QED BY <1>3, <2>1, <2>3, <3>1
  <2> QED BY <1>5, <2>2, <2>3
<1>9. CachedNotClosed'
  <2> SUFFICES ASSUME NEW k \in CachedKeys' PROVE conn'[cached'[k]] \in {"live", "dead"}
    BY DEF CachedNotClosed, Cached
  <2>1. CASE k = key[t] /\ cached'[k] = n
    BY <1>2, <1>3, <2>1
  <2>2. CASE /\ k \notin Evicted /\ k \in CachedKeys
             /\ cached'[k] = cached[k] /\ cached[k] \in Client
    <3>1. conn[cached[k]] \in {"live", "dead"} /\ cached[k] # n
      BY <1>4, <2>2 DEF CachedNotClosed, Cached
    <3>2. \A l \in Evicted : cached[l] # cached[k]
      <4>1. \A l \in Evicted : l \in CachedKeys
        BY EvictedCached
      <4> QED BY <2>2, <4>1 DEF CachedAtHome
    <3> QED BY <1>3, <2>2, <3>1, <3>2 DEF gone
  <2> QED BY <1>5, <2>1, <2>2
<1>10. RightHost'
  <2>1. \A u \in Thread : key'[u] = key[u]
    BY DEF Connect
  <2> QED BY <1>2, <1>3, <1>4, <2>1 DEF TypeOK, RightHost, NoClient
<1>11. UnusedUnknown'
  <2>1. \A c \in Unused' : c \in Unused /\ c # n
    BY <1>3 DEF Unused
  <2> QED BY <1>3, <2>1 DEF UnusedUnknown, Connect, TypeOK
<1>12. FailedNotReused'
  <2>1. failed' = failed
    BY DEF Connect
  <2> QED BY <1>4, <1>5, <2>1 DEF FailedNotReused, Cached
<1>13. IsFiniteSet(CachedKeys)' /\ CacheBounded'
  BY InsertionBounded DEF Connect
<1> QED BY <1>6, <1>7, <1>8, <1>9, <1>10, <1>11, <1>12, <1>13

----------------------------------------------------------------------------

\* The inductive invariant holds in every reachable state.
THEOREM Invariance == Spec => []IInv
<1>1. IInv /\ [Next]_vars => IInv'
  <2> SUFFICES ASSUME IInv, [Next]_vars PROVE IInv'
    OBVIOUS
  <2>1. ASSUME NEW t \in Thread, NEW k \in Key, Start(t, k) PROVE IInv'
    BY <2>1, QuietStep
  <2>2. ASSUME NEW t \in Thread, ThreadStep(t) PROVE IInv'
    <3>1. CASE Reuse(t)
      BY <3>1, ReuseStep
    <3>2. CASE GoConnect(t)
      BY <3>2, GoConnectStep
    <3>3. CASE Connect(t)
      BY <3>3, ConnectStep
    <3>4. CASE Discard(t)
      BY <3>4, DiscardStep
    <3>5. CASE ConnectFail(t) \/ Succeed(t) \/ Fail(t) \/ Return(t)
      BY <3>5, QuietStep
    <3> QED BY <2>2, <3>1, <3>2, <3>3, <3>4, <3>5 DEF ThreadStep, CacheStep
  <2>3. CASE CloseAll
    BY <2>3, CloseAllStep
  <2>4. ASSUME NEW c \in Client, Lose(c) PROVE IInv'
    BY <2>4, LoseStep
  <2>5. CASE UNCHANGED vars
    BY <2>5 DEF vars, IInv, TypeOK, LockHeldToConnect, CachedAtHome, CachedNotClosed,
                RightHost, UnusedUnknown, FailedNotReused, CacheBounded, Cached,
                CachedKeys, Unused
  <2> QED BY <2>1, <2>2, <2>3, <2>4, <2>5 DEF Next
<1> QED BY InitIInv, <1>1, PTL DEF Spec

\* The pool's variables have their types, and a thread that runs a command has a
\* client to run it on (_execute_sync).
THEOREM TypeCorrect == Spec => []TypeOK
<1>1. IInv => TypeOK
  BY DEF IInv
<1> QED BY Invariance, <1>1, PTL

\* The cache holds at most MAX_CACHED_CLIENTS clients (_get_cached_client).
THEOREM CacheIsBounded == Spec => []CacheBounded
<1>1. IInv => CacheBounded
  BY DEF IInv
<1> QED BY Invariance, <1>1, PTL

\* A command runs on a client connected for its own key.
THEOREM HostIsRight == Spec => []RightHost
<1>1. IInv => RightHost
  BY DEF IInv
<1> QED BY Invariance, <1>1, PTL

\* No client in the cache has been closed by the pool.
THEOREM CacheHoldsOpenClients == Spec => []CachedNotClosed
<1>1. IInv => CachedNotClosed
  BY DEF IInv
<1> QED BY Invariance, <1>1, PTL

\* A client whose command failed does not come back (_discard_cached_client).
THEOREM FailedClientsGone == Spec => []FailedNotReused
<1>1. IInv => FailedNotReused
  BY DEF IInv
<1> QED BY Invariance, <1>1, PTL

\* The lock is held only while its holder connects: no path out of
\* _get_cached_client leaves it behind.
THEOREM LockIsReleased == Spec => []LockHeldToConnect
<1>1. IInv => LockHeldToConnect
  BY DEF IInv
<1> QED BY Invariance, <1>1, PTL

----------------------------------------------------------------------------
\* The refinement of HostCommands.

\* The clients that are closed with the entries of K are open ones, and no other
\* client changes.
LEMMA ClosingMapped ==
    ASSUME IInv, NEW K \in SUBSET Key
    PROVE  \E C \in SUBSET Promise!Open : Close(conn, {cached[k] : k \in K}) = Promise!Closing(C)
<1> DEFINE C == {cached[k] : k \in K} \intersect Client
<1>1. C \subseteq Promise!Open
  <2>1. SUFFICES ASSUME NEW k \in K, cached[k] \in Client
                 PROVE  cached[k] \in Promise!Open
    OBVIOUS
  <2>2. k \in CachedKeys
    BY <2>1, BoundAssumption DEF CachedKeys, Client, NoClient
  <2>3. QED
    BY <2>1, <2>2 DEF IInv, CachedNotClosed, Cached, Promise!Open
<1>2. Close(conn, {cached[k] : k \in K}) = Promise!Closing(C)
  BY DEF Close, Promise!Closing
<1> HIDE DEF C
<1>3. QED
  BY <1>1, <1>2

\* Where a thread is seen to go.
LEMMA WhereGoes ==
    ASSUME TypeOK, NEW t \in Thread, NEW where, Goto(t, where)
    PROVE  Where' = [Where EXCEPT ![t] = IF where = "connect" THEN "wait" ELSE where]
BY DEF Where, Goto, TypeOK

LEMMA ReuseMapped ==
    ASSUME IInv, NEW t \in Thread, Reuse(t)
    PROVE  \E c \in Client : Promise!RunOnOld(t, c)
<1> DEFINE c == cached[key[t]]
<1>1. TypeOK /\ key[t] \in Key
  BY DEF IInv, TypeOK, Reuse
<1>2. key[t] \in CachedKeys /\ c \in Client
  BY <1>1 DEF CachedKeys, Reuse, TypeOK
<1>3. home[c] = key[t] /\ c \notin failed
  BY <1>2 DEF IInv, CachedAtHome, FailedNotReused, Cached
<1>4. Where[t] = "wait" /\ Where' = [Where EXCEPT ![t] = "exec"]
  BY <1>1, WhereGoes DEF Reuse, Where
<1>5. Promise!RunOnOld(t, c)
  BY <1>3, <1>4 DEF Reuse, Promise!RunOnOld, Promise!RunOn
<1> HIDE DEF c
<1>6. QED
  BY <1>2, <1>5

LEMMA ConnectMapped ==
    ASSUME IInv, NEW t \in Thread, Connect(t)
    PROVE  \E c \in Client : Promise!RunOnNew(t, c)
<1> DEFINE c == NextClient
<1>1. TypeOK /\ IsFiniteSet(CachedKeys)
  BY DEF IInv
<1>2. c \in Client /\ conn[c] = "none"
  BY NextClientUnused DEF Connect, Unused
<1>3. Evicted \in SUBSET Key
  BY <1>1, EvictedCached DEF CachedKeys
<1>4. PICK C \in SUBSET Promise!Open :
        Close(conn, {cached[k] : k \in Evicted}) = Promise!Closing(C)
  BY <1>3, ClosingMapped
<1>5. conn' = [Promise!Closing(C) EXCEPT ![c] = "live"]
  BY <1>4 DEF Connect
<1>6. Where[t] = "wait" /\ Where' = [Where EXCEPT ![t] = "exec"]
  BY <1>1, WhereGoes DEF Connect, Where
<1>7. Promise!RunOnNew(t, c)
  BY <1>2, <1>5, <1>6 DEF Connect, Promise!RunOnNew, Promise!RunOn
<1> HIDE DEF c
<1>8. QED
  BY <1>2, <1>7

\* Connecting begins with the lock and perhaps with the end of a dead client.
LEMMA GoConnectMapped ==
    ASSUME IInv, NEW t \in Thread, GoConnect(t)
    PROVE  Promise!CloseSome
<1>1. TypeOK /\ key[t] \in Key
  BY DEF IInv, TypeOK, GoConnect
<1>2. {cached[k] : k \in {key[t]}} = {cached[key[t]]}
  OBVIOUS
<1>3. PICK C \in SUBSET Promise!Open : Close(conn, {cached[key[t]]}) = Promise!Closing(C)
  <2>1. {key[t]} \in SUBSET Key
    BY <1>1
  <2>2. QED
    BY <2>1, <1>2, ClosingMapped
<1>4. Where' = Where
  <2>1. Where' = [Where EXCEPT ![t] = "wait"] /\ Where[t] = "wait"
    BY <1>1, WhereGoes DEF GoConnect, Where
  <2>2. QED
    BY <2>1 DEF Where
<1>5. QED
  BY <1>3, <1>4 DEF GoConnect, Promise!CloseSome

LEMMA AnswerMapped ==
    ASSUME IInv, NEW t \in Thread, ConnectFail(t) \/ Discard(t) \/ Return(t)
    PROVE  Promise!Answer(t)
<1>1. TypeOK
  BY DEF IInv
<1>2. Where' = [Where EXCEPT ![t] = "idle"]
  BY <1>1, WhereGoes DEF ConnectFail, Discard, Return, Leave
<1>3. CASE ConnectFail(t) \/ Return(t)
  BY <1>2, <1>3 DEF ConnectFail, Return, Leave, Where, Promise!Answer
<1>4. CASE Discard(t)
  <2>1. key[t] \in Key
    BY <1>1, <1>4 DEF Discard, TypeOK
  <2>2. PICK C \in SUBSET Promise!Open :
          Close(conn, {cached[k] : k \in {key[t]}}) = Promise!Closing(C)
    BY <2>1, ClosingMapped
  <2>3. Where[t] = "error" /\ conn' = Promise!Closing(C)
    BY <1>4, <2>2 DEF Discard, Discarded, Where
  <2>4. QED
    BY <1>2, <1>4, <2>3 DEF Discard, Leave, Promise!Answer
<1>5. QED
  BY <1>3, <1>4

LEMMA StepMapped == IInv /\ [Next]_vars => [Promise!Next]_Promise!vars
<1> SUFFICES ASSUME IInv, [Next]_vars PROVE [Promise!Next]_Promise!vars
  OBVIOUS
<1>1. TypeOK
  BY DEF IInv
<1>2. ASSUME NEW t \in Thread, NEW k \in Key, Start(t, k) PROVE Promise!Ask(t, k)
  BY <1>1, <1>2, WhereGoes DEF Start, Where, Promise!Ask
<1>3. ASSUME NEW t \in Thread, Succeed(t) PROVE Promise!Succeed(t)
  BY <1>1, <1>3, WhereGoes DEF Succeed, Where, Promise!Succeed
<1>4. ASSUME NEW t \in Thread, Fail(t) PROVE Promise!Fail(t)
  BY <1>1, <1>4, WhereGoes DEF Fail, Where, Promise!Fail
<1>5. ASSUME NEW t \in Thread, ThreadStep(t) PROVE Promise!Next
  BY <1>3, <1>4, <1>5, ReuseMapped, ConnectMapped, GoConnectMapped, AnswerMapped
  DEF ThreadStep, CacheStep, Promise!Next
<1>6. ASSUME CloseAll PROVE Promise!CloseSome
  <2>1. PICK C \in SUBSET Promise!Open :
          Close(conn, {cached[k] : k \in Key}) = Promise!Closing(C)
    BY ClosingMapped
  <2>2. QED
    BY <2>1, <1>6 DEF CloseAll, Where, Promise!CloseSome
<1>7. ASSUME NEW c \in Client, Lose(c) PROVE Promise!Lose(c)
  BY <1>7 DEF Lose, Where, Promise!Lose
<1>8. CASE UNCHANGED vars
  BY <1>8 DEF vars, Where, Promise!vars
<1>9. QED
  BY <1>2, <1>5, <1>6, <1>7, <1>8 DEF Next, Promise!Next

\* The pool of connections implements commands on connections: what is cached, evicted
\* and closed is not to be noticed (_get_cached_client, _discard_cached_client).
THEOREM PoolKeepsThePromise == Spec => ImplementsHostCommands
<1>1. Init => Promise!Init
  BY DEF Init, Where, Promise!Init
<1>2. QED
  BY <1>1, StepMapped, Invariance, PTL DEF Spec, ImplementsHostCommands, Promise!Spec
=============================================================================
