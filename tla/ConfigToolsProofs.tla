------------------------- MODULE ConfigToolsProofs -------------------------
(***************************************************************************)
(* The invariants of ConfigTools hold for any number of calls, any         *)
(* mappings, storages and rules, and any devices, whatever their domains.  *)
(***************************************************************************)
EXTENDS ConfigTools, TLAPS, FiniteSetTheorems, SequenceTheorems

MappingTools == { "create_pci_mapping", "add_pci_mapping_target", "delete_pci_mapping" }
TargetTools == { "create_pci_mapping", "add_pci_mapping_target" }
StorageTools == { "add_storage", "remove_storage" }

\* What EntriesDescribeDevices says of one target.
Described(e) ==
    \E i \in DOMAIN Listing[e.want.node] :
        /\ e.device = Listing[e.want.node][i]
        /\ \/ AtPath(e.device, e.want.path)
           \/ /\ Lookalike(e.device, e.want.path)
              /\ \A j \in DOMAIN Listing[e.want.node] :
                    AtPath(Listing[e.want.node][j], e.want.path) => i <= j

\* What holds of the record of one call, whatever the others do.
Fine(r) ==
    /\ r.tool \in MappingTools => r.name \in Mapping
    /\ r.tool \in StorageTools => r.name \in Storage
    /\ r.tool \in TargetTools => r.want \in Wanted
    /\ r.step = "lookup" => r.tool \in TargetTools
    /\ r.tool \in TargetTools /\ r.step = "write"
       => [want |-> r.want, device |-> r.device] \in Entry
          /\ Described([want |-> r.want, device |-> r.device])
    /\ \A e \in Entries(r.read) : Described(e)
    /\ r.tool = "create_firewall_rule" => r.rule \in Rules
    /\ r.gone # NoRule => r.step = "done" /\ (~r.shifted => r.gone = r.rule)
    /\ r.answer # "none" => r.step = "done"
    /\ r.tool = "remove_storage" /\ r.step = "write" => r.name \notin Defaults

\* A call that read a mapping nobody has written since read what is there.
UpToDate(r, map, written) ==
    r.tool = "add_pci_mapping_target" /\ r.step \in { "lookup", "write" } =>
        /\ r.seen <= written[r.name]
        /\ r.seen = written[r.name] => map[r.name] = r.read

\* A call whose position nothing has shifted finds the rule there.
InPlace(r, list) ==
    r.tool = "delete_firewall_rule" /\ r.step = "write" /\ ~r.shifted =>
        r.pos \in DOMAIN list /\ list[r.pos] = r.rule

\* The call was told that it added storage s.
Adder(r, s) == r.tool = "add_storage" /\ r.name = s /\ r.answer = "success"

\* AddedOnce, and the storage registered now is one of those that were added.
AddedNow ==
    \A s \in Storage :
        Cardinality(Adders(s)) <=
            IF s \in Defaults THEN 0
            ELSE removals[s] + (IF s \in storages THEN 1 ELSE 0)

\* The inductive invariant.
IInv ==
    /\ TypeOK
    /\ OnlyStaleWritesLose
    /\ \A m \in Mapping : mapping[m] # NoMapping => \A e \in Entries(mapping[m]) : Described(e)
    /\ Defaults \subseteq storages
    /\ AddedNow
    /\ \A c \in Call : Fine(call[c])
    /\ \A c \in Call : UpToDate(call[c], mapping, edits)
    /\ \A c \in Call : InPlace(call[c], rules)

----------------------------------------------------------------------------

LEMMA NoCallTyped == NoCall \in CallState /\ Fine(NoCall) /\ Entries(<<>>) = {}
<1>1. /\ "idle" \in Steps /\ "none" \in Answers /\ 0 \in Nat /\ FALSE \in BOOLEAN
      /\ <<>> \in Seq(Entry)
  BY EmptySeq DEF Steps, Answers
<1>2. Entries(<<>>) = {}
  BY DEF Entries
<1>3. NoCall \in CallState
  BY <1>1 DEF NoCall, CallState
<1>4. Fine(NoCall)
  BY <1>2 DEF NoCall, Fine, MappingTools, TargetTools, StorageTools
<1>5. QED
  BY <1>2, <1>3, <1>4

LEMMA Names ==
    /\ "read" \in Steps /\ "lookup" \in Steps /\ "write" \in Steps /\ "done" \in Steps
    /\ "success" \in Answers /\ "error" \in Answers
    /\ MappingTools \subseteq Tools /\ StorageTools \subseteq Tools
    /\ TargetTools \subseteq MappingTools
    /\ "create_pci_mapping" \in TargetTools /\ "add_pci_mapping_target" \in TargetTools
    /\ "delete_pci_mapping" \in MappingTools
    /\ "add_storage" \in StorageTools /\ "remove_storage" \in StorageTools
    /\ "create_firewall_rule" \in Tools /\ "delete_firewall_rule" \in Tools
    /\ Tools \subseteq MappingTools \union StorageTools
                       \union { "create_firewall_rule", "delete_firewall_rule" }
BY DEF Steps, Answers, Tools, MappingTools, TargetTools, StorageTools

\* The calls told that they added a storage, as a set over their records.
LEMMA AddersDef == \A s : Adders(s) = { c \in Call : Adder(call[c], s) }
BY DEF Adders, Adder

\* A step of one call that changes neither the configuration nor who added what.
LEMMA CallKeeps ==
    ASSUME NEW c \in Call, NEW r \in CallState, IInv, call' = [call EXCEPT ![c] = r],
           UNCHANGED <<mappingVars, rules, storageVars>>,
           Fine(r), UpToDate(r, mapping, edits), InPlace(r, rules),
           \A s : Adder(r, s) <=> Adder(call[c], s)
    PROVE  IInv'
<1>1. /\ call' \in [Call -> CallState]
      /\ call'[c] = r
      /\ \A d \in Call \ {c} : call'[d] = call[d]
  BY DEF IInv, TypeOK
<1>2. UNCHANGED <<mapping, edits, asked, stale, rules, storages, removals>>
  BY DEF mappingVars, storageVars
<1>3. TypeOK'
  BY <1>1, <1>2 DEF IInv, TypeOK
<1>4. OnlyStaleWritesLose'
  BY <1>2 DEF IInv, OnlyStaleWritesLose
<1>5. \A m \in Mapping : mapping'[m] # NoMapping => \A e \in Entries(mapping'[m]) : Described(e)
  BY <1>2 DEF IInv
<1>6. Defaults \subseteq storages'
  BY <1>2 DEF IInv
<1>7. AddedNow'
  <2>1. \A s : { d \in Call : Adder(call'[d], s) } = { d \in Call : Adder(call[d], s) }
    BY <1>1
  <2>2. \A s : Adders(s)' = Adders(s)
    BY <2>1, AddersDef DEF Adders, Adder
  <2>3. QED
    BY <2>2, <1>2 DEF IInv, AddedNow
<1>8. \A d \in Call : Fine(call'[d])
  BY <1>1 DEF IInv
<1>9. \A d \in Call : UpToDate(call'[d], mapping', edits')
  BY <1>1, <1>2 DEF IInv
<1>10. \A d \in Call : InPlace(call'[d], rules')
  BY <1>1, <1>2 DEF IInv
<1>11. QED
  BY <1>3, <1>4, <1>5, <1>6, <1>7, <1>8, <1>9, <1>10 DEF IInv

\* What an answered call looks like.
LEMMA AnsweredFine ==
    ASSUME IInv, NEW c \in Call, NEW a \in { "success", "error" }
    PROVE  /\ Answered(c, a) \in CallState
           /\ Fine(Answered(c, a))
           /\ \A map, written : UpToDate(Answered(c, a), map, written)
           /\ \A list : InPlace(Answered(c, a), list)
           /\ \A s : Adder(Answered(c, a), s) =>
                     call[c].tool = "add_storage" /\ call[c].name = s /\ a = "success"
<1> DEFINE r == Answered(c, a)
<1>1. call[c] \in CallState /\ Fine(call[c]) /\ "done" \in Steps /\ a \in Answers
  BY Names DEF IInv, TypeOK
<1>2. /\ r.tool = call[c].tool /\ r.step = "done" /\ r.answer = a /\ r.name = call[c].name
      /\ r.want = call[c].want /\ r.read = call[c].read /\ r.rule = call[c].rule
      /\ r.gone = call[c].gone /\ r.shifted = call[c].shifted
  BY <1>1 DEF Answered, CallState
<1>3. r \in CallState
  BY <1>1 DEF Answered, CallState
<1> HIDE DEF r
<1>4. Fine(r)
  BY <1>1, <1>2 DEF Fine
<1>5. /\ \A map, written : UpToDate(r, map, written)
      /\ \A list : InPlace(r, list)
      /\ \A s : Adder(r, s) => call[c].tool = "add_storage" /\ call[c].name = s /\ a = "success"
  BY <1>2 DEF UpToDate, InPlace, Adder
<1>6. QED
  BY <1>3, <1>4, <1>5 DEF r

LEMMA FailsKeeps == ASSUME IInv, NEW c \in Call, Fails(c), call[c].answer = "none" PROVE IInv'
<1>1. /\ Answered(c, "error") \in CallState /\ Fine(Answered(c, "error"))
      /\ UpToDate(Answered(c, "error"), mapping, edits)
      /\ InPlace(Answered(c, "error"), rules)
      /\ \A s : ~Adder(Answered(c, "error"), s)
  BY AnsweredFine
<1>2. \A s : ~Adder(call[c], s)
  BY DEF Adder
<1>3. QED
  BY <1>1, <1>2, CallKeeps DEF Fails

----------------------------------------------------------------------------
\* The calls begin

LEMMA StartKeeps ==
    ASSUME IInv, NEW c \in Call, NEW r \in CallState, Start(c, r),
           Fine(r), UpToDate(r, mapping, edits), InPlace(r, rules), r.answer # "success"
    PROVE  IInv'
<1>1. \A s : ~Adder(r, s) /\ ~Adder(call[c], s)
  BY DEF Start, Adder, NoCall
<1>2. QED
  BY <1>1, CallKeeps DEF Start

LEMMA AskedMappingKeeps ==
    ASSUME IInv, NEW c \in Call, NEW m \in Mapping, NEW w \in Wanted,
           CreateMapping(c, m, w) \/ AddTarget(c, m, w)
    PROVE  IInv'
<1>1. NoCall \in CallState /\ Fine(NoCall)
  BY NoCallTyped
<1>2. /\ "create_pci_mapping" \in Tools /\ "add_pci_mapping_target" \in Tools
      /\ "delete_pci_mapping" \in Tools
      /\ "read" \in Steps /\ "lookup" \in Steps /\ "write" \in Steps
  BY Names
<1>3. Entries(NoCall.read) = {}
  BY NoCallTyped DEF NoCall
<1>4. CASE CreateMapping(c, m, w)
  <2> DEFINE r == [NoCall EXCEPT !.tool = "create_pci_mapping", !.step = "lookup",
                                 !.name = m, !.want = w]
  <2>1. r \in CallState
    BY <1>1, <1>2 DEF CallState
  <2>2. Fine(r) /\ UpToDate(r, mapping, edits) /\ InPlace(r, rules) /\ r.answer # "success"
    BY <1>3 DEF NoCall, Fine, UpToDate, InPlace, MappingTools, TargetTools, StorageTools
  <2>3. Start(c, r)
    BY <1>4 DEF CreateMapping
  <2> HIDE DEF r
  <2>4. QED
    BY <2>1, <2>2, <2>3, StartKeeps
<1>5. CASE AddTarget(c, m, w)
  <2> DEFINE r == [NoCall EXCEPT !.tool = "add_pci_mapping_target", !.step = "read",
                                 !.name = m, !.want = w]
  <2>1. r \in CallState
    BY <1>1, <1>2 DEF CallState
  <2>2. Fine(r) /\ UpToDate(r, mapping, edits) /\ InPlace(r, rules) /\ r.answer # "success"
    BY <1>3 DEF NoCall, Fine, UpToDate, InPlace, MappingTools, TargetTools, StorageTools
  <2>3. Start(c, r)
    BY <1>5 DEF AddTarget
  <2> HIDE DEF r
  <2>4. QED
    BY <2>1, <2>2, <2>3, StartKeeps
<1>6. QED
  BY <1>4, <1>5

LEMMA AskedDeleteKeeps ==
    ASSUME IInv, NEW c \in Call, NEW m \in Mapping, DeleteMapping(c, m)
    PROVE  IInv'
<1> DEFINE r == [NoCall EXCEPT !.tool = "delete_pci_mapping", !.step = "write", !.name = m]
<1>1. NoCall \in CallState /\ "delete_pci_mapping" \in Tools /\ "write" \in Steps
  BY NoCallTyped, Names
<1>2. r \in CallState
  BY <1>1 DEF CallState
<1>3. Entries(NoCall.read) = {}
  BY NoCallTyped DEF NoCall
<1>4. Fine(r) /\ UpToDate(r, mapping, edits) /\ InPlace(r, rules) /\ r.answer # "success"
  BY <1>3 DEF NoCall, Fine, UpToDate, InPlace, MappingTools, TargetTools, StorageTools
<1>5. Start(c, r)
  BY DEF DeleteMapping
<1> HIDE DEF r
<1>6. QED
  BY <1>2, <1>4, <1>5, StartKeeps

LEMMA AskedRuleKeeps ==
    ASSUME IInv, NEW c \in Call, CreateRule(c) \/ DeleteRule(c)
    PROVE  IInv'
<1>1. NoCall \in CallState /\ Fine(NoCall) /\ c \in Rules
  BY NoCallTyped DEF Rules
<1>2. /\ "create_firewall_rule" \in Tools /\ "delete_firewall_rule" \in Tools
      /\ "read" \in Steps /\ "write" \in Steps
  BY Names
<1>3. Entries(NoCall.read) = {}
  BY NoCallTyped DEF NoCall
<1>4. CASE CreateRule(c)
  <2> DEFINE r == [NoCall EXCEPT !.tool = "create_firewall_rule", !.step = "write", !.rule = c]
  <2>1. r \in CallState
    BY <1>1, <1>2 DEF CallState
  <2>2. Fine(r) /\ UpToDate(r, mapping, edits) /\ InPlace(r, rules) /\ r.answer # "success"
    BY <1>1, <1>3
       DEF NoCall, Fine, UpToDate, InPlace, MappingTools, TargetTools, StorageTools
  <2>3. Start(c, r)
    BY <1>4 DEF CreateRule
  <2> HIDE DEF r
  <2>4. QED
    BY <2>1, <2>2, <2>3, StartKeeps
<1>5. CASE DeleteRule(c)
  <2> DEFINE r == [NoCall EXCEPT !.tool = "delete_firewall_rule", !.step = "read"]
  <2>1. r \in CallState
    BY <1>1, <1>2 DEF CallState
  <2>2. Fine(r) /\ UpToDate(r, mapping, edits) /\ InPlace(r, rules) /\ r.answer # "success"
    BY <1>3 DEF NoCall, Fine, UpToDate, InPlace, MappingTools, TargetTools, StorageTools
  <2>3. Start(c, r)
    BY <1>5 DEF DeleteRule
  <2> HIDE DEF r
  <2>4. QED
    BY <2>1, <2>2, <2>3, StartKeeps
<1>6. QED
  BY <1>4, <1>5

LEMMA AskedStorageKeeps ==
    ASSUME IInv, NEW c \in Call, NEW s \in Storage, AddStorage(c, s) \/ RemoveStorage(c, s)
    PROVE  IInv'
<1>1. NoCall \in CallState /\ Fine(NoCall)
  BY NoCallTyped
<1>2. /\ "add_storage" \in Tools /\ "remove_storage" \in Tools
      /\ "read" \in Steps /\ "write" \in Steps /\ "done" \in Steps /\ "error" \in Answers
  BY Names
<1>3. Entries(NoCall.read) = {}
  BY NoCallTyped DEF NoCall
<1>4. CASE AddStorage(c, s)
  <2> DEFINE r == [NoCall EXCEPT !.tool = "add_storage", !.step = "read", !.name = s]
  <2>1. r \in CallState
    BY <1>1, <1>2 DEF CallState
  <2>2. Fine(r) /\ UpToDate(r, mapping, edits) /\ InPlace(r, rules) /\ r.answer # "success"
    BY <1>3 DEF NoCall, Fine, UpToDate, InPlace, MappingTools, TargetTools, StorageTools
  <2>3. Start(c, r)
    BY <1>4 DEF AddStorage
  <2> HIDE DEF r
  <2>4. QED
    BY <2>1, <2>2, <2>3, StartKeeps
<1>5. CASE RemoveStorage(c, s) /\ s \in Defaults
  <2> DEFINE r == [NoCall EXCEPT !.tool = "remove_storage", !.step = "done", !.name = s,
                                 !.answer = "error"]
  <2>1. r \in CallState
    BY <1>1, <1>2 DEF CallState
  <2>2. Fine(r) /\ UpToDate(r, mapping, edits) /\ InPlace(r, rules) /\ r.answer # "success"
    BY <1>3 DEF NoCall, Fine, UpToDate, InPlace, MappingTools, TargetTools, StorageTools
  <2>3. Start(c, r)
    BY <1>5 DEF RemoveStorage
  <2> HIDE DEF r
  <2>4. QED
    BY <2>1, <2>2, <2>3, StartKeeps
<1>6. CASE RemoveStorage(c, s) /\ s \notin Defaults
  <2> DEFINE r == [NoCall EXCEPT !.tool = "remove_storage", !.step = "write", !.name = s]
  <2>1. r \in CallState
    BY <1>1, <1>2 DEF CallState
  <2>2. Fine(r) /\ UpToDate(r, mapping, edits) /\ InPlace(r, rules) /\ r.answer # "success"
    BY <1>3, <1>6
       DEF NoCall, Fine, UpToDate, InPlace, MappingTools, TargetTools, StorageTools
  <2>3. Start(c, r)
    BY <1>6 DEF RemoveStorage
  <2> HIDE DEF r
  <2>4. QED
    BY <2>1, <2>2, <2>3, StartKeeps
<1>7. QED
  BY <1>4, <1>5, <1>6

LEMMA AskedKeeps == ASSUME IInv, NEW c \in Call, Asked(c) PROVE IInv'
BY AskedMappingKeeps, AskedDeleteKeeps, AskedRuleKeeps, AskedStorageKeeps DEF Asked

----------------------------------------------------------------------------
\* The steps that only look

LEMMA GetMappingKeeps == ASSUME IInv, NEW c \in Call, GetMapping(c) PROVE IInv'
<1> DEFINE m == call[c].name
           r == [call[c] EXCEPT !.step = "lookup", !.read = mapping[m], !.seen = edits[m]]
<1>1. /\ call[c] \in CallState /\ Fine(call[c]) /\ call[c].tool = "add_pci_mapping_target"
      /\ call[c].step = "read" /\ mapping[m] # NoMapping
  BY DEF IInv, TypeOK, GetMapping, At
<1>2. m \in Mapping /\ "lookup" \in Steps /\ call[c].answer = "none"
  BY <1>1, Names DEF Fine
<1>3. mapping[m] \in Seq(Entry) /\ edits[m] \in Nat /\ \A e \in Entries(mapping[m]) : Described(e)
  BY <1>1, <1>2 DEF IInv, TypeOK
<1>4. call' = [call EXCEPT ![c] = r] /\ UNCHANGED <<mappingVars, rules, storageVars>>
  BY DEF GetMapping
<1> HIDE DEF m
<1>5. r \in CallState
  BY <1>1, <1>2, <1>3 DEF CallState
<1>6. /\ r.tool = "add_pci_mapping_target" /\ r.name = m /\ r.step = "lookup"
      /\ r.read = mapping[m] /\ r.seen = edits[m] /\ r.answer = "none"
      /\ r.want = call[c].want /\ r.gone = call[c].gone /\ r.shifted = call[c].shifted
      /\ r.rule = call[c].rule
  BY <1>1, <1>2 DEF CallState, m
<1> HIDE DEF r
<1>7. Fine(r)
  BY <1>1, <1>2, <1>3, <1>6 DEF Fine, MappingTools, TargetTools, StorageTools
<1>8. UpToDate(r, mapping, edits) /\ InPlace(r, rules) /\ \A s : Adder(r, s) <=> Adder(call[c], s)
  BY <1>1, <1>3, <1>6 DEF UpToDate, InPlace, Adder
<1>9. QED
  BY <1>4, <1>5, <1>7, <1>8, CallKeeps

\* Below five digits a domain is what its last four digits say.
LEMMA ShortDomain ==
    ASSUME NEW n \in Int, 0 <= n, n <= MaxDomain
    PROVE  n % (MaxDomain + 1) = n
BY DEF MaxDomain

\* What a lookup finds is what the entry will describe.
LEMMA FoundDescribed ==
    ASSUME NEW w \in Wanted, NEW d, FirstFound(w, d)
    PROVE  /\ [want |-> w, device |-> d] \in Entry
           /\ Described([want |-> w, device |-> d])
<1>1. PICK i \in DOMAIN Listing[w.node] :
          /\ d = Listing[w.node][i] /\ Matches(d, w.path)
          /\ \A j \in Found(w) : i <= j
  BY DEF FirstFound, Found
<1>2. w.node \in Node /\ w.path.dom \in NoDomain..MaxDomain
  BY WantedAssumption
<1>3. d \in Devices(w.node) /\ d \in Device /\ d.dom \in Nat
  BY <1>1, <1>2, ListingAssumption DEF Devices, Device
<1>4. AtPath(d, w.path) \/ Lookalike(d, w.path)
  <2> SUFFICES ASSUME ~AtPath(d, w.path) PROVE Lookalike(d, w.path)
    OBVIOUS
  <2>1. EndsWith(d, w.path)
    BY <1>1 DEF Matches
  <2>2. ASSUME w.path.dom # NoDomain, d.dom <= MaxDomain PROVE FALSE
    <3>1. d.dom % (MaxDomain + 1) = d.dom
      BY <1>3, <2>2, ShortDomain
    <3> QED BY <2>1, <2>2, <3>1 DEF EndsWith, AtPath
  <2> QED BY <1>3, <2>1, <2>2 DEF EndsWith, Lookalike, MaxDomain
<1>5. ASSUME NEW j \in DOMAIN Listing[w.node], AtPath(Listing[w.node][j], w.path)
      PROVE  i <= j
  BY <1>1, <1>5 DEF Found, Matches
<1>6. Described([want |-> w, device |-> d])
  BY <1>1, <1>4, <1>5 DEF Described
<1>7. QED
  BY <1>3, <1>6 DEF Entry

LEMMA LookupKeeps == ASSUME IInv, NEW c \in Call, Lookup(c) PROVE IInv'
<1>1. PICK d \in Devices(call[c].want.node) :
          FirstFound(call[c].want, d)
          /\ call' = [call EXCEPT ![c].step = "write", ![c].device = d]
  BY DEF Lookup
<1> DEFINE r == [call[c] EXCEPT !.step = "write", !.device = d]
<1>2. call[c] \in CallState /\ Fine(call[c]) /\ call[c].step = "lookup" /\ "write" \in Steps
  BY Names DEF IInv, TypeOK, Lookup
<1>3. call[c].tool \in TargetTools /\ call[c].want \in Wanted /\ call[c].answer = "none"
  BY <1>2 DEF Fine
<1>4. /\ [want |-> call[c].want, device |-> d] \in Entry
      /\ Described([want |-> call[c].want, device |-> d])
  BY <1>1, <1>3, FoundDescribed
<1>5. d \in Device
  BY <1>4 DEF Entry
<1>6. r \in CallState
  BY <1>2, <1>5 DEF CallState
<1>7. call' = [call EXCEPT ![c] = r] /\ UNCHANGED <<mappingVars, rules, storageVars>>
  BY <1>1 DEF Lookup
<1>8. /\ r.tool = call[c].tool /\ r.name = call[c].name /\ r.step = "write"
      /\ r.read = call[c].read /\ r.seen = call[c].seen /\ r.answer = "none"
      /\ r.want = call[c].want /\ r.gone = call[c].gone /\ r.shifted = call[c].shifted
      /\ r.rule = call[c].rule /\ r.device = d
  BY <1>2, <1>3 DEF CallState
<1> HIDE DEF r
<1>9. Fine(r)
  BY <1>2, <1>3, <1>4, <1>8 DEF Fine, MappingTools, TargetTools, StorageTools
<1>10. UpToDate(call[c], mapping, edits)
  BY DEF IInv
<1>11. /\ UpToDate(r, mapping, edits) /\ InPlace(r, rules)
       /\ \A s : Adder(r, s) <=> Adder(call[c], s)
  BY <1>2, <1>3, <1>8, <1>10 DEF UpToDate, InPlace, Adder, TargetTools
<1>12. QED
  BY <1>6, <1>7, <1>9, <1>11, CallKeeps

LEMMA GetRulesKeeps == ASSUME IInv, NEW c \in Call, GetRules(c) PROVE IInv'
<1>1. PICK i \in DOMAIN rules :
          call' = [call EXCEPT ![c].step = "write", ![c].pos = i, ![c].rule = rules[i]]
  BY DEF GetRules
<1> DEFINE r == [call[c] EXCEPT !.step = "write", !.pos = i, !.rule = rules[i]]
<1>2. /\ call[c] \in CallState /\ Fine(call[c]) /\ call[c].step = "read"
      /\ call[c].tool = "delete_firewall_rule" /\ "write" \in Steps
  BY Names DEF IInv, TypeOK, GetRules, At
<1>3. i \in Nat /\ rules[i] \in Rules
  BY <1>1, LenProperties, ElementOfSeq DEF IInv, TypeOK
<1>4. call[c].answer = "none"
  BY <1>2 DEF Fine
<1>5. r \in CallState
  BY <1>2, <1>3 DEF CallState
<1>6. call' = [call EXCEPT ![c] = r] /\ UNCHANGED <<mappingVars, rules, storageVars>>
  BY <1>1 DEF GetRules
<1>7. /\ r.tool = "delete_firewall_rule" /\ r.name = call[c].name /\ r.step = "write"
      /\ r.read = call[c].read /\ r.answer = "none" /\ r.gone = call[c].gone
      /\ r.shifted = call[c].shifted /\ r.pos = i /\ r.rule = rules[i]
  BY <1>2, <1>4 DEF CallState
<1> HIDE DEF r
<1>8. call[c].gone = NoRule
  BY <1>2 DEF Fine
<1>9. Fine(r)
  BY <1>2, <1>7, <1>8 DEF Fine, MappingTools, TargetTools, StorageTools
<1>10. /\ UpToDate(r, mapping, edits) /\ InPlace(r, rules)
       /\ \A s : Adder(r, s) <=> Adder(call[c], s)
  BY <1>1, <1>2, <1>7 DEF UpToDate, InPlace, Adder
<1>11. QED
  BY <1>5, <1>6, <1>9, <1>10, CallKeeps

LEMMA CheckStorageKeeps == ASSUME IInv, NEW c \in Call, CheckStorage(c) PROVE IInv'
<1> DEFINE r == [call[c] EXCEPT !.step = "write"]
<1>1. /\ call[c] \in CallState /\ Fine(call[c]) /\ call[c].step = "read"
      /\ call[c].tool = "add_storage" /\ "write" \in Steps
  BY Names DEF IInv, TypeOK, CheckStorage, At
<1>2. call[c].answer = "none"
  BY <1>1 DEF Fine
<1>3. r \in CallState
  BY <1>1 DEF CallState
<1>4. call' = [call EXCEPT ![c] = r] /\ UNCHANGED <<mappingVars, rules, storageVars>>
  BY DEF CheckStorage
<1>5. /\ r.tool = "add_storage" /\ r.name = call[c].name /\ r.step = "write"
      /\ r.read = call[c].read /\ r.answer = "none" /\ r.gone = call[c].gone
      /\ r.shifted = call[c].shifted /\ r.rule = call[c].rule
  BY <1>1, <1>2 DEF CallState
<1> HIDE DEF r
<1>6. Fine(r)
  BY <1>1, <1>5 DEF Fine, MappingTools, TargetTools, StorageTools
<1>7. /\ UpToDate(r, mapping, edits) /\ InPlace(r, rules)
      /\ \A s : Adder(r, s) <=> Adder(call[c], s)
  BY <1>1, <1>2, <1>5 DEF UpToDate, InPlace, Adder
<1>8. QED
  BY <1>3, <1>4, <1>6, <1>7, CallKeeps

----------------------------------------------------------------------------
\* The steps that write a mapping

\* A written map describes its devices, and every call that holds an older one is
\* out of date from now on.
LEMMA WriteMapKeeps ==
    ASSUME IInv, NEW c \in Call, call[c].tool \in MappingTools, call[c].step = "write",
           NEW map \in Seq(Entry) \union {NoMapping}, WriteMap(c, map), Finish(c),
           UNCHANGED <<rules, storageVars>>,
           asked' \in [Mapping -> SUBSET Entry], stale' \subseteq Mapping,
           OnlyStaleWritesLose',
           map # NoMapping => \A e \in Entries(map) : Described(e)
    PROVE  IInv'
<1>1. PICK a \in {"success", "error"} : call' = [call EXCEPT ![c] = Answered(c, a)]
  BY DEF Finish
<1> DEFINE r == Answered(c, a)
           m == call[c].name
<1>2. /\ r \in CallState /\ Fine(r) /\ UpToDate(r, mapping', edits') /\ InPlace(r, rules)
      /\ \A s : Adder(r, s) => call[c].tool = "add_storage"
  BY AnsweredFine
<1> HIDE DEF r
<1>3. /\ call' \in [Call -> CallState] /\ call'[c] = r
      /\ \A d \in Call \ {c} : call'[d] = call[d]
  BY <1>1, <1>2 DEF IInv, TypeOK, r
<1>4. call[c].tool # "add_storage" /\ m \in Mapping
  BY DEF IInv, Fine, MappingTools
<1>5. /\ mapping' = [mapping EXCEPT ![m] = map] /\ edits' = [edits EXCEPT ![m] = @ + 1]
      /\ UNCHANGED <<rules, storages, removals>>
  BY DEF WriteMap, storageVars
<1> HIDE DEF m
<1>6. TypeOK'
  <2>1. mapping' \in [Mapping -> Seq(Entry) \union {NoMapping}]
    BY <1>4, <1>5 DEF IInv, TypeOK
  <2>2. edits' \in [Mapping -> Nat]
    BY <1>4, <1>5 DEF IInv, TypeOK
  <2>3. QED
    BY <2>1, <2>2, <1>3, <1>5 DEF IInv, TypeOK
<1>7. \A n \in Mapping : mapping'[n] # NoMapping => \A e \in Entries(mapping'[n]) : Described(e)
  <2> SUFFICES ASSUME NEW n \in Mapping, mapping'[n] # NoMapping
               PROVE  \A e \in Entries(mapping'[n]) : Described(e)
    OBVIOUS
  <2>1. mapping'[n] = IF n = m THEN map ELSE mapping[n]
    BY <1>4, <1>5 DEF IInv, TypeOK
  <2>2. QED
    BY <2>1 DEF IInv
<1>8. AddedNow'
  <2>1. \A s : ~Adder(r, s) /\ ~Adder(call[c], s)
    BY <1>2, <1>4 DEF Adder
  <2>2. \A s : { d \in Call : Adder(call'[d], s) } = { d \in Call : Adder(call[d], s) }
    BY <1>3, <2>1
  <2>3. \A s : Adders(s)' = Adders(s)
    BY <2>2, AddersDef DEF Adders, Adder
  <2>4. QED
    BY <2>3, <1>5 DEF IInv, AddedNow
<1>9. \A d \in Call : Fine(call'[d])
  BY <1>2, <1>3 DEF IInv
<1>10. \A d \in Call : UpToDate(call'[d], mapping', edits')
  <2> SUFFICES ASSUME NEW d \in Call \ {c}, call[d].tool = "add_pci_mapping_target",
                      call[d].step \in { "lookup", "write" }
               PROVE  /\ call[d].seen <= edits'[call[d].name]
                      /\ call[d].seen = edits'[call[d].name]
                         => mapping'[call[d].name] = call[d].read
    BY <1>2, <1>3 DEF UpToDate
  <2>1. call[d] \in CallState /\ Fine(call[d]) /\ UpToDate(call[d], mapping, edits)
    BY DEF IInv, TypeOK
  <2>2. call[d].seen \in Nat /\ call[d].name \in Mapping
    BY <2>1 DEF CallState, Fine, MappingTools
  <2>3. /\ call[d].seen <= edits[call[d].name]
        /\ call[d].seen = edits[call[d].name] => mapping[call[d].name] = call[d].read
    BY <2>1 DEF UpToDate
  <2>4. CASE call[d].name = m
    <3>1. edits'[call[d].name] = edits[call[d].name] + 1 /\ edits[call[d].name] \in Nat
      BY <2>2, <2>4, <1>4, <1>5 DEF IInv, TypeOK
    <3>2. QED
      BY <2>2, <2>3, <3>1
  <2>5. CASE call[d].name # m
    <3>1. /\ edits'[call[d].name] = edits[call[d].name]
          /\ mapping'[call[d].name] = mapping[call[d].name]
      BY <2>2, <2>5, <1>4, <1>5 DEF IInv, TypeOK
    <3>2. QED
      BY <2>3, <3>1
  <2>6. QED
    BY <2>4, <2>5
<1>11. \A d \in Call : InPlace(call'[d], rules')
  BY <1>2, <1>3, <1>5 DEF IInv
<1>12. Defaults \subseteq storages'
  BY <1>5 DEF IInv
<1>13. QED
  BY <1>6, <1>7, <1>8, <1>9, <1>10, <1>11, <1>12 DEF IInv

\* The entry that a call writes.
LEMMA EntryWritten ==
    ASSUME IInv, NEW c \in Call, call[c].tool \in TargetTools, call[c].step = "write"
    PROVE  /\ call[c].tool \in MappingTools /\ call[c].name \in Mapping
           /\ MapEntry(c) \in Entry /\ Described(MapEntry(c))
<1>1. Fine(call[c]) /\ call[c].tool \in MappingTools
  BY Names DEF IInv
<1>2. QED
  BY <1>1 DEF Fine, MapEntry

LEMMA PostMappingKeeps == ASSUME IInv, NEW c \in Call, PostMapping(c) PROVE IInv'
<1> DEFINE e == MapEntry(c)
           m == call[c].name
<1>1. call[c].tool \in TargetTools /\ call[c].step = "write"
  BY Names DEF PostMapping, At
<1>2. call[c].tool \in MappingTools /\ m \in Mapping /\ e \in Entry /\ Described(e)
  BY <1>1, EntryWritten
<1>3. /\ WriteMap(c, <<e>>) /\ Finish(c) /\ UNCHANGED <<rules, storageVars>>
      /\ mapping' = [mapping EXCEPT ![m] = <<e>>]
      /\ asked' = [asked EXCEPT ![m] = {e}] /\ stale' = stale \ {m}
  BY DEF PostMapping, WriteMap
<1> HIDE DEF e, m
<1>4. <<e>> \in Seq(Entry) /\ Entries(<<e>>) = {e}
  BY <1>2 DEF Entries
<1>5. asked' \in [Mapping -> SUBSET Entry] /\ stale' \subseteq Mapping
  BY <1>2, <1>3 DEF IInv, TypeOK
<1>6. OnlyStaleWritesLose'
  <2> SUFFICES ASSUME NEW n \in Mapping, mapping'[n] # NoMapping, n \notin stale'
               PROVE  Entries(mapping'[n]) = asked'[n]
    BY DEF OnlyStaleWritesLose
  <2>1. CASE n = m
    BY <2>1, <1>2, <1>3, <1>4 DEF IInv, TypeOK
  <2>2. CASE n # m
    <3>1. mapping'[n] = mapping[n] /\ asked'[n] = asked[n] /\ n \notin stale
      BY <2>2, <1>3 DEF IInv, TypeOK
    <3>2. QED
      BY <3>1 DEF IInv, OnlyStaleWritesLose
  <2>3. QED
    BY <2>1, <2>2
<1>7. QED
  BY <1>1, <1>2, <1>3, <1>4, <1>5, <1>6, WriteMapKeeps

\* Appending a target adds it to the entries and leaves the others.
LEMMA AppendEntry ==
    ASSUME NEW s \in Seq(Entry), NEW e \in Entry
    PROVE  Append(s, e) \in Seq(Entry) /\ Entries(Append(s, e)) = Entries(s) \union {e}
<1>1. /\ Append(s, e) \in Seq(Entry) /\ Len(Append(s, e)) = Len(s) + 1
      /\ \A i \in 1..Len(s) : Append(s, e)[i] = s[i]
      /\ Append(s, e)[Len(s) + 1] = e
  OBVIOUS
<1>2. /\ DOMAIN s = 1..Len(s) /\ Len(s) \in Nat
      /\ DOMAIN Append(s, e) = 1..(Len(s) + 1)
  BY <1>1, LenProperties
<1>3. \A x : x \in Entries(Append(s, e)) <=> x \in Entries(s) \union {e}
  <2> SUFFICES ASSUME NEW x
               PROVE  x \in Entries(Append(s, e)) <=> x \in Entries(s) \union {e}
    OBVIOUS
  <2>1. ASSUME x \in Entries(Append(s, e)) PROVE x \in Entries(s) \union {e}
    <3>1. PICK i \in 1..(Len(s) + 1) : x = Append(s, e)[i]
      BY <2>1, <1>2 DEF Entries
    <3>2. CASE i = Len(s) + 1
      BY <3>1, <3>2, <1>1
    <3>3. CASE i # Len(s) + 1
      <4>1. i \in 1..Len(s)
        BY <3>1, <3>3, <1>2
      <4>2. QED
        BY <4>1, <3>1, <1>1, <1>2 DEF Entries
    <3>4. QED
      BY <3>2, <3>3
  <2>2. ASSUME x \in Entries(s) \union {e} PROVE x \in Entries(Append(s, e))
    <3>1. CASE x = e
      <4>1. Len(s) + 1 \in DOMAIN Append(s, e)
        BY <1>2
      <4>2. QED
        BY <4>1, <3>1, <1>1 DEF Entries
    <3>2. CASE x \in Entries(s)
      <4>1. PICK i \in 1..Len(s) : x = s[i]
        BY <3>2, <1>2 DEF Entries
      <4>2. i \in DOMAIN Append(s, e) /\ x = Append(s, e)[i]
        BY <4>1, <1>1, <1>2
      <4>3. QED
        BY <4>2 DEF Entries
    <3>3. QED
      BY <3>1, <3>2, <2>2
  <2>3. QED
    BY <2>1, <2>2
<1>4. QED
  BY <1>1, <1>3

LEMMA PutMappingKeeps == ASSUME IInv, NEW c \in Call, PutMapping(c) PROVE IInv'
<1> DEFINE e == MapEntry(c)
           m == call[c].name
           old == call[c].read
<1>1. /\ call[c].tool \in TargetTools /\ call[c].step = "write"
      /\ call[c].tool = "add_pci_mapping_target"
  BY Names DEF PutMapping, At
<1>2. call[c].tool \in MappingTools /\ m \in Mapping /\ e \in Entry /\ Described(e)
  BY <1>1, EntryWritten
<1>3. /\ WriteMap(c, Append(old, e)) /\ Finish(c) /\ UNCHANGED <<rules, storageVars>>
      /\ mapping[m] # NoMapping
      /\ mapping' = [mapping EXCEPT ![m] = Append(old, e)]
      /\ asked' = [asked EXCEPT ![m] = @ \union {e}]
      /\ stale' = IF edits[m] = call[c].seen THEN stale ELSE stale \union {m}
  BY DEF PutMapping, WriteMap, NewMap
<1>4. /\ call[c] \in CallState /\ Fine(call[c]) /\ UpToDate(call[c], mapping, edits)
  BY DEF IInv, TypeOK
<1>5. /\ old \in Seq(Entry) /\ (\A x \in Entries(old) : Described(x))
      /\ call[c].seen = edits[m] => mapping[m] = old
  BY <1>1, <1>4 DEF CallState, Fine, UpToDate
<1> HIDE DEF e, m, old
<1>6. /\ Append(old, e) \in Seq(Entry) /\ Entries(Append(old, e)) = Entries(old) \union {e}
  BY <1>2, <1>5, AppendEntry
<1>7. asked' \in [Mapping -> SUBSET Entry] /\ stale' \subseteq Mapping
  BY <1>2, <1>3 DEF IInv, TypeOK
<1>8. OnlyStaleWritesLose'
  <2> SUFFICES ASSUME NEW n \in Mapping, mapping'[n] # NoMapping, n \notin stale'
               PROVE  Entries(mapping'[n]) = asked'[n]
    BY DEF OnlyStaleWritesLose
  <2>1. CASE n = m
    <3>1. edits[m] = call[c].seen /\ m \notin stale
      BY <2>1, <1>3
    <3>2. Entries(old) = asked[m]
      BY <3>1, <1>2, <1>3, <1>5 DEF IInv, OnlyStaleWritesLose
    <3>3. mapping'[n] = Append(old, e) /\ asked'[n] = asked[m] \union {e}
      BY <2>1, <1>2, <1>3 DEF IInv, TypeOK
    <3>4. QED
      BY <3>2, <3>3, <1>6
  <2>2. CASE n # m
    <3>1. mapping'[n] = mapping[n] /\ asked'[n] = asked[n] /\ n \notin stale
      BY <2>2, <1>3 DEF IInv, TypeOK
    <3>2. QED
      BY <3>1 DEF IInv, OnlyStaleWritesLose
  <2>3. QED
    BY <2>1, <2>2
<1>9. \A x \in Entries(Append(old, e)) : Described(x)
  BY <1>2, <1>5, <1>6
<1>10. QED
  BY <1>1, <1>2, <1>3, <1>6, <1>7, <1>8, <1>9, WriteMapKeeps

LEMMA DropMappingKeeps == ASSUME IInv, NEW c \in Call, DropMapping(c) PROVE IInv'
<1> DEFINE m == call[c].name
<1>1. call[c].tool \in MappingTools /\ call[c].step = "write"
  BY Names DEF DropMapping, At
<1>2. m \in Mapping
  BY <1>1 DEF IInv, Fine
<1>3. /\ WriteMap(c, NoMapping) /\ Finish(c) /\ UNCHANGED <<asked, stale, rules, storageVars>>
      /\ mapping' = [mapping EXCEPT ![m] = NoMapping]
  BY DEF DropMapping, WriteMap
<1> HIDE DEF m
<1>4. asked' \in [Mapping -> SUBSET Entry] /\ stale' \subseteq Mapping
  BY <1>3 DEF IInv, TypeOK
<1>5. OnlyStaleWritesLose'
  <2> SUFFICES ASSUME NEW n \in Mapping, mapping'[n] # NoMapping, n \notin stale'
               PROVE  Entries(mapping'[n]) = asked'[n]
    BY DEF OnlyStaleWritesLose
  <2>1. n # m /\ mapping'[n] = mapping[n] /\ asked'[n] = asked[n] /\ n \notin stale
    BY <1>2, <1>3 DEF IInv, TypeOK
  <2>2. QED
    BY <2>1 DEF IInv, OnlyStaleWritesLose
<1>6. QED
  BY <1>1, <1>3, <1>4, <1>5, WriteMapKeeps

----------------------------------------------------------------------------
\* The steps that edit the rules

LEMMA ShiftedTyped ==
    ASSUME NEW x \in CallState, NEW b \in BOOLEAN
    PROVE  [x EXCEPT !.shifted = b] \in CallState
BY DEF CallState

\* An edit of the rules at position p, by a call that answers with record r: the
\* calls that hold a position at or after p count as shifted.
LEMMA EditKeeps ==
    ASSUME IInv, NEW c \in Call, NEW r \in CallState, NEW p \in Int,
           call' = Shift([call EXCEPT ![c] = r], p),
           UNCHANGED <<mappingVars, storageVars>>, rules' \in Seq(Rules),
           \A i \in DOMAIN rules : i < p => i \in DOMAIN rules' /\ rules'[i] = rules[i],
           Fine(r), r.step = "done", \A s : ~Adder(r, s) /\ ~Adder(call[c], s)
    PROVE  IInv'
<1> DEFINE Moved(x) == [x EXCEPT !.shifted = @ \/ (x.step = "write" /\ p <= x.pos)]
<1>1. \A x \in CallState :
          /\ Moved(x) \in CallState
          /\ Fine(x) => Fine(Moved(x))
          /\ UpToDate(x, mapping, edits) => UpToDate(Moved(x), mapping, edits)
          /\ \A s : Adder(Moved(x), s) <=> Adder(x, s)
  <2> TAKE x \in CallState
  <2>1. Moved(x) \in CallState
    <3>1. PICK b \in BOOLEAN : b = (x.shifted \/ (x.step = "write" /\ p <= x.pos))
      OBVIOUS
    <3>2. Moved(x) = [x EXCEPT !.shifted = b]
      BY <3>1, Zenon
    <3>3. QED
      BY <3>2, ShiftedTyped
  <2>2. /\ Moved(x).tool = x.tool /\ Moved(x).step = x.step /\ Moved(x).name = x.name
        /\ Moved(x).want = x.want /\ Moved(x).device = x.device /\ Moved(x).read = x.read
        /\ Moved(x).seen = x.seen /\ Moved(x).rule = x.rule /\ Moved(x).gone = x.gone
        /\ Moved(x).answer = x.answer /\ (x.shifted => Moved(x).shifted)
    BY DEF CallState
  <2> HIDE DEF Moved
  <2>3. QED
    BY <2>1, <2>2 DEF Fine, UpToDate, Adder
<1>2. /\ call' \in [Call -> CallState]
      /\ call'[c] = Moved(r)
      /\ \A d \in Call \ {c} : call'[d] = Moved(call[d])
  <2>1. [call EXCEPT ![c] = r] \in [Call -> CallState]
    BY DEF IInv, TypeOK
  <2>2. \A d \in Call : call'[d] = Moved([call EXCEPT ![c] = r][d])
    BY DEF Shift
  <2>3. DOMAIN call' = Call /\ call' = [d \in Call |-> call'[d]]
    BY DEF Shift
  <2>4. \A d \in Call : [call EXCEPT ![c] = r][d] = IF d = c THEN r ELSE call[d]
    BY DEF IInv, TypeOK
  <2> HIDE DEF Moved
  <2>5. call'[c] = Moved(r) /\ \A d \in Call \ {c} : call'[d] = Moved(call[d])
    BY <2>2, <2>4
  <2>6. \A d \in Call : call'[d] \in CallState
    BY <1>1, <2>1, <2>2
  <2>7. QED
    BY <2>3, <2>5, <2>6
<1>3. \A d \in Call : InPlace(call'[d], rules')
  <2>1. InPlace(call'[c], rules')
    <3>1. Moved(r).step = "done"
      BY DEF CallState
    <3>2. QED
      BY <3>1, <1>2 DEF InPlace
  <2>2. ASSUME NEW d \in Call \ {c} PROVE InPlace(call'[d], rules')
    <3>1. call[d] \in CallState /\ InPlace(call[d], rules)
      BY DEF IInv, TypeOK
    <3>2. /\ Moved(call[d]).tool = call[d].tool /\ Moved(call[d]).step = call[d].step
          /\ Moved(call[d]).pos = call[d].pos /\ Moved(call[d]).rule = call[d].rule
          /\ Moved(call[d]).shifted
             = (call[d].shifted \/ (call[d].step = "write" /\ p <= call[d].pos))
      BY <3>1 DEF CallState
    <3>3. call[d].pos \in Nat
      BY <3>1 DEF CallState
    <3> HIDE DEF Moved
    <3>4. SUFFICES ASSUME call[d].tool = "delete_firewall_rule", call[d].step = "write",
                          ~Moved(call[d]).shifted
                   PROVE  /\ call[d].pos \in DOMAIN rules'
                          /\ rules'[call[d].pos] = call[d].rule
      BY <1>2, <3>2 DEF InPlace
    <3>5. ~call[d].shifted /\ call[d].pos < p
      <4>1. ~(call[d].shifted \/ (call[d].step = "write" /\ p <= call[d].pos))
        BY <3>2, <3>4, Zenon
      <4>2. ~call[d].shifted /\ ~(p <= call[d].pos)
        BY <4>1, <3>4, Zenon
      <4>3. QED
        BY <4>2, <3>3
    <3>6. call[d].pos \in DOMAIN rules /\ rules[call[d].pos] = call[d].rule
      BY <3>1, <3>4, <3>5 DEF InPlace
    <3>7. QED
      BY <3>5, <3>6
  <2>3. QED
    BY <2>1, <2>2
<1> HIDE DEF Moved
<1>4. UNCHANGED <<mapping, edits, asked, stale, storages, removals>>
  BY DEF mappingVars, storageVars
<1>5. TypeOK'
  BY <1>2, <1>4 DEF IInv, TypeOK
<1>6. OnlyStaleWritesLose'
  BY <1>4 DEF IInv, OnlyStaleWritesLose
<1>7. \A m \in Mapping : mapping'[m] # NoMapping => \A e \in Entries(mapping'[m]) : Described(e)
  BY <1>4 DEF IInv
<1>8. \A d \in Call : call[d] \in CallState /\ Fine(call[d]) /\ UpToDate(call[d], mapping, edits)
  BY DEF IInv, TypeOK
<1>9. AddedNow'
  <2>1. \A d \in Call : \A s : Adder(call'[d], s) <=> Adder(call[d], s)
    BY <1>1, <1>2, <1>8
  <2>2. \A s : { d \in Call : Adder(call'[d], s) } = { d \in Call : Adder(call[d], s) }
    BY <2>1
  <2>3. \A s : Adders(s)' = Adders(s)
    BY <2>2, AddersDef DEF Adders, Adder
  <2>4. QED
    BY <2>3, <1>4 DEF IInv, AddedNow
<1>10. \A d \in Call : Fine(call'[d])
  BY <1>1, <1>2, <1>8
<1>11. \A d \in Call : UpToDate(call'[d], mapping', edits')
  <2>1. UpToDate(r, mapping, edits)
    BY DEF UpToDate
  <2>2. QED
    BY <1>1, <1>2, <1>4, <1>8, <2>1
<1>12. Defaults \subseteq storages'
  BY <1>4 DEF IInv
<1>13. QED
  BY <1>3, <1>5, <1>6, <1>7, <1>9, <1>10, <1>11, <1>12 DEF IInv

LEMMA PostRuleKeeps == ASSUME IInv, NEW c \in Call, PostRule(c) PROVE IInv'
<1> DEFINE n == Len(rules)
           list(p) == [i \in 1..(n + 1) |-> IF i < p THEN rules[i] ELSE IF i = p THEN call[c].rule
                                            ELSE rules[i - 1]]
<1>1. PICK p \in 1..(n + 1), a \in {"success", "error"} :
          /\ rules' = list(p)
          /\ call' = Shift([call EXCEPT ![c] = Answered(c, a)], p)
  BY DEF PostRule
<1>2. /\ call[c].tool = "create_firewall_rule" /\ UNCHANGED <<mappingVars, storageVars>>
      /\ Fine(call[c]) /\ call[c] \in CallState
  BY DEF PostRule, At, IInv, TypeOK
<1>3. call[c].rule \in Rules
  BY <1>2 DEF Fine
<1>4. n \in Nat /\ DOMAIN rules = 1..n /\ \A i \in 1..n : rules[i] \in Rules
  BY LenProperties, ElementOfSeq DEF IInv, TypeOK
<1> HIDE DEF n
<1>5. list(p) \in [1..(n + 1) -> Rules]
  <2> SUFFICES ASSUME NEW i \in 1..(n + 1) PROVE list(p)[i] \in Rules
    OBVIOUS
  <2>1. CASE i < p
    BY <2>1, <1>4
  <2>2. CASE i = p
    BY <2>2, <1>3
  <2>3. CASE i > p
    <3>1. i - 1 \in 1..n
      BY <2>3, <1>4
    <3>2. QED
      BY <2>3, <3>1, <1>4
  <2>4. QED
    BY <2>1, <2>2, <2>3, <1>4
<1>6. list(p) \in Seq(Rules)
  BY <1>4, <1>5, SeqDef
<1>7. \A i \in DOMAIN rules : i < p => i \in DOMAIN list(p) /\ list(p)[i] = rules[i]
  BY <1>4
<1>8. /\ Answered(c, a) \in CallState /\ Fine(Answered(c, a)) /\ Answered(c, a).step = "done"
      /\ \A s : ~Adder(Answered(c, a), s) /\ ~Adder(call[c], s)
  BY <1>2, AnsweredFine, ZenonT(60) DEF Answered, Adder, CallState
<1> HIDE DEF list
<1>9. QED
  BY <1>1, <1>2, <1>4, <1>6, <1>7, <1>8, EditKeeps

LEMMA DropRuleKeeps == ASSUME IInv, NEW c \in Call, DropRule(c) PROVE IInv'
<1> DEFINE n == Len(rules)
           q == call[c].pos
           list == [i \in 1..(n - 1) |-> IF i < q THEN rules[i] ELSE rules[i + 1]]
<1>1. /\ call[c].tool = "delete_firewall_rule" /\ call[c].step = "write"
      /\ q \in DOMAIN rules /\ rules' = list /\ UNCHANGED <<mappingVars, storageVars>>
  BY DEF DropRule, At
<1>2. PICK a \in {"success", "error"} :
          call' = Shift([call EXCEPT ![c] = [Answered(c, a) EXCEPT !.gone = rules[q]]], q)
  BY DEF DropRule
<1>3. Fine(call[c]) /\ call[c] \in CallState /\ InPlace(call[c], rules)
  BY DEF IInv, TypeOK
<1>4. n \in Nat /\ DOMAIN rules = 1..n /\ \A i \in 1..n : rules[i] \in Rules
  BY LenProperties, ElementOfSeq DEF IInv, TypeOK
<1> HIDE DEF n, q
<1>5. q \in 1..n
  BY <1>1, <1>4
<1>6. list \in [1..(n - 1) -> Rules]
  <2> SUFFICES ASSUME NEW i \in 1..(n - 1) PROVE list[i] \in Rules
    OBVIOUS
  <2>1. i \in 1..n /\ i + 1 \in 1..n
    BY <1>4
  <2>2. QED
    BY <2>1, <1>4
<1>7. list \in Seq(Rules)
  BY <1>4, <1>5, <1>6, SeqDef
<1>8. \A i \in DOMAIN rules : i < q => i \in DOMAIN list /\ list[i] = rules[i]
  BY <1>4, <1>5
<1> DEFINE r == [Answered(c, a) EXCEPT !.gone = rules[q]]
<1>9. Answered(c, a) \in CallState /\ Fine(Answered(c, a)) /\ rules[q] \in Rules
  BY AnsweredFine, <1>4, <1>5
<1>10. r \in CallState
  BY <1>9 DEF CallState
<1>11. /\ r.tool = call[c].tool /\ r.step = "done" /\ r.name = call[c].name
       /\ r.read = call[c].read /\ r.rule = call[c].rule /\ r.shifted = call[c].shifted
       /\ r.gone = rules[q]
  BY <1>3 DEF Answered, CallState
<1> HIDE DEF r, list
<1>12. ~call[c].shifted => rules[q] = call[c].rule
  BY <1>1, <1>3 DEF InPlace, q
<1>13. Fine(r)
  BY <1>1, <1>3, <1>11, <1>12 DEF Fine, MappingTools, TargetTools, StorageTools
<1>14. \A s : ~Adder(r, s) /\ ~Adder(call[c], s)
  BY <1>1, <1>11 DEF Adder
<1>15. q \in Int /\ call' = Shift([call EXCEPT ![c] = r], q)
  BY <1>2, <1>4, <1>5 DEF r
<1>16. QED
  BY <1>1, <1>7, <1>8, <1>10, <1>11, <1>13, <1>14, <1>15, EditKeeps

----------------------------------------------------------------------------
\* The steps that add and remove storages

LEMMA AddersFinite == \A s : IsFiniteSet(Adders(s)) /\ Cardinality(Adders(s)) \in Nat
<1> SUFFICES ASSUME NEW s PROVE IsFiniteSet(Adders(s)) /\ Cardinality(Adders(s)) \in Nat
  OBVIOUS
<1>1. Adders(s) \in SUBSET Call
  BY DEF Adders
<1>2. IsFiniteSet(Adders(s))
  BY <1>1, CallAssumption, FS_Subset
<1>3. QED
  BY <1>2, FS_CardinalityType

\* A step that answers one call and changes the storages and removals only: what is
\* left to be shown is the count of adders.
LEMMA StorageKeeps ==
    ASSUME IInv, NEW c \in Call, NEW a \in {"success", "error"},
           call' = [call EXCEPT ![c] = Answered(c, a)],
           UNCHANGED <<mappingVars, rules>>,
           storages' \subseteq Storage, removals' \in [Storage -> Nat],
           Defaults \subseteq storages', AddedNow'
    PROVE  IInv'
<1> DEFINE r == Answered(c, a)
<1>1. /\ r \in CallState /\ Fine(r) /\ UpToDate(r, mapping, edits) /\ InPlace(r, rules)
  BY AnsweredFine
<1> HIDE DEF r
<1>2. /\ call' \in [Call -> CallState] /\ call'[c] = r
      /\ \A d \in Call \ {c} : call'[d] = call[d]
  BY <1>1 DEF IInv, TypeOK, r
<1>3. UNCHANGED <<mapping, edits, asked, stale, rules>>
  BY DEF mappingVars
<1>4. TypeOK'
  BY <1>2, <1>3 DEF IInv, TypeOK
<1>5. OnlyStaleWritesLose'
  BY <1>3 DEF IInv, OnlyStaleWritesLose
<1>6. \A m \in Mapping : mapping'[m] # NoMapping => \A e \in Entries(mapping'[m]) : Described(e)
  BY <1>3 DEF IInv
<1>7. \A d \in Call : Fine(call'[d])
  BY <1>1, <1>2 DEF IInv
<1>8. \A d \in Call : UpToDate(call'[d], mapping', edits')
  BY <1>1, <1>2, <1>3 DEF IInv
<1>9. \A d \in Call : InPlace(call'[d], rules')
  BY <1>1, <1>2, <1>3 DEF IInv
<1>10. QED
  BY <1>4, <1>5, <1>6, <1>7, <1>8, <1>9 DEF IInv

LEMMA PostStorageKeeps == ASSUME IInv, NEW c \in Call, PostStorage(c) PROVE IInv'
<1> DEFINE n == call[c].name
<1>1. PICK a \in {"success", "error"} : call' = [call EXCEPT ![c] = Answered(c, a)]
  BY DEF PostStorage, Finish
<1>2. /\ n \notin storages /\ storages' = storages \union {n} /\ call[c].tool = "add_storage"
      /\ call[c].step = "write" /\ UNCHANGED <<mappingVars, rules, removals>>
      /\ Fine(call[c]) /\ call[c] \in CallState
  BY DEF PostStorage, At, IInv, TypeOK
<1>3. n \in Storage /\ call[c].answer = "none"
  BY <1>2 DEF Fine, StorageTools
<1>4. /\ call'[c] = Answered(c, a) /\ (\A d \in Call \ {c} : call'[d] = call[d])
      /\ \A s : Adder(Answered(c, a), s) => n = s
  BY <1>1, AnsweredFine DEF IInv, TypeOK
<1> HIDE DEF n
<1>5. \A s : Adders(s)' = { d \in Call : Adder(call'[d], s) }
  BY DEF Adders, Adder
<1>6. AddedNow'
  <2> SUFFICES ASSUME NEW s \in Storage
               PROVE  Cardinality(Adders(s)') <=
                          IF s \in Defaults THEN 0
                          ELSE removals[s] + (IF s \in storages' THEN 1 ELSE 0)
    BY <1>2 DEF AddedNow
  <2>1. Cardinality(Adders(s)) <= IF s \in Defaults THEN 0
                                  ELSE removals[s] + (IF s \in storages THEN 1 ELSE 0)
    BY DEF IInv, AddedNow
  <2>2. CASE s = n
    <3>1. s \notin Defaults /\ s \notin storages /\ s \in storages' /\ removals[s] \in Nat
      BY <2>2, <1>2, <1>3 DEF IInv, TypeOK
    <3>2. Adders(s)' \subseteq Adders(s) \union {c}
      BY <1>4, <1>5, AddersDef
    <3>3. /\ IsFiniteSet(Adders(s) \union {c}) /\ Cardinality(Adders(s)) \in Nat
          /\ Cardinality(Adders(s) \union {c}) <= Cardinality(Adders(s)) + 1
      <4>1. IsFiniteSet(Adders(s)) /\ Cardinality(Adders(s)) \in Nat
        BY AddersFinite
      <4>2. /\ IsFiniteSet(Adders(s) \union {c})
            /\ Cardinality(Adders(s) \union {c})
               = IF c \in Adders(s) THEN Cardinality(Adders(s)) ELSE Cardinality(Adders(s)) + 1
        BY <4>1, FS_AddElement
      <4>3. QED
        BY <4>1, <4>2
    <3>4. /\ IsFiniteSet(Adders(s)')
          /\ Cardinality(Adders(s)') <= Cardinality(Adders(s) \union {c})
      BY <3>2, <3>3, FS_Subset
    <3>5. Cardinality(Adders(s)') \in Nat /\ Cardinality(Adders(s) \union {c}) \in Nat
      BY <3>3, <3>4, FS_CardinalityType
    <3>6. QED
      BY <2>1, <3>1, <3>3, <3>4, <3>5
  <2>3. CASE s # n
    <3>1. \A d \in Call : Adder(call'[d], s) <=> Adder(call[d], s)
      BY <2>3, <1>3, <1>4 DEF Adder
    <3>2. Adders(s)' = Adders(s)
      BY <3>1, <1>5, AddersDef
    <3>3. s \in storages' <=> s \in storages
      BY <2>3, <1>2
    <3>4. QED
      BY <2>1, <3>2, <3>3
  <2>4. QED
    BY <2>2, <2>3
<1>7. /\ storages' \subseteq Storage /\ removals' \in [Storage -> Nat]
      /\ Defaults \subseteq storages'
  BY <1>2, <1>3 DEF IInv, TypeOK
<1>8. QED
  BY <1>1, <1>2, <1>6, <1>7, StorageKeeps

LEMMA DropStorageKeeps == ASSUME IInv, NEW c \in Call, DropStorage(c) PROVE IInv'
<1> DEFINE n == call[c].name
<1>1. PICK a \in {"success", "error"} : call' = [call EXCEPT ![c] = Answered(c, a)]
  BY DEF DropStorage, Finish
<1>2. /\ n \in storages /\ storages' = storages \ {n} /\ call[c].tool = "remove_storage"
      /\ call[c].step = "write" /\ UNCHANGED <<mappingVars, rules>>
      /\ removals' = [removals EXCEPT ![n] = @ + 1]
      /\ Fine(call[c]) /\ call[c] \in CallState
  BY DEF DropStorage, At, IInv, TypeOK
<1>3. n \in Storage /\ n \notin Defaults
  BY <1>2 DEF Fine, StorageTools
<1>4. /\ call'[c] = Answered(c, a) /\ (\A d \in Call \ {c} : call'[d] = call[d])
      /\ \A s : ~Adder(Answered(c, a), s) /\ ~Adder(call[c], s)
  BY <1>1, <1>2, AnsweredFine DEF IInv, TypeOK, Adder
<1> HIDE DEF n
<1>5. \A s : Adders(s)' = Adders(s)
  <2>1. \A s : { d \in Call : Adder(call'[d], s) } = { d \in Call : Adder(call[d], s) }
    BY <1>4
  <2>2. QED
    BY <2>1, AddersDef DEF Adders, Adder
<1>6. AddedNow'
  <2> SUFFICES ASSUME NEW s \in Storage
               PROVE  Cardinality(Adders(s)) <=
                          IF s \in Defaults THEN 0
                          ELSE removals'[s] + (IF s \in storages' THEN 1 ELSE 0)
    BY <1>5 DEF AddedNow
  <2>1. Cardinality(Adders(s)) <= IF s \in Defaults THEN 0
                                  ELSE removals[s] + (IF s \in storages THEN 1 ELSE 0)
    BY DEF IInv, AddedNow
  <2>2. CASE s = n
    BY <2>1, <2>2, <1>2, <1>3 DEF IInv, TypeOK
  <2>3. CASE s # n
    BY <2>1, <2>3, <1>2 DEF IInv, TypeOK
  <2>4. QED
    BY <2>2, <2>3
<1>7. storages' \subseteq Storage /\ Defaults \subseteq storages'
  BY <1>2, <1>3 DEF IInv, TypeOK
<1>8. removals' \in [Storage -> Nat]
  BY <1>2, <1>3 DEF IInv, TypeOK
<1>9. QED
  BY <1>1, <1>2, <1>6, <1>7, <1>8, StorageKeeps

----------------------------------------------------------------------------

LEMMA InitHolds == Init => IInv
<1> SUFFICES ASSUME Init PROVE IInv
  OBVIOUS
<1>1. NoCall \in CallState /\ Fine(NoCall)
  BY NoCallTyped
<1>2. TypeOK
  BY <1>1, DefaultsAssumption, FirstRulesAssumption DEF Init, TypeOK
<1>3. OnlyStaleWritesLose /\ \A m \in Mapping : mapping[m] = NoMapping
  BY DEF Init, OnlyStaleWritesLose
<1>4. \A c \in Call : call[c] = NoCall
  BY DEF Init
<1>5. /\ \A c \in Call : Fine(call[c])
      /\ \A c \in Call : UpToDate(call[c], mapping, edits)
      /\ \A c \in Call : InPlace(call[c], rules)
  <2>1. NoCall.tool = "none"
    BY DEF NoCall
  <2>2. UpToDate(NoCall, mapping, edits) /\ InPlace(NoCall, rules)
    BY <2>1 DEF UpToDate, InPlace
  <2>3. QED
    BY <1>1, <1>4, <2>2
<1>6. AddedNow
  <2>1. \A s : Adders(s) = {}
    BY <1>4 DEF Adders, NoCall
  <2>2. QED
    BY <2>1, FS_EmptySet DEF AddedNow, Init
<1>7. QED
  BY <1>2, <1>3, <1>5, <1>6 DEF IInv, Init

\* A request that fails or is refused leaves the configuration alone.
LEMMA FailureKeeps ==
    ASSUME IInv, NEW c \in Call, Fails(c), call[c].step # "done"
    PROVE  IInv'
<1>1. Fine(call[c])
  BY DEF IInv
<1>2. call[c].answer = "none"
  BY <1>1 DEF Fine
<1>3. QED
  BY <1>2, FailsKeeps

LEMMA StepKeeps == ASSUME IInv, NEW c \in Call, Step(c) PROVE IInv'
<1>1. CASE \/ GetMissing(c) \/ LookupFails(c) \/ PostExisting(c) \/ PutMissing(c)
           \/ DropNoRule(c) \/ Duplicate(c) \/ PostTaken(c) \/ RequestFails(c)
  <2>1. Fails(c) /\ call[c].step # "done"
    BY <1>1 DEF GetMissing, LookupFails, PostExisting, PutMissing, DropNoRule, Duplicate,
                PostTaken, RequestFails, At
  <2>2. QED
    BY <2>1, FailureKeeps
<1>2. CASE GetMapping(c) \/ Lookup(c) \/ GetRules(c) \/ CheckStorage(c)
  BY <1>2, GetMappingKeeps, LookupKeeps, GetRulesKeeps, CheckStorageKeeps
<1>3. CASE PostMapping(c) \/ PutMapping(c) \/ DropMapping(c)
  BY <1>3, PostMappingKeeps, PutMappingKeeps, DropMappingKeeps
<1>4. CASE PostRule(c) \/ DropRule(c)
  BY <1>4, PostRuleKeeps, DropRuleKeeps
<1>5. CASE PostStorage(c) \/ DropStorage(c)
  BY <1>5, PostStorageKeeps, DropStorageKeeps
<1>6. QED
  BY <1>1, <1>2, <1>3, <1>4, <1>5 DEF Step

LEMMA StutterKeeps == ASSUME IInv, UNCHANGED vars PROVE IInv'
<1>1. UNCHANGED <<mapping, edits, asked, stale, rules, storages, removals, call>>
  BY DEF vars
<1>2. TypeOK' /\ OnlyStaleWritesLose'
  BY <1>1 DEF IInv, TypeOK, OnlyStaleWritesLose
<1>3. AddedNow'
  <2>1. \A s : Adders(s)' = Adders(s)
    BY <1>1 DEF Adders
  <2>2. QED
    BY <2>1, <1>1 DEF IInv, AddedNow
<1>4. QED
  BY <1>1, <1>2, <1>3 DEF IInv

LEMMA NextKeeps == IInv /\ [Next]_vars => IInv'
BY AskedKeeps, StepKeeps, StutterKeeps DEF Next

----------------------------------------------------------------------------

\* The inductive invariant holds in every reachable state.
THEOREM Invariance == Spec => []IInv
BY InitHolds, NextKeeps, PTL DEF Spec

\* Every variable keeps its type.
THEOREM TypeCorrect == Spec => []TypeOK
<1>1. IInv => TypeOK
  BY DEF IInv
<1>2. QED
  BY <1>1, Invariance, PTL

\* Only a write of an outdated map loses or revives targets of a mapping.
THEOREM LossIsStale == Spec => []OnlyStaleWritesLose
<1>1. IInv => OnlyStaleWritesLose
  BY DEF IInv
<1>2. QED
  BY <1>1, Invariance, PTL

\* A mapping's targets describe the devices at their paths, or lookalikes of them
\* that their nodes list first.
THEOREM TargetsAreDescribed == Spec => []EntriesDescribeDevices
<1>1. IInv => EntriesDescribeDevices
  BY DEF IInv, Described, EntriesDescribeDevices
<1>2. QED
  BY <1>1, Invariance, PTL

\* Only an edit at or before its position makes a deletion hit another rule.
THEOREM DeletionsHitWhatWasSeen == Spec => []DeletedAsSeen
<1>1. IInv => DeletedAsSeen
  BY DEF IInv, Fine, DeletedAsSeen
<1>2. QED
  BY <1>1, Invariance, PTL

\* No two calls are told that they registered the same storage.
THEOREM StoragesAreAddedOnce == Spec => []AddedOnce
<1>1. IInv => AddedOnce
  <2> SUFFICES ASSUME IInv, NEW s \in Storage
               PROVE  Cardinality(Adders(s)) <= IF s \in Defaults THEN 0 ELSE removals[s] + 1
    BY DEF AddedOnce
  <2>1. Cardinality(Adders(s)) <= IF s \in Defaults THEN 0
                                  ELSE removals[s] + (IF s \in storages THEN 1 ELSE 0)
    BY DEF IInv, AddedNow
  <2>2. Cardinality(Adders(s)) \in Nat /\ removals[s] \in Nat
    BY AddersFinite DEF IInv, TypeOK
  <2>3. QED
    BY <2>1, <2>2
<1>2. QED
  BY <1>1, Invariance, PTL
=============================================================================
