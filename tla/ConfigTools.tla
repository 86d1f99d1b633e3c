---------------------------- MODULE ConfigTools ----------------------------
(***************************************************************************)
(* The tools that edit the cluster's configuration in more than one        *)
(* request: PCI mappings (tools/pci.py), firewall rules (tools/network.py) *)
(* and storages (tools/storage.py).                                        *)
(*                                                                         *)
(* Each looks before it writes and awaits in between, no request carries a *)
(* digest of what was seen, and nothing keeps two calls apart.  The calls  *)
(* here have passed their gates (ToolTable): they are confirmed, permitted *)
(* and not dry runs.  A request is one step, the cluster's evaluation; one *)
(* that fails changes nothing, and a reply lost to the client's time-out   *)
(* makes an error of a request that was carried out.                       *)
(***************************************************************************)
EXTENDS Integers, Sequences, FiniteSets

CONSTANTS
    Call,        \* the calls of a run, each of one tool
    Mapping,     \* the names of PCI mappings
    Storage,     \* the names of storages
    Defaults,    \* DEFAULT_STORAGE_IDS, registered from the start
    FirstRules,  \* the firewall rules at the start, in order
    Node,
    Listing,     \* for each node its PCI devices, in the order they are listed
    Wanted,      \* the targets callers ask for, [node, path]
    NoMapping, NoTarget, NoDevice, NoRule

\* A PCI address: its domain, and the rest.  Paths leave the domain out or give
\* it four hexadecimal digits; a device's domain may have more.
NoDomain == -1
MaxDomain == 65535
Rules == Call \union { FirstRules[i] : i \in DOMAIN FirstRules }

ASSUME CallAssumption == IsFiniteSet(Call)
ASSUME DefaultsAssumption == Defaults \subseteq Storage
ASSUME FirstRulesAssumption == FirstRules \in Seq(Rules)
ASSUME NoRuleAssumption == NoRule \notin Rules
ASSUME ListingAssumption ==
    \A n \in Node : \A i \in DOMAIN Listing[n] : Listing[n][i].dom \in Nat
ASSUME WantedAssumption ==
    \A w \in Wanted : w.node \in Node /\ w.path.dom \in NoDomain..MaxDomain

VARIABLES
    mapping,   \* /cluster/mapping/pci: the map of each mapping, or NoMapping
    edits,     \* history: how often each mapping was written or deleted
    asked,     \* history: the entries asked for since a mapping was created
    stale,     \* history: the mappings written from an outdated map
    rules,     \* a firewall's rules, in order
    storages,  \* the registered storages
    removals,  \* history: how often each storage was removed
    call       \* what each call is doing and has answered

vars == <<mapping, edits, asked, stale, rules, storages, removals, call>>

\* The devices a node lists.
Devices(n) == { Listing[n][i] : i \in DOMAIN Listing[n] }
Device == UNION { Devices(n) : n \in Node }

\* A target of a mapping: the caller's node and path, and the device found there,
\* which the map entry describes by its vendor and model.
Entry == [want : Wanted, device : Device]

Entries(s) == { s[i] : i \in DOMAIN s }

NoCall == [tool |-> "none", step |-> "idle", name |-> "none", want |-> NoTarget,
           device |-> NoDevice, read |-> <<>>, seen |-> 0,
           pos |-> 0, rule |-> NoRule, shifted |-> FALSE, gone |-> NoRule,
           answer |-> "none"]

Tools == { "create_pci_mapping", "add_pci_mapping_target", "delete_pci_mapping",
           "create_firewall_rule", "delete_firewall_rule",
           "add_storage", "remove_storage" }

Steps == { "idle", "read", "lookup", "write", "done" }
Answers == { "none", "success", "error" }

CallState == [tool : Tools \union {"none"}, step : Steps,
              name : Mapping \union Storage \union {"none"}, want : Wanted \union {NoTarget},
              device : Device \union {NoDevice},
              read : Seq(Entry), seen : Nat,
              pos : Nat, rule : Rules \union {NoRule}, shifted : BOOLEAN,
              gone : Rules \union {NoRule}, answer : Answers]

TypeOK ==
    /\ mapping \in [Mapping -> Seq(Entry) \union {NoMapping}]
    /\ edits \in [Mapping -> Nat]
    /\ asked \in [Mapping -> SUBSET Entry]
    /\ stale \subseteq Mapping
    /\ rules \in Seq(Rules)
    /\ storages \subseteq Storage
    /\ removals \in [Storage -> Nat]
    /\ call \in [Call -> CallState]

Init ==
    /\ mapping = [m \in Mapping |-> NoMapping]
    /\ edits = [m \in Mapping |-> 0]
    /\ asked = [m \in Mapping |-> {}]
    /\ stale = {}
    /\ rules = FirstRules
    /\ storages = Defaults
    /\ removals = [s \in Storage |-> 0]
    /\ call = [c \in Call |-> NoCall]

----------------------------------------------------------------------------

mappingVars == <<mapping, edits, asked, stale>>
storageVars == <<storages, removals>>

\* Call c, of tool t, is at the given step.
At(c, t, step) == call[c].tool = t /\ call[c].step = step

\* A call begins, with r what it was asked.
Start(c, r) ==
    /\ call[c] = NoCall
    /\ call' = [call EXCEPT ![c] = r]
    /\ UNCHANGED <<mappingVars, rules, storageVars>>

Answered(c, a) == [call[c] EXCEPT !.step = "done", !.answer = a]

\* The request is refused, fails, or is not answered: nothing was changed.
Fails(c) ==
    /\ call' = [call EXCEPT ![c] = Answered(c, "error")]
    /\ UNCHANGED <<mappingVars, rules, storageVars>>

\* The request is carried out; its reply may be lost.
Finish(c) == \E a \in {"success", "error"} : call' = [call EXCEPT ![c] = Answered(c, a)]

----------------------------------------------------------------------------
\* PCI mappings

\* The device's name ends with the path as the caller wrote it.
EndsWith(d, path) ==
    d.addr = path.addr /\ (path.dom = NoDomain \/ d.dom % (MaxDomain + 1) = path.dom)

\* The device is the one at the path; a path without a domain is in domain 0.
AtPath(d, path) ==
    d.addr = path.addr /\ d.dom = IF path.dom = NoDomain THEN 0 ELSE path.dom

\* Mutant of Matches: the domain is not compared.
MatchesAddress(d, path) == d.addr = path.addr

\* _lookup_pci_device takes a device that is at the path or whose name ends with it.
Matches(d, path) == AtPath(d, path) \/ EndsWith(d, path)

Found(w) == { i \in DOMAIN Listing[w.node] : Matches(Listing[w.node][i], w.path) }

\* The first device that matches.
FirstFound(w, d) ==
    \E i \in Found(w) : d = Listing[w.node][i] /\ \A j \in Found(w) : i <= j

CreateMapping(c, m, w) ==
    Start(c, [NoCall EXCEPT !.tool = "create_pci_mapping", !.step = "lookup",
                            !.name = m, !.want = w])

AddTarget(c, m, w) ==
    Start(c, [NoCall EXCEPT !.tool = "add_pci_mapping_target", !.step = "read",
                            !.name = m, !.want = w])

DeleteMapping(c, m) ==
    Start(c, [NoCall EXCEPT !.tool = "delete_pci_mapping", !.step = "write", !.name = m])

\* add_pci_mapping_target gets the mapping as it is.
GetMapping(c) ==
    /\ At(c, "add_pci_mapping_target", "read")
    /\ mapping[call[c].name] # NoMapping
    /\ call' = [call EXCEPT ![c].step = "lookup",
                            ![c].read = mapping[call[c].name],
                            ![c].seen = edits[call[c].name]]
    /\ UNCHANGED <<mappingVars, rules, storageVars>>

\* Mutant of GetMissing: the missing mapping is taken for one to extend.
GetMissingTolerated(c) ==
    /\ At(c, "add_pci_mapping_target", "read")
    /\ mapping[call[c].name] = NoMapping
    /\ call' = [call EXCEPT ![c].step = "lookup", ![c].read = mapping[call[c].name]]
    /\ UNCHANGED <<mappingVars, rules, storageVars>>

GetMissing(c) ==
    /\ At(c, "add_pci_mapping_target", "read")
    /\ mapping[call[c].name] = NoMapping
    /\ Fails(c)

Lookup(c) ==
    /\ call[c].step = "lookup"
    /\ \E d \in Devices(call[c].want.node) :
          /\ FirstFound(call[c].want, d)
          /\ call' = [call EXCEPT ![c].step = "write", ![c].device = d]
    /\ UNCHANGED <<mappingVars, rules, storageVars>>

LookupFails(c) ==
    /\ call[c].step = "lookup"
    /\ Found(call[c].want) = {}
    /\ Fails(c)

MapEntry(c) == [want |-> call[c].want, device |-> call[c].device]

\* The mapping is written, by call c.
WriteMap(c, map) ==
    /\ mapping' = [mapping EXCEPT ![call[c].name] = map]
    /\ edits' = [edits EXCEPT ![call[c].name] = @ + 1]

PostMapping(c) ==
    /\ At(c, "create_pci_mapping", "write")
    /\ mapping[call[c].name] = NoMapping
    /\ WriteMap(c, <<MapEntry(c)>>)
    /\ asked' = [asked EXCEPT ![call[c].name] = {MapEntry(c)}]
    /\ stale' = stale \ {call[c].name}
    /\ Finish(c)
    /\ UNCHANGED <<rules, storageVars>>

PostExisting(c) ==
    /\ At(c, "create_pci_mapping", "write")
    /\ mapping[call[c].name] # NoMapping
    /\ Fails(c)

\* Mutant of NewMap: the new target replaces the last one.
NewMapReplacing(c) ==
    IF call[c].read = <<>> THEN <<MapEntry(c)>>
    ELSE [call[c].read EXCEPT ![Len(call[c].read)] = MapEntry(c)]

\* The map that is put: the one that was got, and the new target.
NewMap(c) == Append(call[c].read, MapEntry(c))

PutMapping(c) ==
    /\ At(c, "add_pci_mapping_target", "write")
    /\ mapping[call[c].name] # NoMapping
    /\ WriteMap(c, NewMap(c))
    /\ asked' = [asked EXCEPT ![call[c].name] = @ \union {MapEntry(c)}]
    /\ stale' = IF edits[call[c].name] = call[c].seen THEN stale
                ELSE stale \union {call[c].name}
    /\ Finish(c)
    /\ UNCHANGED <<rules, storageVars>>

PutMissing(c) ==
    /\ At(c, "add_pci_mapping_target", "write")
    /\ mapping[call[c].name] = NoMapping
    /\ Fails(c)

\* The mapping is gone afterwards, whether or not there was one.
DropMapping(c) ==
    /\ At(c, "delete_pci_mapping", "write")
    /\ WriteMap(c, NoMapping)
    /\ Finish(c)
    /\ UNCHANGED <<asked, stale, rules, storageVars>>

----------------------------------------------------------------------------
\* Firewall rules

CreateRule(c) ==
    Start(c, [NoCall EXCEPT !.tool = "create_firewall_rule", !.step = "write", !.rule = c])

\* A caller wants to get rid of a rule, and begins by listing them.
DeleteRule(c) ==
    Start(c, [NoCall EXCEPT !.tool = "delete_firewall_rule", !.step = "read"])

\* Mutant of GetRules: positions count from 1 in the list and from 0 in the call.
GetRulesFromOne(c) ==
    /\ At(c, "delete_firewall_rule", "read")
    /\ \E i \in DOMAIN rules :
          call' = [call EXCEPT ![c].step = "write", ![c].pos = i + 1, ![c].rule = rules[i]]
    /\ UNCHANGED <<mappingVars, rules, storageVars>>

\* The list is shown, and the caller takes a rule's position from it.
GetRules(c) ==
    /\ At(c, "delete_firewall_rule", "read")
    /\ \E i \in DOMAIN rules :
          call' = [call EXCEPT ![c].step = "write", ![c].pos = i, ![c].rule = rules[i]]
    /\ UNCHANGED <<mappingVars, rules, storageVars>>

\* What an edit at position p does to the calls that hold a position.
Shift(f, p) ==
    [d \in Call |-> [f[d] EXCEPT !.shifted = @ \/ (f[d].step = "write" /\ p <= f[d].pos)]]

\* The new rule goes where the caller or the API puts it.
PostRule(c) ==
    /\ At(c, "create_firewall_rule", "write")
    /\ \E p \in 1..(Len(rules) + 1), a \in {"success", "error"} :
          /\ rules' = [i \in 1..(Len(rules) + 1) |->
                         IF i < p THEN rules[i] ELSE IF i = p THEN call[c].rule
                         ELSE rules[i - 1]]
          /\ call' = Shift([call EXCEPT ![c] = Answered(c, a)], p)
    /\ UNCHANGED <<mappingVars, storageVars>>

\* The rule at the position goes, whichever it is by now.
DropRule(c) ==
    /\ At(c, "delete_firewall_rule", "write")
    /\ call[c].pos \in DOMAIN rules
    /\ rules' = [i \in 1..(Len(rules) - 1) |->
                   IF i < call[c].pos THEN rules[i] ELSE rules[i + 1]]
    /\ \E a \in {"success", "error"} :
          call' = Shift([call EXCEPT ![c] = [Answered(c, a) EXCEPT !.gone = rules[call[c].pos]]],
                        call[c].pos)
    /\ UNCHANGED <<mappingVars, storageVars>>

DropNoRule(c) ==
    /\ At(c, "delete_firewall_rule", "write")
    /\ call[c].pos \notin DOMAIN rules
    /\ Fails(c)

----------------------------------------------------------------------------
\* Storages

AddStorage(c, s) ==
    Start(c, [NoCall EXCEPT !.tool = "add_storage", !.step = "read", !.name = s])

\* A default is refused at once.
RemoveStorage(c, s) ==
    IF s \in Defaults
    THEN Start(c, [NoCall EXCEPT !.tool = "remove_storage", !.step = "done", !.name = s,
                                 !.answer = "error"])
    ELSE Start(c, [NoCall EXCEPT !.tool = "remove_storage", !.step = "write", !.name = s])

CheckStorage(c) ==
    /\ At(c, "add_storage", "read")
    /\ call[c].name \notin storages
    /\ call' = [call EXCEPT ![c].step = "write"]
    /\ UNCHANGED <<mappingVars, rules, storageVars>>

Duplicate(c) ==
    /\ At(c, "add_storage", "read")
    /\ call[c].name \in storages
    /\ Fails(c)

PostStorage(c) ==
    /\ At(c, "add_storage", "write")
    /\ call[c].name \notin storages
    /\ storages' = storages \union {call[c].name}
    /\ Finish(c)
    /\ UNCHANGED <<mappingVars, rules, removals>>

\* Mutant of PostTaken: a storage that is already there is as good as added.
PostTakenTolerated(c) ==
    /\ At(c, "add_storage", "write")
    /\ call[c].name \in storages
    /\ Finish(c)
    /\ UNCHANGED <<mappingVars, rules, storageVars>>

\* Another call has added it since the check: the cluster refuses.
PostTaken(c) ==
    /\ At(c, "add_storage", "write")
    /\ call[c].name \in storages
    /\ Fails(c)

DropStorage(c) ==
    /\ At(c, "remove_storage", "write")
    /\ call[c].name \in storages
    /\ storages' = storages \ {call[c].name}
    /\ removals' = [removals EXCEPT ![call[c].name] = @ + 1]
    /\ Finish(c)
    /\ UNCHANGED <<mappingVars, rules>>

----------------------------------------------------------------------------

\* A request that does not reach the cluster, or that it refuses.
RequestFails(c) == call[c].step \in {"read", "lookup", "write"} /\ Fails(c)

Asked(c) ==
    \/ \E m \in Mapping :
          (\E w \in Wanted : CreateMapping(c, m, w) \/ AddTarget(c, m, w)) \/ DeleteMapping(c, m)
    \/ CreateRule(c) \/ DeleteRule(c)
    \/ \E s \in Storage : AddStorage(c, s) \/ RemoveStorage(c, s)

Step(c) ==
    \/ GetMapping(c) \/ GetMissing(c) \/ Lookup(c) \/ LookupFails(c)
    \/ PostMapping(c) \/ PostExisting(c) \/ PutMapping(c) \/ PutMissing(c) \/ DropMapping(c)
    \/ GetRules(c) \/ PostRule(c) \/ DropRule(c) \/ DropNoRule(c)
    \/ CheckStorage(c) \/ Duplicate(c) \/ PostStorage(c) \/ PostTaken(c) \/ DropStorage(c)
    \/ RequestFails(c)

Next == \E c \in Call : Asked(c) \/ Step(c)

Spec == Init /\ [][Next]_vars

----------------------------------------------------------------------------

(***************************************************************************)
(* A mapping holds exactly the targets that callers asked for since it was *)
(* created, until some add_pci_mapping_target puts a map that was changed  *)
(* after it had been read: no other way to lose a target, to bring one of  *)
(* a deleted mapping back or to write one nobody asked for.                *)
(***************************************************************************)
OnlyStaleWritesLose ==
    \A m \in Mapping : mapping[m] # NoMapping /\ m \notin stale =>
        Entries(mapping[m]) = asked[m]

\* A device that has the bus address of the path, in another domain: any other one
\* if the path gives no domain, one of more than four digits if it does.
Lookalike(d, path) ==
    /\ d.addr = path.addr
    /\ ~AtPath(d, path)
    /\ path.dom # NoDomain => d.dom > MaxDomain

(***************************************************************************)
(* Every target, also one that several calls have carried from map to map, *)
(* describes the device at its path on its node, or a lookalike of it that *)
(* the node lists first: a path that leaves the domain out, and a domain   *)
(* of more than four digits, are all that can mislead the lookup.  (That   *)
(* it finds the device "whose bus address matches" says more than is so.)  *)
(***************************************************************************)
EntriesDescribeDevices ==
    \A m \in Mapping : mapping[m] # NoMapping =>
        \A e \in Entries(mapping[m]) :
            \E i \in DOMAIN Listing[e.want.node] :
                /\ e.device = Listing[e.want.node][i]
                /\ \/ AtPath(e.device, e.want.path)
                   \/ /\ Lookalike(e.device, e.want.path)
                      /\ \A j \in DOMAIN Listing[e.want.node] :
                            AtPath(Listing[e.want.node][j], e.want.path) => i <= j

(***************************************************************************)
(* delete_*_firewall_rule removes the rule its caller saw at the position, *)
(* unless a rule was inserted or deleted at or before that position since: *)
(* edits further down the list are harmless.                               *)
(***************************************************************************)
DeletedAsSeen ==
    \A c \in Call : call[c].gone # NoRule /\ ~call[c].shifted => call[c].gone = call[c].rule

\* The calls that were told they added storage s.
Adders(s) ==
    { c \in Call : /\ call[c].tool = "add_storage" /\ call[c].name = s
                   /\ call[c].answer = "success" }

(***************************************************************************)
(* However the checks and posts of add_storage calls interleave, and       *)
(* whatever replies are lost, at most one of them is told that it          *)
(* registered a given id between two removals, and none that it registered *)
(* a default, which no remove_storage takes away.                          *)
(***************************************************************************)
AddedOnce ==
    \A s \in Storage :
        Cardinality(Adders(s)) <= IF s \in Defaults THEN 0 ELSE removals[s] + 1
=============================================================================
