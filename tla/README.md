# A verification of ProxmoxMCP

ProxmoxMCP is a server of the Model Context Protocol: it offers an LLM client
some ninety tools that read and change a Proxmox VE cluster, through the
cluster's REST API and through SSH to its nodes and guests. This directory
holds TLA+ models of the parts of it whose correctness depends on order,
time and sharing, the TLC configurations that check them on small instances,
and TLAPS proofs of what matters most for every size.

Source paths below are relative to `src/proxmox_mcp/`.

## The system

| Component | State it keeps | Operations | What is hard | What makes it correct |
|---|---|---|---|---|
| API client, `client.py` | the vmid → node cache with its stamps | `api_call`, `resolve_node`, `resolve_node_for_vmid`, error translation | a resolution is suspended at its query; guests migrate meanwhile; late replies overwrite newer ones | an answer was true less than the TTL before the call, or later |
| Safety gates, `client.py`, `config.py` and each handler in `tools/` | the configuration, read once | `check_protected`, `validate_node`, `resolve_node`, confirmation, dry run | sixty handlers order them by hand, some with several requests | no request past a gate that should have stopped it |
| SSH pool, `ssh.py` | the cache of paramiko clients, its lock | get, discard, close | worker threads, a lock held while connecting, eviction of clients in use | bounded, never a wrong, closed or failed client; who waits for the lock gets on, whatever hangs elsewhere |
| SSH execution, `ssh.py` | — | `execute`, `execute_on_host` | deadlines, output read after exit, fallback to another host | a command runs where its checks ran |
| Disk tools, `tools/disk.py` | the node's disks, mounts, `/etc/fstab` | partition, format, mount, unmount | checks and writes are separate SSH commands; partial failure; backup and rollback of fstab | a use the checks find is hit only if it began later; fstab changes as the answer says; an entry added stays |
| Guest SSH tools, `tools/ssh_tools.py` | — | install, service, transfer, script | address discovery, chains of shell steps that outlive the call | the right guest, whole files, nothing left behind |
| PCI mappings, `tools/pci.py` | the cluster's mappings | create, add target, delete, assign, remove | read-modify-write of the map, name matching | a target is lost only by a write of an outdated map |
| Firewall, `tools/network.py` | rule lists, by position | create, delete | positions shift under concurrent edits | the rule deleted is the rule seen, unless one before it changed |
| Storage, `tools/storage.py` | storage definitions | add, remove, download | check then act, lost replies | one call is told that it added an id |
| Tasks, `tools/task.py` | the loop's locals: sleeps counted, time begun | `wait_for_task`, queries | a deadline racing the task's end, late replies | never an early time-out, never one without a look |
| Configuration, `config.py` | the settings | parse and validate | malformed lists | what the gates read is fixed at the start |
| Server, `server.py` | two lazy singletons | start, HTTP bearer check | — | one client and one pool for all tools |

The client and the SSH executor are singletons shared by all tool calls. Tool
handlers are coroutines on one event loop, so a handler runs uninterrupted
between two awaits; API requests and SSH commands run in worker threads
(`asyncio.to_thread`). Handlers share state only through the client's node
cache, the executor's client cache, and the cluster itself, which other users
change too.

## The modules

    VmidLocation <---refines--- NodeCache ---extends---> Cluster
                                    ^
                                    | extends
         ToolTable --Gates-->   ToolCalls ---implements---> PermittedCalls
                                    | a call that has passed its gates goes on in
           +------------------------+-------------+
           v                        v             v
      ConfigTools               DiskTools     GuestExec         WaitForTask
                                    | each command and shell is run over
                                    v
                                 SshPool ---implements---> HostCommands

The lower modules are not composed with `ToolCalls` by EXTENDS: what they need of
it is only that their calls are confirmed, permitted and not dry runs, which
`ToolTableProofs` proves of each tool, and the product would be out of reach.
`SshPool` takes a command to be one that succeeds, fails or hangs; what it does is in
`DiskTools` and `GuestExec`.

* `Cluster` (external): where each guest is, the clock, and a history variable
  `lastSeen` that says when each guest was last at each place. Guests are
  migrated, created and destroyed by anyone at any time.
* `VmidLocation`: what a resolver promises, without a cache: a call asks about
  a guest, and is later told a node that owned the guest less than TTL before
  the call began or later, or that there is none if that was so during the call.
* `NodeCache`: `resolve_node_for_vmid`. A call is `Hit`, or `Miss` (the lookup up
  to the await), `Query` (the cluster evaluates the request) and `Resume` (the
  code after the await); `Abort` is any other exception, or cancellation.
  `now`, `arg` and `answer` are the coroutine's locals. A guest that is not found
  has its entry removed, as in the code.
* `ToolTable`: each of the mutating tools as the sequence of the gates and
  requests of its handler, with one definition per group of tools, at its lines.
  Handlers with the same order share a shape (`Guarded`, `OnNode`, ...).
* `ToolCalls`: concurrent tool calls that walk these sequences; one action per
  kind of gate. Resolution is `NodeCache`'s actions, so calls meet in the cache.
  A request may fail before or after it took effect; `call[c].sent` counts the
  requests sent, failed ones included. A caller may name two nodes: the one to act on
  (`NodeArguments`), which gates look at, and the one that a guest or a storage is to
  go to (`TargetArguments`), which goes into the request as it is.
* `PermittedCalls`: what the safety settings promise, without gates: a call is asked
  (`Ask`), sends requests while the configuration and its own parameters permit it
  (`Send`), and is answered once and truly (`Tell`, or `Send` for the last request):
  a success after at least one request, a dry run or a question for confirmation after
  none. What a call was asked is forgotten by `ToolCalls` when it is not under way, so
  the mapping (`AskedOf`) has it not asked then.
* `HostCommands`: what the SSH pool promises, with neither a cache nor a lock: a
  command runs on a connection of its own host that is up, either new (`RunOnNew`) or
  one on which no command has failed before (`RunOnOld`). Any connection may be
  closed at any time, as eviction closes those in use.
* `SshPool`: `_get_cached_client` (`Reuse`; `GoConnect` then `Connect` or
  `ConnectFail`, with the lock held in between), the command (`Succeed`, `Fail`),
  `_discard_cached_client` (`Discard`), `close` (`CloseAll`: part of the class,
  although nothing in the package calls it) and the loss of a connection
  (`Lose`). Clients are numbered in the order they are created; since a client is
  inserted only when it has just been created, that is the dict's order.
* `WaitForTask`: `wait_for_task`. `Begin` clamps timeout and interval and meets the
  loop's head (`LoopHead`, the two conditions of the `while`); `Poll` is the
  request's evaluation, `ReplyStopped` and `ReplyRunning` the code after the await,
  `Wake` the end of the sleep. `PollFails` is any exception. `End` (the task) and
  `Tick` (the clock) belong to others: a reply and a wake-up may be late by any time.
* `ConfigTools`: the tools that need several requests to change one thing: the PCI
  mapping tools (`GetMapping`, `Lookup`, `PutMapping`, ...), the firewall rules
  (`GetRules` is the listing from which a caller takes a position; `PostRule`,
  `DropRule`) and the storages (`CheckStorage`, `PostStorage`, `DropStorage`). Each
  step is one request's evaluation. `RequestFails` is a request that changed nothing,
  `Finish` one that was carried out and whose reply may be lost. `edits`, `asked`,
  `stale` and `removals` are history variables.
* `DiskTools`: `partition_disk`, `format_disk`, `create_mount_point` and
  `unmount_path`, on one disk and `/etc/fstab` of the hosts that the node's name leads
  to; `format_disk` is called for the whole disk or for a partition of it (`aim`). A
  step is one SSH command: the gates with what their shell commands really see
  (`SeenBy`), `Wipe`, `Table`, `Mkfs`, `DoMount`, `Backup`, `AppendLine`, `Validate`,
  `Rollback` and the failures of each. `sed -i` is two steps, `SedReads` and
  `SedReplaces`, the second on the host of the first (`runsAt`). `Raise` is
  an `SSHExecutionError`; the command may then still `Land`, or `Lapse`. `Operate` is
  somebody else who takes the disk into use; `Reroute` a name that ceases to resolve,
  so that commands go to `PROXMOX_HOST` instead. `began`, `hit`, `checked`, `before`,
  `after`, `undo`, `sound` and `spoiled` are history variables. The `cp` that copies
  fstab, the `printf` that appends to it and the `mount -a` that reads it are one step
  each.
* `GuestExec`: `install_package`, `manage_service`, `transfer_file` and
  `execute_script`. The client discovers an address (`Discover`; `NoAgent` falls back
  to the container's interfaces), sends its chain (`Send`), and reads the exit status
  (`Collect`) or gives up (`GiveUp`). The shell is an actor of its own, one action per
  step of the chain (`MakeTemp`, `Write`, `Move`, `ChangeMode`, `Execute`, `Remove`,
  ...): it goes on after the client has given up, any step may fail (`StepFails`), and
  it may be killed (`Kill`).
* `MC...`: instances for TLC. `...Proofs`: theorems.

Definitions whose comment begins with *Mutant of* are the definitions' broken
forms: each property of a passing run is violated when one of them takes the
place of the definition it follows. They are used by no specification.

## The runs

| Run | Module and cfg | Checks | Shows |
|---|---|---|---|
| cache | `MCNodeCache`, `MCNodeCache.cfg` | `TypeOK`, `CacheWitnessed`, `AnswerFresh`, `ImplementsLocation` | Two overlapping resolutions of one guest that moves between two nodes: what the cache holds and returns was true within the TTL, and the cached resolver implements the cache-free specification. |
| gates | `MCToolCalls`, `MCToolCalls.cfg` | `ToolTypeOK`, `ProtectedGuestsKept`, `ActingNodesAllowed`, `ImplementsPermittedCalls` | Every mutating tool under every configuration and every argument: no path through its gates reaches a request it should not, and the whole implements the promise that requests are permitted and answers true. |
| shared_cache | `MCToolCalls`, `MCToolCallsShared.cfg` | `SentWhereGuestWas`, `EveryCallAnswered` | Two concurrent stop_vm calls share the cache while their guest moves: requests go to a node that owned the guest within the TTL, and both calls are answered, found or not. |
| readme_protected (violation) | `MCToolCalls`, `MCToolCallsProtected.cfg` | `ProtectedUntouched` | The README says protected VMIDs cannot be modified or deleted: some tools change them without check_protected. |
| readme_allowed (violation) | `MCToolCalls`, `MCToolCallsAllowed.cfg` | `OnlyAllowedNodes` | The README says operations are restricted to the allowed nodes: neither a node that is detected is checked, nor the one that a guest is to go to, so that both may be off the list in one request. |
| ssh_pool | `MCSshPool`, `MCSshPool.cfg` | `TypeOK`, `CacheBounded`, `CachedNotClosed`, `LockPassedOn`, `ImplementsHostCommands` | Two worker threads, two hosts and a cache of one client: eviction, failure and reuse never hand out a wrong, closed or failed client, whoever waits for the lock gets on although it is held through connects that may fail, and the pool implements a specification that caches nothing. |
| wait | `MCWaitForTask`, `MCWaitForTask.cfg` | `TypeOK`, `TimeoutNotEarly`, `TimeoutSawRunning`, `SuccessSound`, `PollsBounded`, `PollsSpaced`, `Answered` | One wait_for_task with any timeout and interval around both clamps, late replies and sleeps, and a task that ends at any time or never. |
| config | `MCConfigTools`, `MCConfigTools.cfg` | `TypeOK`, `OnlyStaleWritesLose`, `EntriesDescribeDevices`, `DeletedAsSeen`, `AddedOnce` | Four concurrent calls of the tools that edit mappings, firewall rules and storages in several requests, with failing requests and lost replies: what a race between them, or a path that names a device only in part, can spoil, and what it cannot. |
| disk | `MCDiskTools`, `MCDiskTools.cfg` | `TypeOK`, `HitsOnlyUnseen`, `FstabAllOrNothing`, `AddedEntriesStay`, `AdminLineStays`, `ReportedEntriesValid` | Two concurrent disk tools, on a disk or a partition of it and two mount paths, one mounted before, on a node whose name ceases to resolve, with failing, timed-out and late commands, sed as the two steps it is, and an operator at work: which uses of a disk a destructive command can hit, and what becomes of /etc/fstab. |
| disk_used (violation) | `MCDiskTools`, `MCDiskToolsUsed.cfg` | `UsedDisksKept` | The checks of partition_disk say that they find any partition that is used: it wipes the nvme disk that the system runs from, with its volume group. |
| guest | `MCGuestExec`, `MCGuestExec.cfg` | `TypeOK`, `RightGuest`, `WholeFile`, `OwnMode`, `TempsRemoved`, `SuccessDelivered`, `WholeScript` | Two concurrent SSH tools in a virtual machine and a container, with every step of their shells failing, shells killed and deadlines passed, and an address that changes hands: what may be at the destination, in /tmp and in the answer. |
| guest_text (violation) | `MCGuestExec`, `MCGuestExecText.cfg` | `TextTransferred` | transfer_file's docstring says that it writes the text given: what it leaves in the file is the text's base64 encoding. |

Deadlock is not checked: calls are optional, counters are bounded, and a state
in which all is done is legitimate.

**Bounds.** In `NodeCache`, two calls are what overlapping queries need: one that
is late and one that overtakes it; guests do not interact (the cache's entries
are independent), so one suffices; with a TTL of 2 and a clock up to 5, an entry
can be made, expire, and be made again by a call that began before. The theorems
remove all these bounds. In the run of all tools one call is enough, since the
calls share only the cache; the two-call runs add that. In `SshPool` a cache of
one client evicts at every insertion of another key; two threads and two keys
make every pair of visits meet; the numbers of clients and commands only bound
the run. In `WaitForTask` the
longest timeout is 4 instead of 3600, and timeouts and intervals are asked for on
both sides of both clamps; the clock runs to 7 by itself and beyond that only as
long as a sleep lasts, so that replies and wake-ups can be late by several intervals. In
`ConfigTools` four calls are enough for a target added, a mapping deleted, created
again and written from before that; two devices whose names end alike, one in a
domain of five digits, and one asked for without a domain that is listed in another,
are the cases the look-up can confuse. In `DiskTools` two calls make every pair of
steps on a disk and at fstab meet. `UsedDisks` are a disk whose mounts the checks find
and one where they do not; it comes into use by the other call's mount or by the
operator (`NewUses`), before the checks or between check and command. Of
the two mount paths one is mounted at the start and has a line in fstab, so that a
call can remove it while the other adds an entry; `OldBackup` is from before that
line, and `Route` lets the name lead elsewhere once. The naming of nvme disks is in
the run `disk_used`; to the theorems it is one of any `Cases`.
In `GuestExec` payloads of two chunks can
be cut between them, `MaxMoves` lets one address change hands once, and one of the
two guests has its `/tmp` apart. The theorems remove these bounds too (`MaxChunks`
and `MaxMoves` may be any numbers).

**Fairness.** `FairToolSpec`: a running call goes on. The event loop runs every
ready coroutine, and each API request ends: the client has a 30 s timeout
(`client.py:52`). The run that uses it (`shared_cache`) has a tool of API requests
only. Nothing is assumed of clients or of the cluster. `FairSpec` of `SshPool`: a
thread gets on at the cache and at its end (`CacheStep`): making a connection has
time-outs (`ssh.py:125-188`), the other steps do not wait. Of a command nothing is
assumed. Its deadline (`ssh.py:219`) is for the exit status; `exec_command` before
it and the reading of the output after it (`ssh.py:216`, `228`) have none, so that a
command may hold its worker thread for ever, and `LockPassedOn` says what holds for
the other threads then. A `threading.Lock` is not fair, and nothing is assumed
of the order in which it is granted; with finitely many commands each one gets
its turn. `FairSpec` of `WaitForTask`: the call goes on when it can, and time passes;
nothing makes the task end. `ConfigTools`, `DiskTools` and `GuestExec` have no
loops and no fairness, and state no liveness: each call takes finitely many steps,
and may stop at any of them.

## What is proved

`NodeCacheProofs` proves, for any sets of calls, guests and nodes, any TTL of at
least one and any bound of the clock:

* `TypeCorrect`, `CacheIsWitnessed`, `AnswersAreFresh`: the invariants of the run
  `cache`. None of them is inductive: a cached node is only as good as the answer
  it came from, and an answer as the query that is in flight. `IInv` adds
  `InFlightWitnessed` (an evaluated query was true since its call began) and
  `NotAhead` (stamps and history do not exceed the clock, and every guest was last
  seen where it is *now*). The argument rests on one lemma, `EvidenceLasts`: a
  guest that was at a place since `t` stays one that was, whatever the cluster
  does, so that only `Hit`, `Query` and `Resume` create anything to prove.
* `Refinement`: `NodeCache` implements `VmidLocation`. `Hit` is `TellAtOnce`, `Miss`
  is `Ask`, `Query` a stutter, `Resume` is `Tell`, `Abort` and `Return` are
  `Release`.

`ToolCallsProofs` proves, for *any* table of tools, of calls walking its gates
concurrently:

* `ToolInvariance`: the invariants of the calls (`ToolIInv`) and of the cache they
  share (`IInv`) hold together. `ToolIInv` says that a call knows of every gate
  behind it (`Walked`, `Cleared`), that it is in the resolver only at a `resolve`
  gate and asks there for its own guest (`Resolving`), and that a node it has
  resolved was its guest's (`ResolvedWhereGuestWas`). `Fine` collects what concerns
  one call and the configuration; `StepFine` shows each action to keep it, and the
  rest is that calls meet only in the cache.
* `ToolsUseTheResolver`: the composition implements `NodeCache`, and so
  `VmidLocation`.
* `ToolTypeCorrect` and `SentToTheOwner`, without any condition on the table.
* `DryRunHolds`, `ConfirmationHolds`, `ProtectionHolds`, `AllowlistHolds` (of the nodes
  that callers name to act on; no order of gates says anything of targets) and
  `RefusalsHold`: what the gates are for, one invariant each, from a condition on the
  order of the gates alone (`DryRunFirst`, ...). The run `gates` checks two of them;
  the other three (no request in a dry run, none unconfirmed, no answer that denies
  one) are conditions of `Send` and `Tell` in the promise it checks.
* `GatesImplementThePromise`: from the same conditions and two more (no handler ends
  without a request, `WriteBeforeEnd`; only tools with a confirm parameter ask for it,
  `ConfirmOffered`) the calls implement `PermittedCalls`. `Write` is `Send`, whatever
  becomes of the request, `Answer` is `Tell`, `Invoke` is `Ask`, `Done` is `Leave`;
  the gates and the resolver's steps are stutters. A gate is forgotten by the time a
  request is sent, so the proof rests on `Walked` and `Cleared`: what a call has
  passed is still true of it, since the configuration does not change (`ConfigStays`).

`ToolTableProofs` proves those conditions of every tool in `ToolTable`, one group
of handlers at a time (`HandlersAreOrdered`), and so the five properties of the
tools as they are written (`ToolsAreSafe`) and that they implement `PermittedCalls`
(`ToolsImplementThePromise`).

`SshPoolProofs` proves the invariants of the run `ssh_pool` for any sets of
threads and keys and any limits, and three that the promise it checks rests on: no
wrong host (`HostIsRight`), no failed client in the cache (`FailedClientsGone`), the
lock held by whoever connects and nobody else (`LockIsReleased`). `IInv` adds what makes them inductive:
`CachedAtHome` (a client is cached under the key it was connected for, so no
client is cached twice), `UnusedUnknown` (a client not yet created is nobody's),
and that the cached keys are finitely many: `Key` need not be finite, so the bound
on their number rests on the library's theorems about finite sets.
`PoolKeepsThePromise`: the pool implements `HostCommands`. `Reuse` is `RunOnOld` (a
cached client is open, at home and has not failed: three parts of `IInv`), `Connect`
is `RunOnNew` with the evicted client closed in the same step, `GoConnect` and
`CloseAll` are `CloseSome`, and `ConnectFail`, `Discard` and `Return` are `Answer`.
`ClosingMapped` says that the pool closes open clients only.

`WaitForTaskProofs` proves the six safety properties of the run `wait` for any
timeout and interval, any limit and any clock. `IInv` has the counts tied to
each other (`Counted`: the polls made are those the slept intervals account for),
the clock not behind them (`Clocks`: the sleeps lie in the time since the start, so
that either count ending the loop means that the time is up) and what a poll saw
to when the task ended (`Sightings`). The product of polls and interval is the one
non-linear fact, in a lemma of its own (`OneMore`).

`ConfigToolsProofs` proves the invariants of the run `config` for any finite set of
calls, any mappings, devices and storages and rule lists of any length. `IInv` adds
to them that a call which has read a mapping not edited since holds it as it is
(`UpToDate`), that the rule at an unshifted position is the one that was seen
(`InPlace`), and that an id registered now is one of those counted as added
(`AddedNow`): from that a second `PostStorage` needs a `DropStorage` in between.

`DiskToolsProofs` proves the invariants of the run `disk` for any calls,
hosts, mount paths, uses, backups and any route of the node's name. What it assumes
of the constants is what `DiskTools` names, that `NoPath` is no path and no host for
one. Its `IInv` is one predicate per call (`Good`) besides the types and
`AdminLineStays`:

* `Fine` says which steps, and which history, are which tool's.
* `Passed` and `Unseen`: a call that has a gate behind it was let pass on the host it
  has noted for it, and a use that this gate finds there now began after the call
  did; without it nothing is known when `wipefs` is sent. `HitUnseen` is
  `HitsOnlyUnseen` for what has been hit.
* `Kept`: a call that has fstab to itself finds there, between two of its commands,
  what it has read, written and backed up, so that validation and rollback end where
  `Whole` (`FstabAllOrNothing`) says, also if a `cp` of its own fails.
* `Stays` is `AddedEntriesStay` from the append on, with what the validation found
  (`Accepted`), from which comes `ReportedEntriesValid`.
* `Remembers`: the backup a call has made still holds the administrator's line.
  `Careful` says of the two commands that take lines out of the file why they keep it,
  unless they spoil the file: what `sed` puts there is what is there, less the lines of
  its path, and what a rollback puts there is what its own call had found.

The argument is in three layers. What a command does to a host and to the history of
a call is said once. A step of one call keeps what holds of the *others*, whatever
the step: whoever touches fstab makes the others there unsound. Each action then has
only to keep its own call's part.

`GuestExecProofs` proves the invariants of the run `guest`, for payloads of any
length. `IInv` adds which tool is at which step of its chain with how many chunks
written (`Fine`), that an address found is still its guest's or is noted as moved
(`Leads`), and that a call about to set a mode put the file there or was crossed by the
one that did (`MayChangeMode`); `OwnMode` alone does not exclude a `chmod` that
comes out of nowhere. For `SuccessDelivered` it adds what a transfer finds at the
destination from its `mv` on, before the `chmod` and after (`Delivered`): its own file,
which only a crossing `chmod` may have struck, or the file of another transfer. That
others may come and never go (`Stays`) is what each step must keep, and an answer of
success means an exit status of zero, hence the whole chain (`Fine`). `WholeScript` is
part of `Fine`.

## Where the code and its documents disagree

* `ProtectedUntouched`: the README says that protected VMs "cannot be modified,
  stopped, or deleted". `migrate_vm`, `migrate_container`, `delete_snapshot` and
  `restore_backup` (with `force` it replaces the guest) do not call
  `check_protected`, nor do the tools that change a guest over SSH.
  `ProtectedGuestsKept` is what does hold.
* `OnlyAllowedNodes`: the README says that operations are restricted to the
  allowed nodes. A node that is detected and not named is not checked
  (`client.py:219`). Nor is the node that a caller names for a guest to go to
  (`target_node` of `migrate_vm`, `clone_vm`, `migrate_container` and
  `clone_container`), or for a storage to be added on (`nodes` of `add_storage`):
  they go into the request as they are (`tools/vm.py:418`, `449`,
  `tools/container.py:257`, `291`, `tools/storage.py:291`). The property asks for
  one listed node only, so that its counterexample shows both. What does hold is
  `ActingNodesAllowed`: the node that a caller names to act on, in the parameter
  `node`, is on the list by the time of the first request.
* `UsedDisksKept`: `_check_not_boot_disk` says that it rejects a device with any
  partition mounted as `/`, `/boot` or `/boot/efi` (`tools/disk.py:75`), and
  `_check_not_in_use` that it checks whether any partition is mounted, or in LVM, ZFS
  or MD RAID (`tools/disk.py:89`). On an nvme disk `{device}[0-9]*` names no partition,
  so `lsblk` fails and what it printed is not looked at, and `findmnt` finds nothing; on
  any disk with several mounted partitions `findmnt` rejects its arguments; and a
  partition that is a member is not found by `grep -w` for the name of the disk.
  `HitsOnlyUnseen` is about the uses that the checks do find, and no others.
* `TextTransferred`: `transfer_file` says that it writes the text it is given. It
  sends the text's base64 encoding in chunks to a temporary file and moves that to
  the destination (`tools/ssh_tools.py:570-579`) without decoding it, as
  `execute_script` does.

Further disagreements have no run of their own; where a property of a passing run
would be contradicted, the property says what is so instead:

* `_lookup_pci_device` says that it finds the device "whose bus address matches" the
  path (`tools/pci.py:86`). It completes a path without a domain to domain 0000
  (`tools/pci.py:88`), but takes the first device whose address ends with the path as
  it was given (`tools/pci.py:91`), which may be in another domain.
  `EntriesDescribeDevices` names these lookalikes.
* `create_mount_point` logs that fstab was rolled back and answers that no entry was
  added, but nobody looks whether the `cp` of the rollback succeeded
  (`tools/disk.py:655-659`): the invalid entry may still be there. `FstabAllOrNothing`
  has this case.
* An entry is added "for persistence across reboots" (`tools/disk.py:555`). Two calls
  may edit fstab at once: the `sed -i` of an `unmount_path` for another path
  (`tools/disk.py:740`) may have read the file before the entry was appended, and a
  rollback (`tools/disk.py:655`) restores the newest backup, whoever made it and
  whatever was written since. `AddedEntriesStay` excludes exactly these two.
* A test's comment says that a client is "cached for reuse" after a successful
  command (`tests/test_ssh.py:73`). A client found in the cache is taken out and not
  put back (`ssh.py:77-94`), so every other command on a host makes a new connection,
  and the old one is left open. (That test and `test_client_reused_across_commands`
  issue one and two commands; the third would show it.) `Reuse` has it so;
  `HostCommands` allows it.

Further things the code does that no document denies, and that the models have as
they are:

* `execute_script` reports the exit code of the `rm` that comes after the script
  (`tools/ssh_tools.py:699`), so a script that failed is answered with success.
* `wait_for_task` sleeps once more after its last look and does not look again
  (`tools/task.py:205`): a time-out means that the task was running then, not now.
* Nobody looks whether the backup of fstab was made (`tools/disk.py:643`): a rollback
  after a failed one restores an older state, as `FstabAllOrNothing` says.
* `format_disk` may be called for a whole disk, and looks only for a mount of that name
  (`tools/disk.py:480`), not of the disk's partitions, nor for members.
* An SSH command may hang for ever in spite of its timeout, before its exit status is
  waited for or after (`ssh.py:216`, `228`).
* The chunks of a payload are joined into one command, so that they do not keep it
  short (`tools/ssh_tools.py:241`).

## What is only model-checked, and what is not modelled

The assumptions of the proofs are those the modules name; TLC evaluates them in
every run. Only TLC checks the liveness properties (`EveryCallAnswered`,
`LockPassedOn`, `Answered`): properties under fairness are out of the prover's reach.
Every invariant and action property of the passing runs, and each of the three
refinements, is proved as well.

Not modelled:

* the text of arguments, commands, output and replies, and so the validators' regular
  expressions, the parsing of the configuration, and the translation of an API error
  to an exception by its text. A validator passes or refuses, and a request succeeds or
  fails, in every model; which message is shown makes no difference to any of them.
* what a single request does inside the cluster (starting a guest, making a snapshot,
  downloading an image): only the gates before it (`ToolTable`), with its failure
  before and after it took effect.
* the layout of partitions, and the host keys and credentials of SSH.
* the read-only tools, resources, prompts and formatting: one request and a reply, no
  state of their own. Those that resolve a node do it through `NodeCache`'s operations.
* start-up and the HTTP transport's token check: sequential, without state that
  changes.

PROJECT.json lists each component with its status, and the hazards with the
properties that watch them.
