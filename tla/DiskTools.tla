----------------------------- MODULE DiskTools -----------------------------
(***************************************************************************)
(* partition_disk, format_disk, create_mount_point and unmount_path        *)
(* (src/proxmox_mcp/tools/disk.py), all on one disk of a node and on that  *)
(* node's /etc/fstab.                                                      *)
(*                                                                         *)
(* A tool is a sequence of SSH commands, with an await at each.  A command *)
(* runs on the host the node's name resolves to at that moment, or on      *)
(* PROXMOX_HOST if it does not resolve (SSHExecutor.execute).  It may end  *)
(* in SSHExecutionError, a time-out for one; then the tool is over and the *)
(* command may still take effect, at once, later or never.                 *)
(*                                                                         *)
(* The calls here have passed their gates and are not dry runs (ToolTable).*)
(* Commands that change nothing kept here and look at nothing kept here    *)
(* (test -b, blkid, mkdir, blockdev) are part of the commands they come    *)
(* between.  The printf that appends to fstab and the cp that copies it    *)
(* are one step each, mount -a reads it in one; sed -i reads the file and  *)
(* replaces it later by what it has read.                                  *)
(***************************************************************************)
EXTENDS Naturals, Sequences

CONSTANTS
    Call,        \* the calls of a run, each of one tool
    Offered,     \* the tools called in a run
    Host,        \* the hosts that commands to the node may reach
    Route,       \* the hosts that the node's name leads to, one after the other
    Cases,       \* the disk at the start: how it is named and divided, its uses, and
                 \* the paths that its file systems are mounted at
    Path,        \* mount paths
    NewUses,     \* the uses that an operator may begin
    OldBackups,  \* the newest backup of /etc/fstab at the start: {lines}, or {} for none
    NoPath

\* The uses of a disk: a partition is a file system of the running system, or
\* mounted elsewhere; the whole disk is mounted; the disk or a partition of it is
\* a member of a volume group, pool or array.
Uses == { "boot", "part", "whole", "member", "memberPart" }

\* A line of /etc/fstab: the call that wrote it, or the administrator.
Admin == "admin"
Line == [by : Call \union {Admin}, path : Path \union {NoPath}, valid : BOOLEAN]
AdminLine == [by |-> Admin, path |-> NoPath, valid |-> TRUE]

Backups == { {} } \union { {lines} : lines \in SUBSET Line }

ASSUME RouteAssumption == Route \in Seq(Host) /\ Route # << >>
\* A disk with one partition, with several, or with another naming: see Glob.
Disks == { "one", "several", "nvme" }

ASSUME CaseAssumption == \A x \in Cases :
    /\ x.disk \in Disks
    /\ x.uses \subseteq { "boot", "whole", "member", "memberPart" }
    /\ x.mounts \subseteq Path
ASSUME UseAssumption == NewUses \subseteq { "whole", "member", "memberPart" }
ASSUME LineAssumption ==
    /\ Admin \notin Call
    /\ NoPath \notin Path \union Host
    /\ \A b \in OldBackups : \A lines \in b : b = {lines} /\ lines \in SUBSET Line

VARIABLES
    disk,      \* which of Disks the disk is
    route,     \* the hosts still to be led to, the present one first
    host,      \* per host: uses of the disk, paths mounted, fstab, newest backup
    call,      \* what each call is doing and has answered
    spoiled    \* history: a call restored a backup of fstab that it had not just made,
               \* or replaced fstab by what it had read before somebody else wrote

vars == <<disk, route, host, call, spoiled>>

HostState == [uses : SUBSET Uses, mounts : SUBSET Path, fstab : SUBSET Line,
              backup : Backups]

Tools == { "partition_disk", "format_disk", "create_mount_point", "unmount_path" }

Destroyers == { "partition_disk", "format_disk" }

\* The checks of partition_disk, and that of format_disk.
Gates == { "boot", "mounts", "members", "target" }
GatesOf(tool) == IF tool = "format_disk" THEN { "target" } ELSE Gates \ { "target" }

Steps == Gates \union { "wipe", "table", "mkfs", "path", "mount", "verify", "umount",
                        "backup", "append", "sed", "replace", "validate", "rollback" }

\* The commands that change something, and those of them that destroy data.
Destructive == { "wipe", "table", "mkfs" }
Changing == Destructive \union { "mount", "umount", "backup", "append", "sed", "replace",
                                 "rollback" }
FstabSteps == { "append", "sed", "replace", "validate", "rollback" }

Answers == { "none", "success", "partial_success", "error" }

NoCall == [tool |-> "none", step |-> "idle", aim |-> "disk", path |-> NoPath,
           valid |-> TRUE, hosts |-> {}, checked |-> [s \in Gates |-> NoPath],
           began |-> {}, hit |-> {}, late |-> "none", runsAt |-> NoPath, read |-> {},
           before |-> {}, bak |-> {}, undo |-> "none", after |-> {}, sound |-> TRUE,
           listed |-> FALSE, answer |-> "none"]

CallState ==
    [tool : Tools \union {"none"}, step : Steps \union {"idle", "done"},
     aim : { "disk", "partition" },       \* what its device is
     path : Path \union {NoPath}, valid : BOOLEAN,
     hosts : SUBSET Host,                 \* the hosts its commands have reached
     checked : [Gates -> Host \union {NoPath}],  \* the host each check was passed on
     began : SUBSET (Host \X Uses),       \* the uses that began since it was called
     hit : SUBSET (Host \X Uses),         \* the uses when it sent a command that destroys
     late : Changing \union {"none"},     \* a command it no longer waits for
     runsAt : Host \union {NoPath},       \* where that command, or its sed, is at work
     read : SUBSET Line,                  \* what its sed has read
     before : SUBSET Line,                \* fstab when it tried to make its backup
     bak : Backups,                       \* the newest backup after that
     undo : { "none", "restored", "failed" },  \* its rollback
     after : SUBSET Line,                 \* fstab when it was answered
     sound : BOOLEAN,                     \* it had fstab to itself
     listed : BOOLEAN,                    \* fstab_entry_added or _removed
     answer : Answers]

TypeOK ==
    /\ disk \in Disks
    /\ route \in Seq(Host) /\ route # << >>
    /\ host \in [Host -> HostState]
    /\ call \in [Call -> CallState]
    /\ spoiled \in BOOLEAN

Init ==
    /\ route = Route
    /\ \E x \in Cases, b \in OldBackups :
          /\ disk = x.disk
          /\ host = [h \in Host |->
                       [uses |-> x.uses, mounts |-> x.mounts, backup |-> b,
                        fstab |-> { [AdminLine EXCEPT !.path = p] : p \in x.mounts }
                                  \union {AdminLine}]]
    /\ call = [c \in Call |-> NoCall]
    /\ spoiled = FALSE

----------------------------------------------------------------------------
\* What the commands see.

\* The partition that format_disk is called for is the one that is mounted.
UsesOf(r) == r.uses \union IF r.mounts # {} THEN {"part"} ELSE {}

\* {device}[0-9]* names the partitions of /dev/sdb, but none of /dev/nvme0n1, whose
\* partitions have a p before the number.
Glob == disk # "nvme"

\* The uses that a check finds.  _check_not_boot_disk believes lsblk only if it exits
\* with success, which it does not when the pattern names no device.  The exit status
\* of the two findmnts of _check_not_in_use is that of the second one, which finds the
\* mounted partitions, but rejects its arguments if the pattern names several.  To
\* grep -w the disk's name is a whole word: /dev/sdb1 is another.  The findmnt of
\* format_disk sees a mount of its device, but of none of the parts of that.
SeenBy(d, step) ==
    CASE step = "boot" -> IF Glob THEN { "boot" } ELSE {}
      [] step = "mounts" -> IF disk = "one" THEN { "boot", "part" } ELSE {}
      [] step = "members" -> { "member" }
      [] step = "target" -> IF d.aim = "partition" THEN { "boot", "part" } ELSE { "whole" }
      [] OTHER -> {}

Refuses(d, r) == UsesOf(r) \intersect SeenBy(d, d.step) # {}

\* The uses that call d destroys: those of the disk, or those of the partition.
Destroys(d, r) ==
    IF d.aim = "partition" THEN UsesOf(r) \intersect { "boot", "part", "memberPart" }
    ELSE UsesOf(r)

\* What the commands do.
LineOf(c) == [by |-> c, path |-> call[c].path, valid |-> call[c].valid]

\* Mutant of NotAt: the pattern of sed is not closed, and finds longer paths as well.
NotAtOpen(lines, p) == { l \in lines : l.path = NoPath }

NotAt(lines, p) == { l \in lines : l.path # p }

\* Mutant of Effect: the backup that is restored is an older one.
EffectOldBackup(c, cmd, r) ==
    CASE cmd = "mount" -> [r EXCEPT !.mounts = @ \union {call[c].path}]
      [] cmd = "umount" -> [r EXCEPT !.mounts = @ \ {call[c].path}]
      [] cmd = "backup" -> [r EXCEPT !.backup = IF @ = {} THEN {r.fstab} ELSE @]
      [] cmd = "append" -> [r EXCEPT !.fstab = @ \union {LineOf(c)}]
      [] cmd = "replace" -> [r EXCEPT !.fstab = NotAt(call[c].read, call[c].path)]
      [] cmd = "rollback" -> [r EXCEPT !.fstab = IF r.backup = {} THEN @ ELSE UNION r.backup]
      [] OTHER -> r

Effect(c, cmd, r) ==
    CASE cmd = "mount" -> [r EXCEPT !.mounts = @ \union {call[c].path}]
      [] cmd = "umount" -> [r EXCEPT !.mounts = @ \ {call[c].path}]
      [] cmd = "backup" -> [r EXCEPT !.backup = {r.fstab}]
      [] cmd = "append" -> [r EXCEPT !.fstab = @ \union {LineOf(c)}]
      [] cmd = "replace" -> [r EXCEPT !.fstab = NotAt(call[c].read, call[c].path)]
      [] cmd = "rollback" -> [r EXCEPT !.fstab = IF r.backup = {} THEN @ ELSE UNION r.backup]
      [] OTHER -> r

\* Mutant of FstabValid: the backup is read instead of the file.
FstabValidBackup(r) == \A l \in UNION r.backup : l.valid

\* mount -a --fake reads the whole file.
FstabValid(r) == \A l \in r.fstab : l.valid

----------------------------------------------------------------------------
\* The steps of a call.

\* Call d has made its backup of fstab, or is about to change it.
InFstab(d) ==
    \/ call[d].step \in FstabSteps
    \/ call[d].late \in FstabSteps \union {"backup"}

Busy(d) == d.step \in Steps \/ d.late # "none"

\* The use u of the disk of host h begins, for the calls under way that may destroy it.
Begin(d, h, u) == IF Busy(d) /\ d.tool \in Destroyers THEN d.began \union {<<h, u>>} ELSE d.began

\* What command cmd of call c on host h means for the history of all calls: c has
\* reached h and hit what uses the disk there, a use begins for all calls, and
\* whoever else is at work on fstab no longer has it to himself.
Noted(f, c, cmd, h) ==
    [d \in Call |->
        [f[d] EXCEPT
            !.hosts = IF d = c THEN @ \union {h} ELSE @,
            !.hit = IF d = c /\ cmd \in Destructive
                     THEN @ \union ({h} \X Destroys(f[d], host[h])) ELSE @,
            !.read = IF d = c /\ cmd = "sed" THEN host[h].fstab ELSE @,
            !.began = IF cmd = "mount" THEN Begin(f[d], h, "part") ELSE @,
            !.sound = IF cmd \in FstabSteps \union {"backup"}
                      THEN @ /\ IF d = c THEN \A e \in Call \ {c} : ~InFstab(e)
                                ELSE ~InFstab(d)
                      ELSE @]]

\* Call c goes on at the given step.
Goto(c, step) == [call EXCEPT ![c].step = step]
Done(c, a) == [call EXCEPT ![c].step = "done", ![c].answer = a]

\* Command cmd of call c takes effect on host h; f is where the calls are then.
Carry(c, cmd, h, f) ==
    /\ host' = [host EXCEPT ![h] = Effect(c, cmd, @)]
    /\ call' = Noted(f, c, cmd, h)
    /\ UNCHANGED <<disk, route>>

At(c, step) == call[c].step = step

Start(c, r) ==
    /\ call[c] = NoCall
    /\ r.tool \in Offered
    /\ call' = [call EXCEPT ![c] = r]
    /\ UNCHANGED <<disk, route, host, spoiled>>

Partition(c) == Start(c, [NoCall EXCEPT !.tool = "partition_disk", !.step = "boot"])
Format(c) == \E a \in { "disk", "partition" } :
    Start(c, [NoCall EXCEPT !.tool = "format_disk", !.step = "target", !.aim = a])
Mount(c) == \E p \in Path, v \in BOOLEAN :
    Start(c, [NoCall EXCEPT !.tool = "create_mount_point", !.step = "path",
                            !.path = p, !.valid = v])
Unmount(c) == \E p \in Path :
    Start(c, [NoCall EXCEPT !.tool = "unmount_path", !.step = "path", !.path = p])

\* Mutant of AfterGate: mounts are not looked for.
AfterGateUnlooked(step) == CASE step = "boot" -> "members" [] OTHER -> "wipe"

\* After a gate that lets the call pass.
AfterGate(step) ==
    CASE step = "boot" -> "mounts" [] step = "mounts" -> "members" [] OTHER -> "wipe"

Gate(c, h) ==
    /\ call[c].step \in Gates
    /\ ~Refuses(call[c], host[h])
    /\ Carry(c, call[c].step, h,
             [Goto(c, AfterGate(call[c].step)) EXCEPT ![c].checked[call[c].step] = h])
    /\ UNCHANGED spoiled

GateRefuses(c, h) ==
    /\ Refuses(call[c], host[h])
    /\ Carry(c, call[c].step, h, Done(c, "error"))
    /\ UNCHANGED spoiled

Wipe(c, h) ==
    /\ At(c, "wipe")
    /\ Carry(c, "wipe", h, Goto(c, IF call[c].tool = "partition_disk" THEN "table" ELSE "mkfs"))
    /\ UNCHANGED spoiled

\* partition_disk gives up if wipefs fails; format_disk does not look.
WipeFails(c, h) ==
    /\ At(c, "wipe")
    /\ Carry(c, "wipe", h, IF call[c].tool = "partition_disk" THEN Done(c, "error")
                           ELSE Goto(c, "mkfs"))
    /\ UNCHANGED spoiled

\* A file system is made only if one was asked for.
Table(c, h) ==
    /\ At(c, "table")
    /\ \E f \in { Goto(c, "mkfs"), Done(c, "success"), Done(c, "error") } :
          Carry(c, "table", h, f)
    /\ UNCHANGED spoiled

Mkfs(c, h) ==
    /\ At(c, "mkfs")
    /\ Carry(c, "mkfs", h, Done(c, "success"))
    /\ UNCHANGED spoiled

MkfsFails(c, h) ==
    /\ At(c, "mkfs")
    /\ Carry(c, "mkfs", h,
             Done(c, IF call[c].tool = "partition_disk" THEN "partial_success" ELSE "error"))
    /\ UNCHANGED spoiled

\* create_mount_point wants the path free, unmount_path wants it mounted.
PathChecked(c, h) ==
    /\ At(c, "path")
    /\ LET mounted == call[c].path \in host[h].mounts
           wanted == call[c].tool = "unmount_path"
           next == IF wanted THEN "umount" ELSE "mount"
       IN  Carry(c, "path", h, IF mounted = wanted THEN Goto(c, next) ELSE Done(c, "error"))
    /\ UNCHANGED spoiled

DoMount(c, h) ==
    /\ At(c, "mount")
    /\ Carry(c, "mount", h, Goto(c, "verify"))
    /\ UNCHANGED spoiled

Verify(c, h) ==
    /\ At(c, "verify")
    /\ \E f \in IF call[c].path \in host[h].mounts
                THEN { Goto(c, "backup"), Done(c, "success") } ELSE { Done(c, "error") } :
          Carry(c, "verify", h, f)
    /\ UNCHANGED spoiled

\* The fstab entry is removed if that was asked for.
DoUnmount(c, h) ==
    /\ At(c, "umount")
    /\ \E f \in { Goto(c, "backup"), Done(c, "success") } : Carry(c, "umount", h, f)
    /\ UNCHANGED spoiled

\* The device is not there (test -b), or has no file system, or mkdir, mount or umount
\* exits with a failure.
CommandFails(c, h) ==
    /\ call[c].step \in { "boot", "target", "path", "mount", "umount" }
    /\ Carry(c, "none", h, Done(c, "error"))
    /\ UNCHANGED spoiled

\* The change of fstab that comes after the backup.
Edit(c) == IF call[c].tool = "unmount_path" THEN "sed" ELSE "append"

\* c goes on to that change; b is the newest backup now.
Begun(c, h, b) == [Goto(c, Edit(c)) EXCEPT ![c].before = host[h].fstab, ![c].bak = b]

Backup(c, h) ==
    /\ At(c, "backup")
    /\ Carry(c, "backup", h, Begun(c, h, {host[h].fstab}))
    /\ UNCHANGED spoiled

\* cp fails: nobody looks, and the newest backup is an older one.
BackupFails(c, h) ==
    /\ At(c, "backup")
    /\ Carry(c, "none", h, Begun(c, h, host[h].backup))
    /\ UNCHANGED spoiled

AppendLine(c, h) ==
    /\ At(c, "append")
    /\ Carry(c, "append", h, Goto(c, "validate"))
    /\ UNCHANGED spoiled

\* sed -i has read the file; it goes on where it is.
SedReads(c, h) ==
    /\ At(c, "sed")
    /\ Carry(c, "sed", h, [Goto(c, "replace") EXCEPT ![c].runsAt = h])
    /\ UNCHANGED spoiled

\* What c read of fstab on host h is not what is there now.
Outdated(c, h) == call[c].read # host[h].fstab

SedReplaces(c, h) ==
    /\ At(c, "replace")
    /\ Carry(c, "replace", h, [Goto(c, "validate") EXCEPT ![c].runsAt = NoPath])
    /\ spoiled' = (spoiled \/ Outdated(c, h))

\* The handler ends with success in any case, saying whether the entry is (not) there.
EndFstab(c, h, listed) ==
    [call EXCEPT ![c].step = "done", ![c].answer = "success", ![c].listed = listed,
                 ![c].after = Effect(c, call[c].step, host[h]).fstab]

EditFails(c, h) ==
    /\ call[c].step \in { "append", "sed", "replace" }
    /\ Carry(c, "none", h,
             [call EXCEPT ![c].step = "done", ![c].answer = "success", ![c].runsAt = NoPath,
                          ![c].after = host[h].fstab])
    /\ UNCHANGED spoiled

\* Mutant of Validate: the result of mount -a --fake is not looked at.
ValidateIgnored(c, h) ==
    /\ At(c, "validate")
    /\ Carry(c, "validate", h, EndFstab(c, h, FstabValid(host[h])))
    /\ UNCHANGED spoiled

Validate(c, h) ==
    /\ At(c, "validate")
    /\ Carry(c, "validate", h,
             IF FstabValid(host[h]) THEN EndFstab(c, h, TRUE) ELSE Goto(c, "rollback"))
    /\ UNCHANGED spoiled

\* The newest backup on host h is the one that c has made there.
OwnBackup(c, h) ==
    LET d == Noted(call, c, "rollback", h)[c]
    IN  d.sound /\ d.hosts = {h} /\ d.bak = {d.before}

\* The newest backup is restored, whoever made it.
Rollback(c, h) ==
    /\ At(c, "rollback")
    /\ host[h].backup # {}
    /\ Carry(c, "rollback", h, [EndFstab(c, h, FALSE) EXCEPT ![c].undo = "restored"])
    /\ spoiled' = (spoiled \/ ~OwnBackup(c, h))

\* cp fails, or there is no backup: nobody looks.
RollbackFails(c, h) ==
    /\ At(c, "rollback")
    /\ Carry(c, "none", h,
             [call EXCEPT ![c].step = "done", ![c].answer = "success", ![c].undo = "failed",
                          ![c].after = host[h].fstab])
    /\ UNCHANGED spoiled

\* SSHExecutionError: the tool is over, the command may go on.
Raise(c, h) ==
    /\ call[c].step \in Steps
    /\ call' = [Done(c, "error") EXCEPT
                  ![c].late = IF call[c].step \in Changing THEN call[c].step ELSE "none",
                  ![c].runsAt = IF call[c].step \in Changing THEN h ELSE NoPath,
                  ![c].hosts = @ \union {h}]
    /\ UNCHANGED <<disk, route, host, spoiled>>

\* The command nobody waits for any more takes effect, or never will; sed does in two.
Settled(c) == [call EXCEPT ![c].late = "none", ![c].runsAt = NoPath]

Land(c) ==
    /\ call[c].late # "none"
    /\ Carry(c, call[c].late, call[c].runsAt,
             IF call[c].late = "sed" THEN [call EXCEPT ![c].late = "replace"] ELSE Settled(c))
    /\ spoiled' = \/ spoiled
                  \/ call[c].late = "rollback"
                  \/ call[c].late = "replace" /\ Outdated(c, call[c].runsAt)

Lapse(c) ==
    /\ call[c].late # "none"
    /\ call' = Settled(c)
    /\ UNCHANGED <<disk, route, host, spoiled>>

\* An operator takes the disk, or a part of it, into use.
Operate(h, u) ==
    /\ u \notin host[h].uses
    /\ host' = [host EXCEPT ![h].uses = @ \union {u}]
    /\ call' = [d \in Call |-> [call[d] EXCEPT !.began = Begin(call[d], h, u)]]
    /\ UNCHANGED <<disk, route, spoiled>>

\* Mutant of Reroute: there is no host to fall back to.
RerouteNowhere ==
    /\ route' = Tail(route)
    /\ UNCHANGED <<disk, host, call, spoiled>>

\* The node's name begins, or ceases, to resolve.
Reroute ==
    /\ Len(route) > 1
    /\ route' = Tail(route)
    /\ UNCHANGED <<disk, host, call, spoiled>>

Command(c, h) ==
    \/ Gate(c, h) \/ GateRefuses(c, h) \/ Wipe(c, h) \/ WipeFails(c, h) \/ Table(c, h)
    \/ Mkfs(c, h) \/ MkfsFails(c, h) \/ PathChecked(c, h) \/ DoMount(c, h) \/ Verify(c, h)
    \/ DoUnmount(c, h) \/ CommandFails(c, h) \/ Backup(c, h) \/ BackupFails(c, h)
    \/ AppendLine(c, h) \/ SedReads(c, h) \/ SedReplaces(c, h) \/ EditFails(c, h)
    \/ Validate(c, h) \/ Rollback(c, h) \/ RollbackFails(c, h) \/ Raise(c, h)

\* The host that the next step of c's commands is done on.
HostOf(c) == IF At(c, "replace") THEN call[c].runsAt ELSE Head(route)

Next ==
    \/ \E c \in Call :
          \/ Partition(c) \/ Format(c) \/ Mount(c) \/ Unmount(c) \/ Land(c) \/ Lapse(c)
          \/ Command(c, HostOf(c))
    \/ Reroute
    \/ \E h \in Host, u \in NewUses : Operate(h, u)

Spec == Init /\ [][Next]_vars

----------------------------------------------------------------------------
\* Properties

\* All of c's commands have reached one host.
OneHost(c) == \E h \in Host : call[c].hosts \subseteq {h}

\* When a command that destroys data is sent to a host where the disk, or partition,
\* has a use that a check of the tool finds, then the use began after the tool was
\* called, or that check was passed on another host, which the node's name led to
\* then: the tool makes all of its checks before, and nothing is held between them
\* and wipefs (partition_disk, format_disk).
HitsOnlyUnseen ==
    \A c \in Call : \A hu \in call[c].hit \ call[c].began : \A s \in GatesOf(call[c].tool) :
        hu[2] \in SeenBy(call[c], s) => call[c].checked[s] \notin {hu[1], NoPath}

\* The uses that the disk had before c was called, and that c has hit on a host that
\* it passed all of its checks on.
HitBefore(c) ==
    { hu[2] : hu \in { x \in call[c].hit \ call[c].began :
                         \A s \in GatesOf(call[c].tool) : call[c].checked[s] = x[1] } }

\* "Reject if any partition on the device is mounted as /, /boot, or /boot/efi", says
\* _check_not_boot_disk, and "Check if any partition on the device is mounted, in LVM,
\* ZFS, or MD RAID", says _check_not_in_use.  It does not hold: neither pattern names
\* the partitions of an nvme disk, and grep -w looks for the name of the whole disk.
UsedDisksKept ==
    \A c \in Call : call[c].tool = "partition_disk" =>
        HitBefore(c) \intersect { "boot", "part", "memberPart" } = {}

\* Call c has changed /etc/fstab, or tried to, with no other call at it, and answered.
AloneAtFstab(c) ==
    /\ call[c].answer = "success"
    /\ call[c].before # {}
    /\ call[c].sound
    /\ OneHost(c)

\* fstab with the change that c was asked for.
Edited(c) ==
    IF call[c].tool = "unmount_path" THEN NotAt(call[c].before, call[c].path)
    ELSE call[c].before \union {LineOf(c)}

\* A call that is alone at /etc/fstab leaves it with its change, and no other, if it
\* answers that the entry was added (removed), or if the cp of its rollback failed.
\* Otherwise it leaves it as it found it if its own backup was made, or if it had
\* nothing to roll back; and as the newest backup has it if not (create_mount_point,
\* unmount_path).
FstabAllOrNothing ==
    \A c \in Call : AloneAtFstab(c) =>
        call[c].after = IF call[c].listed \/ call[c].undo = "failed" THEN Edited(c)
                        ELSE IF call[c].undo = "restored" THEN UNION call[c].bak
                        ELSE call[c].before

\* No call removes entries of c's path.
PathKept(c) == \A d \in Call : call[d].tool = "unmount_path" => call[d].path # call[c].path

\* c has reported its entry as added, and all of its commands reached one host.
Added(c) ==
    /\ call[c].tool = "create_mount_point"
    /\ call[c].listed
    /\ OneHost(c)

\* An entry that create_mount_point reported as added stays in /etc/fstab of the host
\* it was added on while no call removes entries of its path, whatever other calls
\* add, remove and roll back, unless a call restored a backup that it had not just
\* made, or a sed replaced the file by what it had read before another call wrote.
AddedEntriesStay ==
    \A c \in Call : Added(c) /\ PathKept(c) /\ ~spoiled =>
        \E h \in call[c].hosts : LineOf(c) \in host[h].fstab

\* The administrator's line of /etc/fstab is lost only if a call restored a backup that
\* it had not just made, or a sed replaced the file by what it had read before another
\* call wrote: all other edits, failed edits and rollbacks of any number of calls keep
\* it on every host (create_mount_point, unmount_path).
AdminLineStays == ~spoiled => \A h \in Host : AdminLine \in host[h].fstab

\* An entry that create_mount_point reported as added is one that mount -a accepts,
\* under the conditions of AddedEntriesStay: no other call took it out before it was
\* validated.
ReportedEntriesValid ==
    \A c \in Call : Added(c) /\ PathKept(c) /\ ~spoiled => call[c].valid
=============================================================================
