-------------------------- MODULE DiskToolsProofs --------------------------
(***************************************************************************)
(* The invariants of DiskTools hold for any numbers of calls, hosts and    *)
(* mount paths, any route of the node's name and any uses of the disk.     *)
(***************************************************************************)
EXTENDS DiskTools, TLAPS, SequenceTheorems

\* What call c wrote, or will write, to fstab, going by its record r.
LineBy(c, r) == [by |-> c, path |-> r.path, valid |-> r.valid]

\* What fstab is after c's edit of what it had found.
EditedBy(c, r) ==
    IF r.tool = "unmount_path" THEN NotAt(r.before, r.path) ELSE r.before \union {LineBy(c, r)}

\* A call that is to destroy what is on the disk, or may still do so.
Destroying(r) == r.step \in Destructive \/ r.late \in Destructive
Looking(r) == r.step \in Gates \/ Destroying(r)

AtOneHost(r) == \E h \in Host : r.hosts \subseteq {h}

\* What holds of the record of one call: which steps belong to which tool, and what
\* it has not done yet.
Fine(r) ==
    /\ r.step \in { "boot", "mounts", "members", "table" } => r.tool = "partition_disk"
    /\ r.step = "target" => r.tool = "format_disk"
    /\ Destroying(r) => r.tool \in Destroyers
    /\ r.step \in { "mount", "verify", "append" } => r.tool = "create_mount_point"
    /\ r.late = "mount" => r.tool = "create_mount_point"
    /\ r.tool \in { "create_mount_point", "unmount_path" } => r.path \in Path
    /\ r.step \in { "sed", "replace" } \/ r.late \in { "sed", "replace" }
       => r.tool = "unmount_path"
    /\ r.step = "path" => r.tool \in { "create_mount_point", "unmount_path" }
    /\ r.step = "umount" => r.tool = "unmount_path"
    /\ r.step \in FstabSteps \union { "backup" }
       => r.tool \in { "create_mount_point", "unmount_path" }
    /\ r.step \in Gates => r.hit = {}
    /\ r.step \in FstabSteps => r.hosts # {}
    /\ r.step = "replace" \/ r.late # "none" => r.runsAt \in r.hosts
    /\ r.late # "none" => r.step = "done" /\ r.answer = "error"
    /\ r.step # "done" => r.answer = "none" /\ ~r.listed /\ r.undo = "none"
    /\ r.step \notin FstabSteps \union { "done" } => r.before = {}
    /\ r.listed => r.answer = "success" /\ r.hosts # {}

\* The checks that a call has passed, going by what it does next.
Passed(r) ==
    /\ r.step \in { "mounts", "members" } => r.checked["boot"] \in Host
    /\ r.step = "members" => r.checked["mounts"] \in Host
    /\ Destroying(r) => \A s \in GatesOf(r.tool) : r.checked[s] \in Host

\* A use that a check looks for was not there when the check was passed.
Unseen(r, hosts) ==
    Looking(r) =>
        \A s \in GatesOf(r.tool) : r.checked[s] \in Host =>
            \A u \in UsesOf(hosts[r.checked[s]]) \intersect SeenBy(r, s) :
                <<r.checked[s], u>> \in r.began

\* HitsOnlyUnseen, of one call.
HitUnseen(r) ==
    \A hu \in r.hit \ r.began : \A s \in GatesOf(r.tool) :
        hu[2] \in SeenBy(r, s) => r.checked[s] \notin {hu[1], NoPath}

\* A call that has fstab to itself finds there what it left, and the newest backup
\* that it has seen; its sed has read what it found.
Kept(c, r, hosts) ==
    r.sound /\ AtOneHost(r) /\ r.step \in FstabSteps =>
        /\ r.step = "replace" => r.read = r.before
        /\ \A h \in r.hosts :
               /\ hosts[h].backup = r.bak
               /\ hosts[h].fstab = IF r.step \in { "append", "sed", "replace" } THEN r.before
                                   ELSE EditedBy(c, r)

\* FstabAllOrNothing, of one call.
Whole(c, r) ==
    r.answer = "success" /\ r.before # {} /\ r.sound /\ AtOneHost(r) =>
        r.after = IF r.listed \/ r.undo = "failed" THEN EditedBy(c, r)
                  ELSE IF r.undo = "restored" THEN UNION r.bak
                  ELSE r.before

\* AddedEntriesStay, of one call and from the append on.
Stays(c, r, hosts, calls, bad) ==
    /\ r.tool = "create_mount_point"
    /\ r.step = "validate" \/ r.listed
    /\ AtOneHost(r)
    /\ ~bad
    /\ \A d \in Call : calls[d].tool = "unmount_path" => calls[d].path # r.path
    => \A h \in r.hosts : LineBy(c, r) \in hosts[h].fstab

\* ReportedEntriesValid, of one call.
Accepted(r, calls, bad) ==
    /\ r.tool = "create_mount_point"
    /\ r.listed
    /\ AtOneHost(r)
    /\ ~bad
    /\ \A d \in Call : calls[d].tool = "unmount_path" => calls[d].path # r.path
    => r.valid

\* What a call has found in fstab has the administrator's line.
Remembers(r, bad) == ~bad /\ r.step \in FstabSteps => AdminLine \in r.before

Good(c, r, hosts, calls, bad) ==
    /\ Fine(r)
    /\ Passed(r)
    /\ Unseen(r, hosts)
    /\ HitUnseen(r)
    /\ Kept(c, r, hosts)
    /\ Whole(c, r)
    /\ Stays(c, r, hosts, calls, bad)
    /\ Accepted(r, calls, bad)
    /\ Remembers(r, bad)

\* The inductive invariant.
IInv ==
    /\ TypeOK
    /\ AdminLineStays
    /\ \A c \in Call : Good(c, call[c], host, call, spoiled)

----------------------------------------------------------------------------

\* The names of steps, tools and answers are what they are.
LEMMA Names ==
    /\ {"boot", "mounts", "members", "target", "wipe", "table", "mkfs", "path", "mount",
        "verify", "umount", "backup", "append", "sed", "replace", "validate", "rollback"}
       = Steps
    /\ "idle" \in Steps \union {"idle", "done"} /\ "done" \in Steps \union {"idle", "done"}
    /\ Steps \subseteq Steps \union {"idle", "done"}
    /\ Gates \subseteq Steps
    /\ Changing \subseteq Steps /\ Changing \subseteq Changing \union {"none"}
    /\ "none" \in Changing \union {"none"} /\ FstabSteps \subseteq Steps
    /\ Destructive \subseteq Changing
    /\ "none" \in Answers /\ "success" \in Answers /\ "partial_success" \in Answers
    /\ "error" \in Answers
    /\ "partition_disk" \in Tools /\ "format_disk" \in Tools
    /\ "create_mount_point" \in Tools /\ "unmount_path" \in Tools
    /\ "none" \notin Steps /\ "none" \notin Changing
    /\ "idle" \notin Steps /\ "done" \notin Steps
BY DEF Steps, Gates, Changing, Destructive, FstabSteps, Answers, Tools

\* A call that has not been made is well formed.
LEMMA NoCallTyped == NoCall \in CallState
<1>1. /\ "idle" \in Steps \union {"idle", "done"} /\ "none" \in Changing \union {"none"}
      /\ "none" \in Answers
  BY Names
<1>2. {} \in Backups
  BY DEF Backups
<1>3. QED
  BY <1>1, <1>2 DEF NoCall, CallState

\* The fields of a record.
LEMMA Fields ==
    ASSUME NEW x \in CallState
    PROVE  /\ x.tool \in Tools \union {"none"} /\ x.step \in Steps \union {"idle", "done"}
           /\ x.path \in Path \union {NoPath} /\ x.valid \in BOOLEAN
           /\ x.hosts \in SUBSET Host /\ x.checked \in [Gates -> Host \union {NoPath}]
           /\ x.began \in SUBSET (Host \X Uses) /\ x.hit \in SUBSET (Host \X Uses)
           /\ x.late \in Changing \union {"none"} /\ x.runsAt \in Host \union {NoPath}
           /\ x.read \in SUBSET Line /\ x.before \in SUBSET Line /\ x.bak \in Backups
           /\ x.undo \in { "none", "restored", "failed" } /\ x.after \in SUBSET Line
           /\ x.sound \in BOOLEAN /\ x.listed \in BOOLEAN /\ x.answer \in Answers
BY DEF CallState

\* Whatever is at a host, its uses are uses.
LEMMA UsesTyped == ASSUME NEW r \in HostState PROVE UsesOf(r) \subseteq Uses
BY DEF HostState, UsesOf, Uses

\* A history that is written anew.
LEMMA HistoryTyped ==
    ASSUME NEW x \in CallState, NEW a \in SUBSET Host, NEW b \in SUBSET (Host \X Uses),
           NEW e \in SUBSET Line, NEW g \in SUBSET (Host \X Uses), NEW s \in BOOLEAN
    PROVE  [x EXCEPT !.hosts = a, !.hit = b, !.read = e, !.began = g, !.sound = s]
           \in CallState
BY ZenonT(60) DEF CallState

\* Records y and x agree on all but the history that commands write.
Same(y, x) ==
    /\ y.tool = x.tool /\ y.step = x.step /\ y.aim = x.aim /\ y.path = x.path
    /\ y.valid = x.valid /\ y.checked = x.checked /\ y.late = x.late /\ y.runsAt = x.runsAt
    /\ y.before = x.before /\ y.bak = x.bak /\ y.undo = x.undo /\ y.after = x.after
    /\ y.listed = x.listed /\ y.answer = x.answer

\* What a command adds to the histories.
LEMMA NotedFields ==
    ASSUME TypeOK, NEW f \in [Call -> CallState], NEW c \in Call, NEW d \in Call,
           NEW h \in Host, NEW cmd
    PROVE  /\ Noted(f, c, cmd, h)[d] \in CallState
           /\ Same(Noted(f, c, cmd, h)[d], f[d])
           /\ d = c => Noted(f, c, cmd, h)[d].hosts = f[d].hosts \union {h}
           /\ d # c => Noted(f, c, cmd, h)[d].hosts = f[d].hosts
           /\ d = c /\ cmd \in Destructive
              => Noted(f, c, cmd, h)[d].hit \subseteq f[d].hit \union ({h} \X UsesOf(host[h]))
           /\ d # c \/ cmd \notin Destructive => Noted(f, c, cmd, h)[d].hit = f[d].hit
           /\ d = c /\ cmd = "sed" => Noted(f, c, cmd, h)[d].read = host[h].fstab
           /\ d # c \/ cmd # "sed" => Noted(f, c, cmd, h)[d].read = f[d].read
           /\ Noted(f, c, cmd, h)[d].began =
                  IF cmd = "mount" THEN Begin(f[d], h, "part") ELSE f[d].began
           /\ Noted(f, c, cmd, h)[d].sound =>
                  /\ f[d].sound
                  /\ cmd \in FstabSteps \union {"backup"}
                     => IF d = c THEN \A e \in Call \ {c} : ~InFstab(e) ELSE ~InFstab(d)
<1> DEFINE x == f[d]
           y == Noted(f, c, cmd, h)[d]
           a == IF d = c THEN x.hosts \union {h} ELSE x.hosts
           b == IF d = c /\ cmd \in Destructive
                THEN x.hit \union ({h} \X Destroys(x, host[h])) ELSE x.hit
           e == IF d = c /\ cmd = "sed" THEN host[h].fstab ELSE x.read
           g == IF cmd = "mount" THEN Begin(x, h, "part") ELSE x.began
           s == IF cmd \in FstabSteps \union {"backup"}
                THEN x.sound /\ IF d = c THEN \A k \in Call \ {c} : ~InFstab(k) ELSE ~InFstab(d)
                ELSE x.sound
<1>1. x \in CallState
  OBVIOUS
<1>2. y = [x EXCEPT !.hosts = a, !.hit = b, !.read = e, !.began = g, !.sound = s]
  BY Zenon DEF Noted
<1>3. a \in SUBSET Host
  BY <1>1, Fields
<1>4. UsesOf(host[h]) \subseteq Uses /\ Destroys(x, host[h]) \subseteq UsesOf(host[h])
  BY UsesTyped DEF TypeOK, Destroys
<1>5. b \in SUBSET (Host \X Uses)
  BY <1>1, <1>4, Fields
<1>6. g \in SUBSET (Host \X Uses)
  <2>1. <<h, "part">> \in Host \X Uses
    BY DEF Uses
  <2>2. x.began \in SUBSET (Host \X Uses)
    BY <1>1, Fields
  <2>3. QED
    BY <2>1, <2>2 DEF Begin
<1>7. PICK t \in BOOLEAN : t = s
  BY <1>1, Fields
<1>8. e \in SUBSET Line
  BY <1>1, Fields DEF TypeOK, HostState
<1>9. b \subseteq x.hit \union ({h} \X UsesOf(host[h]))
  BY <1>4
<1> HIDE DEF a, b, e, g, s, x, y
<1>10. y = [x EXCEPT !.hosts = a, !.hit = b, !.read = e, !.began = g, !.sound = t]
  BY <1>2, <1>7
<1>11. y \in CallState
  BY <1>1, <1>3, <1>5, <1>6, <1>7, <1>8, <1>10, HistoryTyped
<1>12. /\ Same(y, x)
       /\ y.hosts = a /\ y.hit = b /\ y.read = e /\ y.began = g /\ y.sound = t
  BY <1>1, <1>10 DEF CallState, Same
<1>13. y.sound => x.sound /\ (cmd \in FstabSteps \union {"backup"}
                   => IF d = c THEN \A k \in Call \ {c} : ~InFstab(k) ELSE ~InFstab(d))
  <2>1. y.sound => s
    BY <1>7, <1>12
  <2>2. QED
    BY <2>1, Zenon DEF s
<1>14. QED
  BY <1>9, <1>11, <1>12, <1>13, Zenon DEF a, b, e, g, x, y

\* What command cmd of call c makes of host r, in its parts.
Alters(c, cmd, r, e) ==
    /\ cmd = "mount" => UsesOf(e) \subseteq UsesOf(r) \union {"part"}
    /\ cmd # "mount" => UsesOf(e) \subseteq UsesOf(r)
    /\ cmd = "backup" => e.backup = {r.fstab}
    /\ cmd # "backup" => e.backup = r.backup
    /\ cmd = "append" => e.fstab = r.fstab \union {LineBy(c, call[c])}
    /\ cmd = "replace" => e.fstab = NotAt(call[c].read, call[c].path)
    /\ cmd = "rollback" /\ r.backup # {} => e.fstab = UNION r.backup
    /\ cmd \notin { "append", "replace", "rollback" } => e.fstab = r.fstab

\* What each command does to the host it runs on, whether or not its caller waits.
LEMMA EffectAlters ==
    ASSUME TypeOK, NEW c \in Call, NEW cmd, NEW r \in HostState,
           cmd = "mount" => call[c].path \in Path
    PROVE  Effect(c, cmd, r) \in HostState /\ Alters(c, cmd, r, Effect(c, cmd, r))
<1> DEFINE e == Effect(c, cmd, r)
<1>1. /\ call[c].path \in Path \union {NoPath} /\ call[c].valid \in BOOLEAN
      /\ call[c].read \in SUBSET Line
  BY Fields DEF TypeOK
<1>2. /\ r.uses \in SUBSET Uses /\ r.mounts \in SUBSET Path /\ r.fstab \in SUBSET Line
      /\ r.backup \in Backups
  BY DEF HostState
<1>3. LineOf(c) = LineBy(c, call[c]) /\ LineOf(c) \in Line
  BY <1>1 DEF LineOf, LineBy, Line
<1>4. \A m \in SUBSET Path : LET y == [r EXCEPT !.mounts = m]
      IN  /\ y \in HostState /\ y.uses = r.uses /\ y.mounts = m /\ y.fstab = r.fstab
          /\ y.backup = r.backup
  BY DEF HostState
<1>5. \A l \in SUBSET Line : LET y == [r EXCEPT !.fstab = l]
      IN  /\ y \in HostState /\ y.uses = r.uses /\ y.mounts = r.mounts /\ y.fstab = l
          /\ y.backup = r.backup
  BY DEF HostState
<1>6. \A b \in Backups : LET y == [r EXCEPT !.backup = b]
      IN  /\ y \in HostState /\ y.uses = r.uses /\ y.mounts = r.mounts /\ y.fstab = r.fstab
          /\ y.backup = b
  BY DEF HostState
<1>7. CASE cmd = "mount"
  <2>1. e = [r EXCEPT !.mounts = @ \union {call[c].path}]
    BY <1>7 DEF Effect
  <2>2. r.mounts \union {call[c].path} \in SUBSET Path
    BY <1>2, <1>7
  <2>3. QED
    BY <1>4, <1>7, <2>1, <2>2 DEF UsesOf, Alters
<1>8. CASE cmd = "umount"
  <2>1. e = [r EXCEPT !.mounts = @ \ {call[c].path}]
    BY <1>8 DEF Effect
  <2>2. r.mounts \ {call[c].path} \in SUBSET Path
    BY <1>2
  <2>3. QED
    BY <1>4, <1>8, <2>1, <2>2 DEF UsesOf, Alters
<1>9. CASE cmd = "backup"
  <2>1. e = [r EXCEPT !.backup = {r.fstab}]
    BY <1>9 DEF Effect
  <2>2. {r.fstab} \in Backups
    BY <1>2 DEF Backups
  <2>3. QED
    BY <1>6, <1>9, <2>1, <2>2, ZenonT(60) DEF UsesOf, Alters
<1>10. CASE cmd = "append"
  <2>1. e = [r EXCEPT !.fstab = @ \union {LineOf(c)}]
    BY <1>10 DEF Effect
  <2>2. r.fstab \union {LineOf(c)} \in SUBSET Line
    BY <1>2, <1>3
  <2>3. QED
    BY <1>3, <1>5, <1>10, <2>1, <2>2, ZenonT(60) DEF UsesOf, Alters
<1>11. CASE cmd = "replace"
  <2>1. e = [r EXCEPT !.fstab = NotAt(call[c].read, call[c].path)]
    BY <1>11 DEF Effect
  <2>2. NotAt(call[c].read, call[c].path) \in SUBSET Line
    BY <1>1 DEF NotAt
  <2>3. QED
    BY <1>5, <1>11, <2>1, <2>2, ZenonT(60) DEF UsesOf, Alters
<1>12. CASE cmd = "rollback"
  <2>1. e = [r EXCEPT !.fstab = IF r.backup = {} THEN @ ELSE UNION r.backup]
    BY <1>12 DEF Effect
  <2>2. (IF r.backup = {} THEN r.fstab ELSE UNION r.backup) \in SUBSET Line
    BY <1>2 DEF Backups
  <2>3. QED
    BY <1>5, <1>12, <2>1, <2>2, ZenonT(60) DEF UsesOf, Alters
<1>13. CASE cmd \notin { "mount", "umount", "backup", "append", "replace", "rollback" }
  <2>1. e = r
    BY <1>13 DEF Effect
  <2>2. QED
    BY <1>13, <2>1 DEF Alters
<1>14. QED
  BY <1>7, <1>8, <1>9, <1>10, <1>11, <1>12, <1>13

\* Records x and r are of the same call.
Kin(x, r) == x.tool = r.tool /\ x.aim = r.aim /\ x.path = r.path /\ x.valid = r.valid

\* A step of call c that a command of it on host h makes: c's record becomes x.
Makes(c, cmd, h, x) ==
    /\ Carry(c, cmd, h, [call EXCEPT ![c] = x])
    /\ x \in CallState /\ Kin(x, call[c])
    /\ spoiled' \in BOOLEAN /\ (spoiled => spoiled')
    /\ cmd \in { "mount" } => call[c].path \in Path

\* Where the hosts are after it.
LEMMA HostsAfter ==
    ASSUME TypeOK, NEW c \in Call, NEW cmd, NEW h \in Host, NEW x, Makes(c, cmd, h, x)
    PROVE  /\ host' \in [Host -> HostState]
           /\ Alters(c, cmd, host[h], host'[h])
           /\ \A k \in Host \ {h} : host'[k] = host[k]
<1> DEFINE e == Effect(c, cmd, host[h])
<1>1. host \in [Host -> HostState]
  BY DEF TypeOK
<1>2. e \in HostState /\ Alters(c, cmd, host[h], e)
  BY <1>1, EffectAlters DEF Makes
<1>3. host' = [host EXCEPT ![h] = e]
  BY DEF Makes, Carry
<1> HIDE DEF e
<1>4. QED
  BY <1>1, <1>2, <1>3

\* What is noted when the command has made record x: record y.
Becomes(x, cmd, h, y) ==
    /\ Same(y, x)
    /\ y.hosts = x.hosts \union {h}
    /\ cmd \in Destructive => y.hit \subseteq x.hit \union ({h} \X UsesOf(host[h]))
    /\ cmd \notin Destructive => y.hit = x.hit
    /\ cmd = "sed" => y.read = host[h].fstab
    /\ cmd # "sed" => y.read = x.read
    /\ y.began = IF cmd = "mount" THEN Begin(x, h, "part") ELSE x.began

\* What call c is doing after it.  It is sound only if it was before, and had fstab to
\* itself.
LEMMA OwnAfter ==
    ASSUME TypeOK, NEW c \in Call, NEW cmd, NEW h \in Host, NEW x, Makes(c, cmd, h, x)
    PROVE  /\ call'[c] \in CallState
           /\ Becomes(x, cmd, h, call'[c])
           /\ call'[c].sound => x.sound
<1> DEFINE f == [call EXCEPT ![c] = x]
<1>1. f \in [Call -> CallState] /\ f[c] = x
  BY DEF TypeOK, Makes
<1>2. call' = Noted(f, c, cmd, h)
  BY DEF Makes, Carry
<1> HIDE DEF f
<1>3. QED
  BY <1>1, <1>2, NotedFields DEF Becomes

\* And what another call is doing.
LEMMA OtherAfter ==
    ASSUME TypeOK, NEW c \in Call, NEW cmd, NEW h \in Host, NEW x, Makes(c, cmd, h, x),
           NEW d \in Call, d # c
    PROVE  /\ call'[d] \in CallState
           /\ Same(call'[d], call[d])
           /\ call'[d].hosts = call[d].hosts /\ call'[d].hit = call[d].hit
           /\ call'[d].read = call[d].read
           /\ call'[d].began = IF cmd = "mount" THEN Begin(call[d], h, "part")
                               ELSE call[d].began
           /\ call'[d].sound =>
                  call[d].sound /\ (cmd \in FstabSteps \union {"backup"} => ~InFstab(d))
<1> DEFINE f == [call EXCEPT ![c] = x]
<1>1. f \in [Call -> CallState] /\ f[d] = call[d]
  BY DEF TypeOK, Makes
<1>2. call' = Noted(f, c, cmd, h)
  BY DEF Makes, Carry
<1> HIDE DEF f
<1>3. QED
  BY <1>1, <1>2, NotedFields

\* A step of a call keeps the types, and what every call was made for.
LEMMA TypedAfter ==
    ASSUME TypeOK, NEW c \in Call, NEW cmd, NEW h \in Host, NEW x, Makes(c, cmd, h, x)
    PROVE  /\ TypeOK'
           /\ \A d \in Call : call'[d].tool = call[d].tool /\ call'[d].path = call[d].path
<1>1. call' \in [Call -> CallState]
  <2>1. \A d \in Call : call'[d] \in CallState
    BY OwnAfter, OtherAfter
  <2>2. PICK f : call' = Noted(f, c, cmd, h)
    BY Zenon DEF Makes, Carry
  <2>3. call' = [d \in Call |-> call'[d]]
    BY <2>2 DEF Noted
  <2>4. QED
    BY <2>1, <2>3
<1>2. host' \in [Host -> HostState]
  BY HostsAfter
<1>3. spoiled' \in BOOLEAN
  BY DEF Makes
<1>4. disk' = disk /\ route' = route
  BY DEF Makes, Carry
<1>5. ASSUME NEW d \in Call
      PROVE  call'[d].tool = call[d].tool /\ call'[d].path = call[d].path
  <2>1. CASE d = c
    <3>1. Same(call'[c], x)
      BY OwnAfter DEF Becomes
    <3>2. QED
      BY <2>1, <3>1 DEF Same, Makes, Kin
  <2>2. CASE d # c
    BY <2>2, OtherAfter, ZenonT(60) DEF Same
  <2>3. QED
    BY <2>1, <2>2
<1>6. QED
  BY <1>1, <1>2, <1>3, <1>4, <1>5 DEF TypeOK

----------------------------------------------------------------------------
\* A step of one call keeps what holds of another.

\* A call that is looking at the disk notes every use that begins.
LEMMA LookingNotes ==
    ASSUME NEW r, Fine(r), Looking(r), NEW h, NEW u
    PROVE  <<h, u>> \in Begin(r, h, u)
<1>1. r.tool \in Destroyers
  BY DEF Fine, Looking, Destroyers, Gates
<1>2. Busy(r)
  BY Names DEF Looking, Destroying, Busy
<1>3. QED
  BY <1>1, <1>2 DEF Begin

\* What another call knows of the disk.
LEMMA OtherDisk ==
    ASSUME IInv, NEW c \in Call, NEW cmd, NEW h \in Host, NEW x, Makes(c, cmd, h, x),
           NEW d \in Call, d # c
    PROVE  /\ Fine(call'[d])
           /\ Passed(call'[d])
           /\ Unseen(call'[d], host')
           /\ HitUnseen(call'[d])
<1> DEFINE r == call[d]
           y == call'[d]
<1>1. TypeOK /\ Good(d, r, host, call, spoiled) /\ r \in CallState
  BY DEF IInv, TypeOK
<1>2. /\ Same(y, r) /\ y.hosts = r.hosts /\ y.hit = r.hit
      /\ y.began = IF cmd = "mount" THEN Begin(r, h, "part") ELSE r.began
  BY <1>1, OtherAfter, ZenonT(60)
<1>3. r.began \subseteq y.began
  BY <1>2 DEF Begin
<1>4. \A k \in Host : \A u \in UsesOf(host'[k]) :
          u \in UsesOf(host[k]) \/ (k = h /\ u = "part" /\ cmd = "mount")
  <2>1. Alters(c, cmd, host[h], host'[h]) /\ \A k \in Host \ {h} : host'[k] = host[k]
    BY <1>1, HostsAfter
  <2>2. QED
    BY <2>1 DEF Alters
<1> HIDE DEF r, y
<1>5. Fine(y) /\ Passed(y)
  BY <1>1, <1>2 DEF Good, Fine, Passed, Destroying, Same
<1>6. \A s : SeenBy(y, s) = SeenBy(r, s)
  BY <1>2 DEF SeenBy, Same
<1>7. Unseen(y, host')
  <2> SUFFICES ASSUME Looking(y), NEW s \in GatesOf(y.tool), y.checked[s] \in Host,
                      NEW u \in UsesOf(host'[y.checked[s]]) \intersect SeenBy(y, s)
               PROVE  <<y.checked[s], u>> \in y.began
    BY DEF Unseen
  <2>1. /\ Looking(r) /\ s \in GatesOf(r.tool) /\ y.checked[s] = r.checked[s]
        /\ u \in SeenBy(r, s)
    BY <1>2, <1>6 DEF Looking, Destroying, Same
  <2>2. CASE u \in UsesOf(host[r.checked[s]])
    BY <1>1, <1>3, <2>1, <2>2 DEF Good, Unseen
  <2>3. CASE r.checked[s] = h /\ u = "part" /\ cmd = "mount"
    BY <1>1, <1>2, <2>1, <2>3, LookingNotes DEF Good
  <2>4. QED
    BY <1>4, <2>1, <2>2, <2>3
<1>8. HitUnseen(y)
  <2> SUFFICES ASSUME NEW hu \in y.hit \ y.began, NEW s \in GatesOf(y.tool),
                      hu[2] \in SeenBy(y, s)
               PROVE  y.checked[s] \notin {hu[1], NoPath}
    BY DEF HitUnseen
  <2>1. hu \in r.hit \ r.began /\ s \in GatesOf(r.tool) /\ hu[2] \in SeenBy(r, s)
        /\ y.checked[s] = r.checked[s]
    BY <1>2, <1>3, <1>6 DEF Same
  <2>2. QED
    BY <1>1, <2>1 DEF Good, HitUnseen
<1>9. QED
  BY <1>5, <1>7, <1>8 DEF y

\* The commands that change fstab or its backup.
FstabCommands == { "backup", "append", "replace", "rollback" }

\* The commands that take lines out of fstab: sed has read what is there, and the
\* backup that is restored is the call's own, or fstab is spoiled.
Careful(c, cmd, h) ==
    /\ cmd = "replace" =>
           /\ call[c].tool = "unmount_path"
           /\ spoiled' \/ call[c].read = host[h].fstab
    /\ cmd = "rollback" =>
           \/ spoiled'
           \/ /\ call[c].step = "rollback" /\ call[c].sound /\ call[c].hosts = {h}
              /\ call[c].bak = {call[c].before}

\* A call that restores its own backup takes back its own change.
LEMMA OwnRollback ==
    ASSUME IInv, NEW c \in Call, NEW h \in Host, call[c].step = "rollback", call[c].sound,
           call[c].hosts = {h}, call[c].bak = {call[c].before}
    PROVE  /\ host[h].backup = {call[c].before}
           /\ host[h].fstab = EditedBy(c, call[c])
<1>1. AtOneHost(call[c]) /\ call[c].step \in FstabSteps
  BY DEF AtOneHost, FstabSteps
<1>2. Kept(c, call[c], host)
  BY DEF IInv, Good
<1>3. QED
  BY <1>1, <1>2 DEF Kept

\* What another call knows of fstab.
LEMMA OtherFstab ==
    ASSUME IInv, NEW c \in Call, NEW cmd, NEW h \in Host, NEW x, Makes(c, cmd, h, x),
           Careful(c, cmd, h), NEW d \in Call, d # c
    PROVE  /\ Kept(d, call'[d], host')
           /\ Whole(d, call'[d])
           /\ Stays(d, call'[d], host', call', spoiled')
           /\ Accepted(call'[d], call', spoiled')
           /\ Remembers(call'[d], spoiled')
<1> DEFINE r == call[d]
           y == call'[d]
<1>1. TypeOK /\ Good(d, r, host, call, spoiled) /\ r \in CallState
  BY DEF IInv, TypeOK
<1>2. /\ y.tool = r.tool /\ y.path = r.path /\ y.valid = r.valid /\ y.step = r.step
      /\ y.before = r.before /\ y.bak = r.bak /\ y.undo = r.undo /\ y.after = r.after
      /\ y.listed = r.listed /\ y.answer = r.answer /\ y.hosts = r.hosts /\ y.read = r.read
      /\ y.sound => r.sound /\ (cmd \in FstabSteps \union {"backup"} => ~InFstab(d))
  <2>1. /\ Same(y, r) /\ y.hosts = r.hosts /\ y.read = r.read
        /\ y.sound => r.sound /\ (cmd \in FstabSteps \union {"backup"} => ~InFstab(d))
    BY <1>1, OtherAfter
  <2>2. QED
    BY <2>1, Zenon DEF Same
<1>3. \A k \in Host \ {h} : host'[k] = host[k]
  BY <1>1, HostsAfter
<1>4. Alters(c, cmd, host[h], host'[h])
  BY <1>1, HostsAfter
<1>5. cmd \notin FstabCommands =>
          \A k \in Host : host'[k].fstab = host[k].fstab /\ host'[k].backup = host[k].backup
  BY <1>3, <1>4 DEF FstabCommands, Alters
<1>6. r.hosts \subseteq Host
  BY <1>1, Fields
<1>7. r.step \in FstabSteps => InFstab(d)
  BY DEF InFstab
<1>8. (\A e \in Call : call'[e].tool = "unmount_path" => call'[e].path # y.path)
      => \A e \in Call : call[e].tool = "unmount_path" => call[e].path # r.path
  BY <1>1, <1>2, TypedAfter
<1> HIDE DEF r, y
<1>9. AtOneHost(y) <=> AtOneHost(r)
  BY <1>2 DEF AtOneHost
<1>10. EditedBy(d, y) = EditedBy(d, r)
  BY <1>2 DEF EditedBy, LineBy
<1>11. Kept(d, y, host')
  <2> SUFFICES ASSUME y.sound, AtOneHost(y), y.step \in FstabSteps
               PROVE  /\ y.step = "replace" => y.read = y.before
                      /\ \A k \in y.hosts :
                            /\ host'[k].backup = y.bak
                            /\ host'[k].fstab =
                                   IF y.step \in { "append", "sed", "replace" } THEN y.before
                                   ELSE EditedBy(d, y)
    BY DEF Kept
  <2>1. cmd \notin FstabCommands
    BY <1>2, <1>7 DEF FstabCommands, FstabSteps
  <2>2. \A k \in Host : host'[k].fstab = host[k].fstab /\ host'[k].backup = host[k].backup
    BY <1>5, <2>1
  <2>3. /\ r.step = "replace" => r.read = r.before
        /\ \A k \in r.hosts :
              /\ host[k].backup = r.bak
              /\ host[k].fstab = IF r.step \in { "append", "sed", "replace" } THEN r.before
                                 ELSE EditedBy(d, r)
    BY <1>1, <1>2, <1>9 DEF Good, Kept
  <2>4. QED
    BY <1>2, <1>6, <1>10, <2>2, <2>3
<1>12. Whole(d, y)
  BY <1>1, <1>2, <1>9, <1>10 DEF Good, Whole
<1>13. Stays(d, y, host', call', spoiled')
  <2> SUFFICES ASSUME y.tool = "create_mount_point", y.step = "validate" \/ y.listed,
                      AtOneHost(y), ~spoiled',
                      \A e \in Call : call'[e].tool = "unmount_path" => call'[e].path # y.path,
                      NEW k \in y.hosts
               PROVE  LineBy(d, y) \in host'[k].fstab
    BY DEF Stays
  <2>1. \A e \in Call : call[e].tool = "unmount_path" => call[e].path # r.path
    BY <1>8
  <2>2. ~spoiled
    BY DEF Makes
  <2>3. LineBy(d, r) \in host[k].fstab /\ LineBy(d, y) = LineBy(d, r) /\ k \in Host
    BY <1>1, <1>2, <1>6, <1>9, <2>1, <2>2 DEF Good, Stays, LineBy
  <2>4. CASE k # h \/ cmd \notin FstabCommands
    BY <1>3, <1>5, <2>3, <2>4
  <2>5. CASE k = h /\ cmd = "backup"
    BY <1>4, <2>3, <2>5 DEF Alters
  <2>6. CASE k = h /\ cmd = "append"
    BY <1>4, <2>3, <2>6 DEF Alters
  <2>7. CASE k = h /\ cmd = "replace"
    <3>1. call[c].path # r.path /\ call[c].read = host[h].fstab
      BY <2>1, <2>7 DEF Careful
    <3>2. host'[h].fstab = NotAt(host[h].fstab, call[c].path)
      BY <1>4, <2>7, <3>1 DEF Alters
    <3>3. QED
      BY <2>3, <2>7, <3>1, <3>2 DEF NotAt, LineBy
  <2>8. CASE k = h /\ cmd = "rollback"
    <3>1. host[h].backup = {call[c].before} /\ host[h].fstab = EditedBy(c, call[c])
      BY <2>8, OwnRollback DEF Careful
    <3>2. host'[h].fstab = UNION host[h].backup
      BY <1>4, <2>8, <3>1 DEF Alters
    <3>3. host'[h].fstab = call[c].before
      BY <3>1, <3>2
    <3>4. LineBy(d, r) # LineBy(c, call[c])
      BY DEF LineBy
    <3>5. QED
      BY <2>3, <2>8, <3>1, <3>3, <3>4 DEF EditedBy, NotAt
  <2>9. QED
    BY <2>4, <2>5, <2>6, <2>7, <2>8 DEF FstabCommands
<1>14. Accepted(y, call', spoiled')
  BY <1>1, <1>2, <1>8, <1>9 DEF Makes, Good, Accepted
<1>15. Remembers(y, spoiled')
  BY <1>1, <1>2 DEF Makes, Good, Remembers
<1>16. QED
  BY <1>11, <1>12, <1>13, <1>14, <1>15 DEF y

----------------------------------------------------------------------------
\* A step of a call, and what holds of that call itself.

\* The checks look at the disk, which stays what it is.
LEMMA Primed ==
    ASSUME TypeOK', disk' = disk, AdminLineStays',
           \A d \in Call : Good(d, call'[d], host', call', spoiled')
    PROVE  IInv'
<1>1. ASSUME NEW d \in Call PROVE Good(d, call[d], host, call, spoiled)'
  <2>1. Good(d, call'[d], host', call', spoiled')
    OBVIOUS
  <2>2. \A s : SeenBy(call[d], s)' = SeenBy(call'[d], s)
    BY DEF SeenBy, Glob
  <2>3. Unseen(call[d], host)'
    BY <2>1, <2>2 DEF Good, Unseen
  <2>4. HitUnseen(call[d])'
    BY <2>1, <2>2 DEF Good, HitUnseen
  <2>5. Fine(call[d])' /\ Passed(call[d])' /\ Kept(d, call[d], host)' /\ Whole(d, call[d])'
        /\ Stays(d, call[d], host, call, spoiled)' /\ Accepted(call[d], call, spoiled)'
        /\ Remembers(call[d], spoiled)'
    BY <2>1 DEF Good
  <2>6. QED
    BY <2>3, <2>4, <2>5 DEF Good
<1>2. QED
  BY <1>1 DEF IInv

\* The administrator's line survives a command that takes care.
LEMMA AdminAfter ==
    ASSUME IInv, NEW c \in Call, NEW cmd, NEW h \in Host, NEW x, Makes(c, cmd, h, x),
           Careful(c, cmd, h)
    PROVE  AdminLineStays'
<1> SUFFICES ASSUME ~spoiled', NEW k \in Host PROVE AdminLine \in host'[k].fstab
  BY DEF AdminLineStays
<1>1. ~spoiled /\ AdminLine \in host[k].fstab
  BY DEF IInv, AdminLineStays, Makes
<1>2. Alters(c, cmd, host[h], host'[h]) /\ (k # h => host'[k] = host[k])
  BY HostsAfter DEF IInv
<1>3. Good(c, call[c], host, call, spoiled)
  BY DEF IInv
<1>4. CASE k # h
  BY <1>1, <1>2, <1>4
<1>5. CASE k = h /\ cmd \notin { "append", "replace", "rollback" }
  BY <1>1, <1>2, <1>5 DEF Alters
<1>6. CASE k = h /\ cmd = "append"
  BY <1>1, <1>2, <1>6 DEF Alters
<1>7. CASE k = h /\ cmd = "replace"
  <2>1. call[c].path \in Path /\ call[c].read = host[h].fstab
    BY <1>3, <1>7 DEF Good, Fine, Careful
  <2>2. AdminLine.path # call[c].path
    BY <2>1, LineAssumption DEF AdminLine
  <2>3. QED
    BY <1>1, <1>2, <1>7, <2>1, <2>2 DEF Alters, NotAt
<1>8. CASE k = h /\ cmd = "rollback"
  <2>1. host[h].backup = {call[c].before}
    BY <1>8, OwnRollback DEF Careful
  <2>2. AdminLine \in call[c].before
    BY <1>1, <1>3, <1>8 DEF Good, Remembers, Careful, FstabSteps
  <2>3. host'[h].fstab = UNION host[h].backup
    BY <1>2, <1>8, <2>1 DEF Alters
  <2>4. QED
    BY <1>8, <2>1, <2>2, <2>3
<1>9. QED
  BY <1>4, <1>5, <1>6, <1>7, <1>8

\* A step that keeps what holds of its own call keeps the invariant.
LEMMA StepKeeps ==
    ASSUME IInv, NEW c \in Call, NEW cmd, NEW h \in Host, NEW x, Makes(c, cmd, h, x),
           Careful(c, cmd, h),
           Good(c, call'[c], host', call', spoiled')
    PROVE  IInv'
<1>1. TypeOK'
  BY TypedAfter DEF IInv
<1>2. disk' = disk
  BY DEF Makes, Carry
<1>3. ASSUME NEW d \in Call, d # c PROVE Good(d, call'[d], host', call', spoiled')
  <2>1. Fine(call'[d]) /\ Passed(call'[d]) /\ Unseen(call'[d], host') /\ HitUnseen(call'[d])
    BY <1>3, OtherDisk
  <2>2. /\ Kept(d, call'[d], host') /\ Whole(d, call'[d])
        /\ Stays(d, call'[d], host', call', spoiled')
        /\ Accepted(call'[d], call', spoiled') /\ Remembers(call'[d], spoiled')
    BY <1>3, OtherFstab
  <2>3. QED
    BY <2>1, <2>2 DEF Good
<1>4. \A d \in Call : Good(d, call'[d], host', call', spoiled')
  BY <1>3
<1>5. AdminLineStays'
  BY AdminAfter
<1>6. QED
  BY <1>1, <1>2, <1>4, <1>5, Primed

\* The history of a call is left to Carry.
SameHistory(x, r) == x.hosts = r.hosts /\ x.began = r.began /\ x.hit = r.hit

\* Record x has passed the checks that r has, and the one that it was at if that
\* does not refuse host h.
Looks(x, r, h) ==
    \A s \in Gates :
        \/ x.checked[s] = r.checked[s]
        \/ s = r.step /\ x.checked[s] = h /\ ~Refuses(r, host[h])

\* Whoever sends a command that destroys has passed its checks.
LEMMA OwnHit ==
    ASSUME IInv, NEW c \in Call, NEW cmd, NEW h \in Host, NEW x, Makes(c, cmd, h, x),
           SameHistory(x, call[c]), Looks(x, call[c], h),
           cmd \in Destructive => Destroying(call[c])
    PROVE  HitUnseen(call'[c])
<1> DEFINE r == call[c]
           y == call'[c]
<1>1. TypeOK /\ Fine(r) /\ Passed(r) /\ Unseen(r, host) /\ HitUnseen(r)
  BY DEF IInv, Good
<1>2. /\ y.tool = r.tool /\ y.aim = r.aim /\ y.checked = x.checked /\ r.began \subseteq y.began
      /\ (cmd \in Destructive => y.hit \subseteq r.hit \union ({h} \X UsesOf(host[h])))
      /\ (cmd \notin Destructive => y.hit = r.hit)
  <2>1. /\ x.began = r.began /\ x.hit = r.hit /\ x.tool = r.tool /\ x.aim = r.aim
    BY DEF SameHistory, Makes, Kin
  <2>2. Becomes(x, cmd, h, y)
    BY <1>1, OwnAfter
  <2>3. x.began \subseteq Begin(x, h, "part")
    BY DEF Begin
  <2> HIDE DEF r, y
  <2>4. QED
    BY <2>1, <2>2, <2>3 DEF Becomes, Same
<1>3. r.step \in Gates => r.hit = {}
  BY <1>1 DEF Fine
<1>4. r.late # "none" => r.step = "done"
  BY <1>1 DEF Fine
<1> HIDE DEF r, y
<1>5. \A s : SeenBy(y, s) = SeenBy(r, s)
  BY <1>2 DEF SeenBy
<1> SUFFICES ASSUME NEW hu \in y.hit \ y.began, NEW s \in GatesOf(y.tool),
                    hu[2] \in SeenBy(y, s)
             PROVE  y.checked[s] \notin {hu[1], NoPath}
  BY DEF HitUnseen, y
<1>6. s \in GatesOf(r.tool) /\ s \in Gates /\ hu[2] \in SeenBy(r, s) /\ hu \notin r.began
  BY <1>2, <1>5 DEF GatesOf, Gates
<1>7. CASE hu \in r.hit
  <2>1. y.checked[s] = r.checked[s]
    BY <1>2, <1>3, <1>6, <1>7 DEF Looks, r
  <2>2. QED
    BY <1>1, <1>6, <1>7, <2>1 DEF HitUnseen
<1>8. CASE hu \in {h} \X UsesOf(host[h]) /\ cmd \in Destructive
  <2>1. Destroying(r)
    BY <1>8 DEF r
  <2>2. r.step \notin Gates
    BY <1>4, <2>1, Names DEF Destroying, Gates, Destructive
  <2>3. y.checked[s] = r.checked[s] /\ r.checked[s] \in Host
    BY <1>1, <1>2, <1>6, <2>1, <2>2 DEF Looks, Passed, r
  <2>4. r.checked[s] # NoPath
    BY <2>3, LineAssumption
  <2>5. PICK u \in UsesOf(host[h]) : hu = <<h, u>>
    BY <1>8
  <2>6. ASSUME r.checked[s] = h PROVE FALSE
    BY <1>1, <1>6, <2>1, <2>5, <2>6 DEF Unseen, Looking
  <2>7. QED
    BY <2>3, <2>4, <2>5, <2>6
<1>9. QED
  BY <1>2, <1>7, <1>8

\* A gate that lets its call pass has found no use that it looks for.
LEMMA OwnUnseen ==
    ASSUME IInv, NEW c \in Call, NEW cmd, NEW h \in Host, NEW x, Makes(c, cmd, h, x),
           SameHistory(x, call[c]), Looks(x, call[c], h),
           Looking(x) => Looking(call[c]) /\ cmd # "mount"
    PROVE  Unseen(call'[c], host')
<1> DEFINE r == call[c]
           y == call'[c]
<1>1. TypeOK /\ Fine(r) /\ Unseen(r, host)
  BY DEF IInv, Good
<1>2. /\ y.tool = r.tool /\ y.aim = r.aim /\ y.step = x.step /\ y.late = x.late
      /\ y.checked = x.checked /\ r.began \subseteq y.began
  <2>1. /\ x.began = r.began /\ x.tool = r.tool /\ x.aim = r.aim
    BY DEF SameHistory, Makes, Kin
  <2>2. Becomes(x, cmd, h, y)
    BY <1>1, OwnAfter
  <2>3. x.began \subseteq Begin(x, h, "part")
    BY DEF Begin
  <2> HIDE DEF r, y
  <2>4. QED
    BY <2>1, <2>2, <2>3 DEF Becomes, Same
<1>3. cmd # "mount" => \A k \in Host : UsesOf(host'[k]) \subseteq UsesOf(host[k])
  <2>1. Alters(c, cmd, host[h], host'[h]) /\ \A k \in Host \ {h} : host'[k] = host[k]
    BY <1>1, HostsAfter
  <2>2. QED
    BY <2>1 DEF Alters
<1> HIDE DEF r, y
<1>4. \A s : SeenBy(y, s) = SeenBy(r, s)
  BY <1>2 DEF SeenBy
<1> SUFFICES ASSUME Looking(y), NEW s \in GatesOf(y.tool), y.checked[s] \in Host,
                    NEW u \in UsesOf(host'[y.checked[s]]) \intersect SeenBy(y, s)
             PROVE  <<y.checked[s], u>> \in y.began
  BY DEF Unseen, y
<1>5. Looking(r) /\ cmd # "mount"
  BY <1>2 DEF Looking, Destroying, r
<1>6. /\ s \in GatesOf(r.tool) /\ s \in Gates /\ u \in SeenBy(r, s)
      /\ u \in UsesOf(host[y.checked[s]])
  BY <1>2, <1>3, <1>4, <1>5 DEF GatesOf, Gates
<1>7. CASE y.checked[s] = r.checked[s]
  BY <1>1, <1>2, <1>5, <1>6, <1>7 DEF Unseen
<1>8. CASE s = r.step /\ y.checked[s] = h /\ ~Refuses(r, host[h])
  BY <1>6, <1>8 DEF Refuses
<1>9. QED
  BY <1>2, <1>6, <1>7, <1>8 DEF Looks, r

----------------------------------------------------------------------------
\* The steps outside fstab.

\* Record x is record r with another step and answer.
Moves(x, r, s, a) ==
    /\ x \in CallState /\ Kin(x, r) /\ SameHistory(x, r)
    /\ x.step = s /\ x.answer = a
    /\ x.late = r.late /\ x.before = r.before /\ x.bak = r.bak /\ x.undo = r.undo
    /\ x.listed = r.listed /\ x.sound = r.sound

\* Going to the next step changes the step alone.
LEMMA GotoMoves ==
    ASSUME TypeOK, NEW c \in Call, NEW s \in Steps
    PROVE  /\ Goto(c, s) = [call EXCEPT ![c] = [call[c] EXCEPT !.step = s]]
           /\ Moves([call[c] EXCEPT !.step = s], call[c], s, call[c].answer)
           /\ [call[c] EXCEPT !.step = s].checked = call[c].checked
<1> DEFINE x == [call[c] EXCEPT !.step = s]
<1>1. call[c] \in CallState
  BY DEF TypeOK
<1>2. s \in Steps \union {"idle", "done"}
  OBVIOUS
<1>3. x \in CallState
  BY <1>1, <1>2 DEF CallState
<1>4. /\ x.hosts = call[c].hosts /\ x.began = call[c].began /\ x.hit = call[c].hit
      /\ x.tool = call[c].tool /\ x.aim = call[c].aim /\ x.path = call[c].path
      /\ x.valid = call[c].valid /\ x.checked = call[c].checked
      /\ x.step = s /\ x.answer = call[c].answer
      /\ x.late = call[c].late /\ x.before = call[c].before /\ x.bak = call[c].bak
      /\ x.undo = call[c].undo /\ x.listed = call[c].listed /\ x.sound = call[c].sound
  BY <1>1 DEF CallState
<1>5. Goto(c, s) = [call EXCEPT ![c] = x]
  BY DEF Goto
<1>6. QED
  BY <1>3, <1>4, <1>5, Zenon DEF Moves, SameHistory, Kin

\* Ending changes the step and the answer alone.
LEMMA DoneMoves ==
    ASSUME TypeOK, NEW c \in Call, NEW a \in Answers
    PROVE  LET x == [call[c] EXCEPT !.step = "done", !.answer = a]
           IN  /\ Done(c, a) = [call EXCEPT ![c] = x]
               /\ Moves(x, call[c], "done", a)
               /\ x.checked = call[c].checked
<1> DEFINE x == [call[c] EXCEPT !.step = "done", !.answer = a]
<1>1. call[c] \in CallState /\ call \in [Call -> CallState]
  BY DEF TypeOK
<1>2. "done" \in Steps \union {"idle", "done"}
  OBVIOUS
<1>3. x \in CallState
  BY <1>1, <1>2, ZenonT(60) DEF CallState
<1>4. /\ x.hosts = call[c].hosts /\ x.began = call[c].began /\ x.hit = call[c].hit
      /\ x.tool = call[c].tool /\ x.aim = call[c].aim /\ x.path = call[c].path
      /\ x.valid = call[c].valid /\ x.checked = call[c].checked
      /\ x.step = "done" /\ x.answer = a
      /\ x.late = call[c].late /\ x.before = call[c].before /\ x.bak = call[c].bak
      /\ x.undo = call[c].undo /\ x.listed = call[c].listed /\ x.sound = call[c].sound
  BY <1>1 DEF CallState
<1>5. Done(c, a) = [call EXCEPT ![c] = x]
  BY <1>1 DEF Done
<1>6. QED
  BY <1>3, <1>4, <1>5, Zenon DEF Moves, SameHistory, Kin

\* A tool is at the steps that are its own.
Belongs(s, t) ==
    /\ s \in { "boot", "mounts", "members", "table" } => t = "partition_disk"
    /\ s = "target" => t = "format_disk"
    /\ s \in Destructive => t \in Destroyers
    /\ s \in { "mount", "verify" } => t = "create_mount_point"
    /\ s = "umount" => t = "unmount_path"
    /\ s = "path" => t \in { "create_mount_point", "unmount_path" }
    /\ s = "backup" => t \in { "create_mount_point", "unmount_path" }

\* A call that goes on has passed the checks that it had to.
LEMMA Advance ==
    ASSUME IInv, NEW c \in Call, NEW cmd, NEW h \in Host, NEW x, NEW s, NEW a,
           Carry(c, cmd, h, [call EXCEPT ![c] = x]), spoiled' = spoiled,
           Moves(x, call[c], s, a), Looks(x, call[c], h), Passed(x),
           call[c].step \in Steps \ FstabSteps, cmd \in { call[c].step, "none" },
           cmd # "backup",
           (s \in Steps \ FstabSteps /\ a = "none") \/ s = "done", Belongs(s, call[c].tool),
           s \in Gates => call[c].step \in Gates,
           s \in Destructive => call[c].step \in Gates \union Destructive
    PROVE  IInv'
<1> DEFINE r == call[c]
           y == call'[c]
<1>1. TypeOK /\ Fine(r) /\ r \in CallState
  BY DEF IInv, Good, TypeOK
<1>2. /\ r.late = "none" /\ ~r.listed /\ r.before = {} /\ r.step # "done" /\ r.undo = "none"
      /\ r.step \in Steps \ FstabSteps
  BY <1>1, Names DEF Fine, Steps
<1>3. cmd \notin FstabSteps \union { "backup" }
  BY <1>2, Names DEF FstabSteps
<1>4. cmd = "mount" => r.tool = "create_mount_point" /\ r.path \in Path
  BY <1>1 DEF Fine
<1>5. Makes(c, cmd, h, x)
  BY <1>1, <1>4 DEF Makes, Moves, TypeOK
<1>6. /\ x.step = s /\ x.answer = a /\ x.late = "none" /\ Kin(x, r)
      /\ x.before = {} /\ x.listed = r.listed /\ x.undo = "none" /\ x.hit = r.hit
  BY <1>2 DEF Moves, SameHistory
<1>7. /\ y.tool = r.tool /\ y.path = r.path /\ y.step = s /\ y.answer = a /\ y.late = "none"
      /\ y.before = {} /\ ~y.listed /\ y.undo = "none" /\ h \in y.hosts
      /\ y.checked = x.checked /\ (cmd \notin Destructive => y.hit = r.hit)
  <2>1. Becomes(x, cmd, h, y)
    BY <1>1, <1>5, OwnAfter
  <2>2. QED
    BY <1>2, <1>6, <2>1 DEF Becomes, Same, Kin
<1>8. Unseen(y, host')
  <2>1. Looking(x) => Looking(r) /\ cmd # "mount"
    BY <1>6, Names DEF Looking, Destroying, Gates, Destructive
  <2>2. QED
    BY <1>5, <2>1, OwnUnseen DEF Moves
<1>9. HitUnseen(y)
  <2>1. cmd \in Destructive => Destroying(r)
    BY Names DEF Destroying, Destructive
  <2>2. QED
    BY <1>5, <2>1, OwnHit DEF Moves
<1>10. s \in Gates => cmd \notin Destructive
  BY Names DEF Gates, Destructive
<1> HIDE DEF y, r
<1>11. Fine(y)
  BY <1>1, <1>7, <1>10 DEF Fine, Belongs, Destroying, FstabSteps, r, Steps, Gates, Destructive
<1>12. Passed(y)
  BY <1>6, <1>7 DEF Passed, Destroying, Kin
<1>13. Kept(c, y, host') /\ Whole(c, y) /\ Stays(c, y, host', call', spoiled')
       /\ Accepted(y, call', spoiled') /\ Remembers(y, spoiled')
  BY <1>7 DEF Kept, Whole, Stays, Accepted, Remembers, FstabSteps
<1>14. Good(c, y, host', call', spoiled')
  BY <1>8, <1>9, <1>11, <1>12, <1>13 DEF Good
<1>15. Careful(c, cmd, h)
  BY <1>3 DEF Careful, FstabSteps
<1>16. QED
  BY <1>5, <1>14, <1>15, StepKeeps DEF y

\* The name of the node always resolves to some host.
LEMMA Hosts == ASSUME TypeOK PROVE Head(route) \in Host
BY HeadTailProperties DEF TypeOK

\* A gate notes where it lets its call pass.
LEMMA GateKeeps ==
    ASSUME IInv, NEW c \in Call, NEW h \in Host, Gate(c, h)
    PROVE  IInv'
<1> DEFINE r == call[c]
           s == AfterGate(r.step)
           k == [r.checked EXCEPT ![r.step] = h]
           x == [r EXCEPT !.step = s, !.checked = k]
<1>1. /\ TypeOK /\ Fine(r) /\ Passed(r) /\ r.step \in Gates /\ ~Refuses(r, host[h])
      /\ spoiled' = spoiled /\ r \in CallState /\ call \in [Call -> CallState]
      /\ Carry(c, r.step, h, [Goto(c, s) EXCEPT ![c].checked[r.step] = h])
  BY DEF IInv, Good, Gate, TypeOK
<1>2. s \in { "mounts", "members", "wipe" } /\ s \in Steps /\ s \in Steps \union {"idle", "done"}
  BY <1>1, Names DEF AfterGate, Steps
<1>3. /\ r.answer = "none" /\ r.late = "none"
      /\ r.step \in { "boot", "mounts", "members" } => r.tool = "partition_disk"
      /\ r.step = "target" => r.tool = "format_disk"
  BY <1>1, Names DEF Fine, Gates
<1>4. /\ r.checked \in [Gates -> Host \union {NoPath}]
      /\ k \in [Gates -> Host \union {NoPath}] /\ k[r.step] = h
      /\ \A t \in Gates : t # r.step => k[t] = r.checked[t]
  BY <1>1, Fields
<1>5. [Goto(c, s) EXCEPT ![c].checked[r.step] = h] = [call EXCEPT ![c] = x]
  BY <1>1 DEF Goto
<1> HIDE DEF s, k
<1>6. Moves(x, r, s, "none") /\ x.checked = k
  <2>1. x \in CallState
    BY <1>1, <1>2, <1>4, ZenonT(60) DEF CallState
  <2>2. /\ x.hosts = r.hosts /\ x.began = r.began /\ x.hit = r.hit
        /\ x.tool = r.tool /\ x.aim = r.aim /\ x.path = r.path /\ x.valid = r.valid
        /\ x.checked = k /\ x.step = s /\ x.answer = r.answer
        /\ x.late = r.late /\ x.before = r.before /\ x.bak = r.bak
        /\ x.undo = r.undo /\ x.listed = r.listed /\ x.sound = r.sound
    BY <1>1 DEF CallState
  <2>3. QED
    BY <1>3, <2>1, <2>2, Zenon DEF Moves, SameHistory, Kin
<1>7. /\ r.step \in Steps \ FstabSteps /\ s \in Steps \ FstabSteps /\ r.step # "backup"
  BY <1>1, <1>2, Names DEF FstabSteps, Gates
<1>8. Belongs(s, r.tool)
  BY <1>1, <1>3 DEF Belongs, AfterGate, Destructive, Destroyers, Gates, s
<1> HIDE DEF x
<1>9. Looks(x, r, h)
  BY <1>1, <1>4, <1>6 DEF Looks
<1>10. Passed(x)
  <2>1. x.step = s /\ x.tool = r.tool /\ x.late = "none"
    BY <1>3, <1>6 DEF Moves, Kin
  <2>2. CASE r.step = "boot"
    <3>1. s = "mounts"
      BY <2>2 DEF AfterGate, s
    <3>2. QED
      BY <1>4, <1>6, <2>1, <2>2, <3>1 DEF Passed, Destroying, Destructive
  <2>3. CASE r.step = "mounts"
    <3>1. s = "members" /\ r.checked["boot"] \in Host
      BY <1>1, <2>3 DEF AfterGate, s, Passed
    <3>2. QED
      BY <1>4, <1>6, <2>1, <2>3, <3>1 DEF Passed, Destroying, Destructive, Gates
  <2>4. CASE r.step = "members"
    <3>1. s = "wipe" /\ r.checked["boot"] \in Host /\ r.checked["mounts"] \in Host
      BY <1>1, <2>4 DEF AfterGate, s, Passed
    <3>2. GatesOf(x.tool) = { "boot", "mounts", "members" }
      BY <1>3, <2>1, <2>4 DEF GatesOf, Gates
    <3>3. QED
      BY <1>4, <1>6, <2>1, <2>4, <3>1, <3>2 DEF Passed, Destroying, Destructive, Gates
  <2>5. CASE r.step = "target"
    <3>1. s = "wipe"
      BY <2>5 DEF AfterGate, s
    <3>2. GatesOf(x.tool) = { "target" }
      BY <1>3, <2>1, <2>5 DEF GatesOf
    <3>3. QED
      BY <1>4, <1>6, <2>1, <2>5, <3>1, <3>2 DEF Passed, Destroying, Destructive, Gates
  <2>6. QED
    BY <1>1, <2>2, <2>3, <2>4, <2>5 DEF Gates
<1>11. Carry(c, r.step, h, [call EXCEPT ![c] = x])
  BY <1>1, <1>5
<1>12. QED
  BY <1>1, <1>6, <1>7, <1>8, <1>9, <1>10, <1>11, Advance

\* A call may end with any answer before it has come to fstab.
LEMMA EndKeeps ==
    ASSUME IInv, NEW c \in Call, NEW cmd, NEW h \in Host, NEW a \in Answers,
           Carry(c, cmd, h, Done(c, a)), spoiled' = spoiled,
           call[c].step \in Steps \ FstabSteps, cmd \in { call[c].step, "none" },
           cmd # "backup"
    PROVE  IInv'
<1> DEFINE x == [call[c] EXCEPT !.step = "done", !.answer = a]
<1>1. TypeOK /\ Fine(call[c])
  BY DEF IInv, Good
<1>2. /\ Done(c, a) = [call EXCEPT ![c] = x] /\ Moves(x, call[c], "done", a)
      /\ x.checked = call[c].checked
  BY <1>1, DoneMoves
<1>3. call[c].late = "none"
  BY <1>1, Names DEF Fine
<1> HIDE DEF x
<1>4. Passed(x) /\ Looks(x, call[c], h)
  BY <1>2, <1>3 DEF Moves, Passed, Looks, Destroying, Destructive
<1>5. Belongs("done", call[c].tool) /\ "done" \notin Gates /\ "done" \notin Destructive
  BY DEF Belongs, Destructive, Gates
<1>6. Carry(c, cmd, h, [call EXCEPT ![c] = x])
  BY <1>2
<1>7. QED
  BY <1>2, <1>4, <1>5, <1>6, Advance

\* A call may go on to a step of its tool that no gate guards, or that the gates before
\* the present step guard.
LEMMA GoKeeps ==
    ASSUME IInv, NEW c \in Call, NEW cmd, NEW h \in Host, NEW s \in Steps \ FstabSteps,
           Carry(c, cmd, h, Goto(c, s)), spoiled' = spoiled,
           call[c].step \in Steps \ FstabSteps, cmd \in { call[c].step, "none" },
           cmd # "backup", Belongs(s, call[c].tool), s \notin Gates,
           s \in Destructive => call[c].step \in Destructive
    PROVE  IInv'
<1> DEFINE x == [call[c] EXCEPT !.step = s]
<1>1. TypeOK /\ Fine(call[c]) /\ Passed(call[c])
  BY DEF IInv, Good
<1>2. /\ Goto(c, s) = [call EXCEPT ![c] = x] /\ Moves(x, call[c], s, call[c].answer)
      /\ x.checked = call[c].checked
  BY <1>1, GotoMoves
<1>3. call[c].late = "none" /\ call[c].answer = "none"
  BY <1>1, Names DEF Fine
<1> HIDE DEF x
<1>4. x.step = s /\ x.late = "none" /\ x.tool = call[c].tool
  BY <1>2, <1>3 DEF Moves, Kin
<1>5. Passed(x) /\ Looks(x, call[c], h)
  BY <1>1, <1>2, <1>4 DEF Passed, Looks, Destroying, Destructive, Gates
<1>6. Carry(c, cmd, h, [call EXCEPT ![c] = x])
  BY <1>2
<1>7. QED
  BY <1>2, <1>3, <1>5, <1>6, Advance

\* The steps of partition_disk and format_disk.
LEMMA DestroyerKeeps ==
    ASSUME IInv, NEW c \in Call, NEW h \in Host,
           \/ GateRefuses(c, h) \/ Wipe(c, h) \/ WipeFails(c, h) \/ Table(c, h)
           \/ Mkfs(c, h) \/ MkfsFails(c, h)
    PROVE  IInv'
<1>1. TypeOK /\ Fine(call[c])
  BY DEF IInv, Good
<1>2. "error" \in Answers /\ "success" \in Answers /\ "partial_success" \in Answers
  BY Names
<1>3. CASE GateRefuses(c, h)
  <2>1. call[c].step \in { "boot", "mounts", "members", "target" }
    BY <1>3 DEF GateRefuses, Refuses, SeenBy
  <2>2. call[c].step \in Steps \ FstabSteps /\ call[c].step # "backup"
    BY <2>1, Names DEF FstabSteps
  <2>3. QED
    BY <1>2, <1>3, <2>2, EndKeeps DEF GateRefuses
<1>4. CASE Wipe(c, h)
  <2>1. call[c].step = "wipe" /\ call[c].tool \in Destroyers
    BY <1>1, <1>4 DEF Wipe, At, Fine, Destroying, Destructive
  <2> DEFINE s == IF call[c].tool = "partition_disk" THEN "table" ELSE "mkfs"
  <2>2. Belongs(s, call[c].tool)
    BY <2>1 DEF Belongs, Destructive
  <2>3. /\ s \in Steps \ FstabSteps /\ "wipe" \in Steps \ FstabSteps
        /\ s \notin Gates /\ "wipe" \in Destructive
    BY Names DEF Gates, FstabSteps, Destructive
  <2>4. Carry(c, "wipe", h, Goto(c, s)) /\ spoiled' = spoiled
    BY <1>4 DEF Wipe
  <2> HIDE DEF s
  <2>5. QED
    BY <2>1, <2>2, <2>3, <2>4, GoKeeps
<1>5. CASE WipeFails(c, h)
  <2>1. call[c].step = "wipe" /\ call[c].tool \in Destroyers
    BY <1>1, <1>5 DEF WipeFails, At, Fine, Destroying, Destructive
  <2>2. "wipe" \in Steps \ FstabSteps /\ "mkfs" \in Steps \ FstabSteps
        /\ "wipe" \in Destructive /\ "mkfs" \notin Gates
    BY Names DEF Gates, FstabSteps, Destructive
  <2>3. CASE call[c].tool = "partition_disk"
    <3>1. Carry(c, "wipe", h, Done(c, "error")) /\ spoiled' = spoiled
      BY <1>5, <2>3 DEF WipeFails
    <3>2. QED
      BY <1>2, <2>1, <2>2, <3>1, EndKeeps
  <2>4. CASE call[c].tool # "partition_disk"
    <3>1. Carry(c, "wipe", h, Goto(c, "mkfs")) /\ spoiled' = spoiled
      BY <1>5, <2>4 DEF WipeFails
    <3>2. Belongs("mkfs", call[c].tool)
      BY <2>1 DEF Belongs
    <3>3. QED
      BY <2>1, <2>2, <3>1, <3>2, GoKeeps
  <2>5. QED
    BY <2>3, <2>4
<1>6. CASE Table(c, h)
  <2>1. call[c].step = "table" /\ call[c].tool \in Destroyers
    BY <1>1, <1>6 DEF Table, At, Fine, Destroying, Destructive
  <2>2. "table" \in Steps \ FstabSteps /\ "mkfs" \in Steps \ FstabSteps
        /\ "table" \in Destructive /\ "mkfs" \notin Gates
    BY Names DEF Gates, FstabSteps, Destructive
  <2>3. PICK f \in { Goto(c, "mkfs"), Done(c, "success"), Done(c, "error") } :
            Carry(c, "table", h, f)
    BY <1>6 DEF Table
  <2>4. spoiled' = spoiled /\ Belongs("mkfs", call[c].tool)
    BY <1>6, <2>1 DEF Table, Belongs
  <2>5. CASE f = Goto(c, "mkfs")
    BY <2>1, <2>2, <2>3, <2>4, <2>5, GoKeeps
  <2>6. CASE f = Done(c, "success")
    BY <1>2, <2>1, <2>2, <2>3, <2>4, <2>6, EndKeeps
  <2>7. CASE f = Done(c, "error")
    BY <1>2, <2>1, <2>2, <2>3, <2>4, <2>7, EndKeeps
  <2>8. QED
    BY <2>3, <2>5, <2>6, <2>7
<1>7. CASE Mkfs(c, h)
  <2>1. "mkfs" \in Steps \ FstabSteps
    BY Names DEF FstabSteps
  <2>2. QED
    BY <1>2, <1>7, <2>1, EndKeeps DEF Mkfs, At
<1>8. CASE MkfsFails(c, h)
  <2>1. "mkfs" \in Steps \ FstabSteps
    BY Names DEF FstabSteps
  <2> DEFINE a == IF call[c].tool = "partition_disk" THEN "partial_success" ELSE "error"
  <2>2. a \in Answers
    BY <1>2
  <2>3. Carry(c, "mkfs", h, Done(c, a)) /\ spoiled' = spoiled /\ call[c].step = "mkfs"
    BY <1>8 DEF MkfsFails, At
  <2> HIDE DEF a
  <2>4. QED
    BY <2>1, <2>2, <2>3, EndKeeps
<1>9. QED
  BY <1>3, <1>4, <1>5, <1>6, <1>7, <1>8

\* The steps of create_mount_point and unmount_path up to the backup of fstab.
LEMMA MountKeeps ==
    ASSUME IInv, NEW c \in Call, NEW h \in Host,
           \/ PathChecked(c, h) \/ DoMount(c, h) \/ Verify(c, h) \/ DoUnmount(c, h)
           \/ CommandFails(c, h)
    PROVE  IInv'
<1>1. TypeOK /\ Fine(call[c])
  BY DEF IInv, Good
<1>2. "error" \in Answers /\ "success" \in Answers
  BY Names
<1>3. /\ { "boot", "target", "path", "mount", "umount", "verify", "backup" }
         \subseteq Steps \ FstabSteps
      /\ (Gates \union Destructive) \intersect { "mount", "umount", "verify", "backup" } = {}
  BY DEF Steps, FstabSteps, Gates, Destructive
<1>4. CASE PathChecked(c, h)
  <2>1. call[c].step = "path" /\ spoiled' = spoiled
    BY <1>4 DEF PathChecked, At
  <2>2. CASE (call[c].path \in host[h].mounts) = (call[c].tool = "unmount_path")
    <3> DEFINE s == IF call[c].tool = "unmount_path" THEN "umount" ELSE "mount"
    <3>1. Carry(c, "path", h, Goto(c, s))
      BY <1>4, <2>2 DEF PathChecked
    <3>2. Belongs(s, call[c].tool)
      BY <1>1, <2>1 DEF Belongs, Fine, Destroying, Destructive
    <3>3. s \in Steps \ FstabSteps /\ s \notin Gates /\ s \notin Destructive
      BY <1>3
    <3> HIDE DEF s
    <3>4. QED
      BY <1>3, <2>1, <3>1, <3>2, <3>3, GoKeeps
  <2>3. CASE (call[c].path \in host[h].mounts) # (call[c].tool = "unmount_path")
    <3>1. Carry(c, "path", h, Done(c, "error"))
      BY <1>4, <2>3 DEF PathChecked
    <3>2. QED
      BY <1>2, <1>3, <2>1, <3>1, EndKeeps
  <2>4. QED
    BY <2>2, <2>3
<1>5. CASE DoMount(c, h)
  <2>1. call[c].step = "mount" /\ spoiled' = spoiled /\ Carry(c, "mount", h, Goto(c, "verify"))
    BY <1>5 DEF DoMount, At
  <2>2. Belongs("verify", call[c].tool)
    BY <1>1, <2>1 DEF Belongs, Fine, Destroying, Destructive
  <2>3. QED
    BY <1>3, <2>1, <2>2, GoKeeps
<1>6. CASE Verify(c, h)
  <2>1. call[c].step = "verify" /\ spoiled' = spoiled
    BY <1>6 DEF Verify, At
  <2>2. PICK f \in { Goto(c, "backup"), Done(c, "success"), Done(c, "error") } :
            Carry(c, "verify", h, f)
    BY <1>6 DEF Verify
  <2>3. Belongs("backup", call[c].tool)
    BY <1>1, <2>1 DEF Belongs, Fine, Destroying, Destructive
  <2>4. CASE f = Goto(c, "backup")
    BY <1>3, <2>1, <2>2, <2>3, <2>4, GoKeeps
  <2>5. CASE f = Done(c, "success")
    BY <1>2, <1>3, <2>1, <2>2, <2>5, EndKeeps
  <2>6. CASE f = Done(c, "error")
    BY <1>2, <1>3, <2>1, <2>2, <2>6, EndKeeps
  <2>7. QED
    BY <2>2, <2>4, <2>5, <2>6
<1>7. CASE DoUnmount(c, h)
  <2>1. call[c].step = "umount" /\ spoiled' = spoiled
    BY <1>7 DEF DoUnmount, At
  <2>2. PICK f \in { Goto(c, "backup"), Done(c, "success") } : Carry(c, "umount", h, f)
    BY <1>7 DEF DoUnmount
  <2>3. Belongs("backup", call[c].tool)
    BY <1>1, <2>1 DEF Belongs, Fine, Destroying, Destructive
  <2>4. CASE f = Goto(c, "backup")
    BY <1>3, <2>1, <2>2, <2>3, <2>4, GoKeeps
  <2>5. CASE f = Done(c, "success")
    BY <1>2, <1>3, <2>1, <2>2, <2>5, EndKeeps
  <2>6. QED
    BY <2>2, <2>4, <2>5
<1>8. CASE CommandFails(c, h)
  <2>1. call[c].step \in Steps \ FstabSteps
    BY <1>3, <1>8 DEF CommandFails
  <2>2. Carry(c, "none", h, Done(c, "error")) /\ spoiled' = spoiled
    BY <1>8 DEF CommandFails
  <2>3. QED
    BY <1>2, <2>1, <2>2, EndKeeps
<1>9. QED
  BY <1>4, <1>5, <1>6, <1>7, <1>8

----------------------------------------------------------------------------
\* The steps at fstab.

\* Record x is record r after a step at fstab of host h.
FstabMove(x, r, h) ==
    /\ x \in CallState /\ Kin(x, r) /\ SameHistory(x, r)
    /\ x.checked = r.checked /\ x.late = r.late
    /\ \/ x.step \in FstabSteps /\ x.answer = "none" /\ x.undo = "none"
       \/ x.step = "done" /\ x.answer = "success"
    /\ x.listed => x.step = "done"
    /\ x.step = "append" => r.tool = "create_mount_point"
    /\ x.step \in { "sed", "replace" } => r.tool = "unmount_path"
    /\ x.step = "replace" => x.runsAt = h

\* What is known of a step at fstab on host h, if its call keeps to one host.
LEMMA FstabOwn ==
    ASSUME IInv, NEW c \in Call, NEW cmd, NEW h \in Host, NEW x,
           Carry(c, cmd, h, [call EXCEPT ![c] = x]),
           spoiled' \in BOOLEAN, spoiled => spoiled',
           FstabMove(x, call[c], h), call[c].step \in FstabSteps \union { "backup" },
           cmd \in { call[c].step, "none" }
    PROVE  /\ Makes(c, cmd, h, x)
           /\ Becomes(x, cmd, h, call'[c])
           /\ call'[c].hosts = call[c].hosts \union {h}
           /\ Alters(c, cmd, host[h], host'[h])
           /\ call'[c].sound => x.sound
           /\ AtOneHost(call'[c]) => AtOneHost(call[c]) /\ \A k \in call'[c].hosts : k = h
           /\ AtOneHost(call'[c]) /\ call[c].step \in FstabSteps => h \in call[c].hosts
<1> DEFINE r == call[c]
           y == call'[c]
<1>1. TypeOK /\ Fine(r)
  BY DEF IInv, Good
<1>2. cmd # "mount"
  BY DEF FstabSteps
<1>3. Makes(c, cmd, h, x)
  BY <1>2 DEF Makes, FstabMove
<1>4. Becomes(x, cmd, h, y) /\ (y.sound => x.sound)
  BY <1>1, <1>3, OwnAfter
<1>5. Alters(c, cmd, host[h], host'[h])
  BY <1>1, <1>3, HostsAfter
<1>6. y.hosts = r.hosts \union {h}
  BY <1>4 DEF Becomes, FstabMove, SameHistory
<1>7. AtOneHost(y) => AtOneHost(r) /\ \A k \in y.hosts : k = h
  BY <1>6 DEF AtOneHost
<1>8. AtOneHost(y) /\ r.step \in FstabSteps => h \in r.hosts
  BY <1>1, <1>6, <1>7 DEF Fine
<1>9. QED
  BY <1>3, <1>4, <1>5, <1>6, <1>7, <1>8

\* A step at fstab keeps the invariant if it keeps the call's own part of it.
LEMMA FstabKeeps ==
    ASSUME IInv, NEW c \in Call, NEW cmd, NEW h \in Host, NEW x,
           Carry(c, cmd, h, [call EXCEPT ![c] = x]),
           spoiled' \in BOOLEAN, spoiled => spoiled',
           FstabMove(x, call[c], h), call[c].step \in FstabSteps \union { "backup" },
           cmd \in { call[c].step, "none" }, Careful(c, cmd, h),
           Kept(c, call'[c], host'), Whole(c, call'[c]),
           Stays(c, call'[c], host', call', spoiled'),
           Accepted(call'[c], call', spoiled'), Remembers(call'[c], spoiled')
    PROVE  IInv'
<1> DEFINE r == call[c]
           y == call'[c]
<1>1. TypeOK /\ Fine(r)
  BY DEF IInv, Good
<1>2. Makes(c, cmd, h, x) /\ Becomes(x, cmd, h, y) /\ y.hosts = r.hosts \union {h}
  BY FstabOwn
<1>3. cmd \notin Destructive /\ cmd # "mount"
  BY DEF FstabSteps, Destructive
<1>4. r.late = "none" /\ r.tool \in { "create_mount_point", "unmount_path" } /\ r.path \in Path
  BY <1>1 DEF Fine, FstabSteps
<1>5. /\ y.tool = r.tool /\ y.path = r.path /\ y.late = "none" /\ h \in y.hosts
      /\ \/ y.step \in FstabSteps /\ y.answer = "none" /\ y.undo = "none"
         \/ y.step = "done" /\ y.answer = "success"
      /\ y.listed => y.step = "done"
      /\ y.step = "append" => r.tool = "create_mount_point"
      /\ y.step \in { "sed", "replace" } => r.tool = "unmount_path"
      /\ y.step = "replace" => y.runsAt = h
  BY <1>2, <1>4 DEF Becomes, Same, FstabMove, Kin
<1>6. Looks(x, r, h)
  BY DEF FstabMove, Looks
<1>7. Unseen(y, host')
  <2>1. x.late = "none" /\ x.step \in FstabSteps \union { "done" }
    BY <1>4 DEF FstabMove
  <2>2. ~Looking(x)
    BY <2>1, Names DEF Looking, Destroying, Destructive, Gates, FstabSteps
  <2>3. QED
    BY <1>2, <1>6, <2>2, OwnUnseen DEF FstabMove
<1>8. HitUnseen(y)
  BY <1>2, <1>3, <1>6, OwnHit DEF FstabMove
<1> HIDE DEF y, r
<1>9. Fine(y) /\ Passed(y)
  BY <1>4, <1>5 DEF Fine, Passed, Destroying, FstabSteps, Gates, Destructive
<1>10. Good(c, y, host', call', spoiled')
  BY <1>7, <1>8, <1>9 DEF Good, y
<1>11. QED
  BY <1>2, <1>10, StepKeeps DEF y

\* The record of a call that has made, or tried to make, its backup.
BegunAt(r, s, f, b) == [r EXCEPT !.step = s, !.before = f, !.bak = b]

\* A call that begins its edit starts from what is there, whether its backup was made
\* or not.
LEMMA BackupKeeps ==
    ASSUME IInv, NEW c \in Call, NEW h \in Host, Backup(c, h) \/ BackupFails(c, h)
    PROVE  IInv'
<1> DEFINE r == call[c]
           s == Edit(c)
           f == host[h].fstab
<1>1. /\ TypeOK /\ Fine(r) /\ r \in CallState /\ call \in [Call -> CallState]
      /\ f \in SUBSET Line /\ host[h].backup \in Backups /\ AdminLineStays
  BY DEF IInv, Good, TypeOK, HostState
<1>2. r.step = "backup" /\ spoiled' = spoiled /\ spoiled \in BOOLEAN
  BY <1>1 DEF Backup, BackupFails, At, TypeOK
<1>3. /\ r.tool \in { "create_mount_point", "unmount_path" } /\ r.answer = "none"
      /\ ~r.listed /\ r.undo = "none"
  BY <1>1, <1>2 DEF Fine
<1>4. /\ s \in { "append", "sed" } /\ s \in Steps \union { "idle", "done" }
      /\ s = "append" => r.tool = "create_mount_point"
      /\ s = "sed" => r.tool = "unmount_path"
  BY <1>3, Names DEF Edit, Steps
<1> HIDE DEF s
<1>5. PICK cmd \in { "backup", "none" } : \E b \in Backups :
          /\ Carry(c, cmd, h, Begun(c, h, b))
          /\ b = IF cmd = "backup" THEN {f} ELSE host[h].backup
  <2>1. {f} \in Backups
    BY <1>1 DEF Backups
  <2>2. CASE Backup(c, h)
    BY <2>1, <2>2 DEF Backup
  <2>3. CASE BackupFails(c, h)
    BY <1>1, <2>3 DEF BackupFails
  <2>4. QED
    BY <2>2, <2>3
<1>6. PICK b \in Backups : /\ Carry(c, cmd, h, Begun(c, h, b))
                           /\ b = IF cmd = "backup" THEN {f} ELSE host[h].backup
  BY <1>5
<1> DEFINE x == BegunAt(r, s, f, b)
           y == call'[c]
<1>7. Carry(c, cmd, h, [call EXCEPT ![c] = x])
  <2>1. Begun(c, h, b) = [call EXCEPT ![c] = x]
    BY <1>1 DEF Begun, Goto, BegunAt, s
  <2>2. QED
    BY <1>6, <2>1
<1> HIDE DEF f
<1>8. x \in CallState /\ x.step = s /\ x.before = f /\ x.bak = b
  BY <1>1, <1>4, ZenonT(60) DEF CallState, BegunAt
<1>9. FstabMove(x, r, h) /\ ~x.listed /\ x.answer = "none"
  <2>1. /\ x.tool = r.tool /\ x.aim = r.aim /\ x.path = r.path /\ x.valid = r.valid
        /\ x.answer = r.answer /\ x.checked = r.checked /\ x.undo = r.undo
        /\ x.late = r.late /\ x.listed = r.listed
        /\ x.hosts = r.hosts /\ x.began = r.began /\ x.hit = r.hit
    BY <1>1 DEF CallState, BegunAt
  <2> HIDE DEF x
  <2>2. x.step \in FstabSteps /\ x.answer = "none" /\ x.undo = "none" /\ ~x.listed
    BY <1>3, <1>4, <1>8, <2>1 DEF FstabSteps
  <2>3. SameHistory(x, r) /\ Kin(x, r)
    BY <2>1 DEF SameHistory, Kin
  <2>4. /\ x.step = "append" => r.tool = "create_mount_point"
        /\ x.step = "sed" => r.tool = "unmount_path" /\ x.step # "replace"
    BY <1>4, <1>8
  <2>5. x.step # "replace"
    BY <1>4, <1>8
  <2>6. QED
    BY <1>8, <2>1, <2>2, <2>3, <2>4, <2>5 DEF FstabMove
<1> HIDE DEF x
<1>10. /\ Becomes(x, cmd, h, y) /\ Alters(c, cmd, host[h], host'[h])
       /\ AtOneHost(y) => \A k \in y.hosts : k = h
  BY <1>2, <1>7, <1>9, FstabOwn
<1>11. /\ y.step = s /\ y.before = f /\ y.bak = b /\ y.answer = "none" /\ ~y.listed
  BY <1>8, <1>9, <1>10 DEF Becomes, Same
<1>12. Kept(c, y, host')
  <2>1. host'[h].backup = b /\ host'[h].fstab = f
    BY <1>6, <1>10 DEF Alters, f
  <2>2. QED
    BY <1>4, <1>10, <1>11, <2>1 DEF Kept
<1>13. Whole(c, y) /\ Stays(c, y, host', call', spoiled') /\ Accepted(y, call', spoiled')
  BY <1>4, <1>11 DEF Whole, Stays, Accepted
<1>14. Remembers(y, spoiled')
  BY <1>1, <1>2, <1>11 DEF Remembers, AdminLineStays, f
<1>15. Careful(c, cmd, h)
  BY DEF Careful
<1>16. QED
  BY <1>2, <1>7, <1>9, <1>12, <1>13, <1>14, <1>15, FstabKeeps

\* Record x is record r after its handler has ended, with fstab f of host h and rollback u.
Ends(x, r, f, u, h) ==
    /\ FstabMove(x, r, h) /\ x.step = "done" /\ x.after = f /\ x.undo = u
    /\ x.before = r.before /\ x.bak = r.bak /\ (x.sound => r.sound)
    /\ x.listed => r.listed \/ r.step = "validate"

\* The answer that the entry is (not) there.
LEMMA EndedListed ==
    ASSUME NEW r \in CallState, NEW f \in SUBSET Line, NEW h, NEW x,
           x = [r EXCEPT !.step = "done", !.answer = "success", !.listed = TRUE,
                              !.after = f],
           r.step = "validate"
    PROVE  Ends(x, r, f, r.undo, h) /\ x.listed
<1>1. "done" \in Steps \union { "idle", "done" } /\ "success" \in Answers
      /\ NoPath \in Host \union {NoPath}
  BY Names
<1>2. x \in CallState
  BY <1>1, ZenonT(60) DEF CallState
<1>3. /\ x.tool = r.tool /\ x.aim = r.aim /\ x.path = r.path /\ x.valid = r.valid
      /\ x.answer = "success" /\ x.checked = r.checked /\ x.late = r.late
      /\ x.step = "done" /\ x.hosts = r.hosts /\ x.began = r.began /\ x.hit = r.hit
      /\ x.after = f /\ x.before = r.before /\ x.bak = r.bak /\ x.undo = r.undo
  BY DEF CallState
<1>4. (x.listed => r.listed \/ r.step = "validate") /\ x.listed
  BY DEF CallState
<1>5. x.sound => r.sound
  BY DEF CallState
<1>6. FstabMove(x, r, h)
  BY <1>2, <1>3 DEF FstabMove, SameHistory, Kin
<1>7. QED
  BY <1>3, <1>4, <1>5, <1>6 DEF Ends

\* The answer after a rollback.
LEMMA EndedRestored ==
    ASSUME NEW r \in CallState, NEW f \in SUBSET Line, NEW h, NEW x,
           x = [r EXCEPT !.step = "done", !.answer = "success", !.listed = FALSE,
                              !.after = f, !.undo = "restored"]
    PROVE  Ends(x, r, f, "restored", h)
<1>1. "done" \in Steps \union { "idle", "done" } /\ "success" \in Answers
      /\ NoPath \in Host \union {NoPath}
  BY Names
<1>2. x \in CallState
  BY <1>1, ZenonT(60) DEF CallState
<1>3. /\ x.tool = r.tool /\ x.aim = r.aim /\ x.path = r.path /\ x.valid = r.valid
      /\ x.answer = "success" /\ x.checked = r.checked /\ x.late = r.late
      /\ x.step = "done" /\ x.hosts = r.hosts /\ x.began = r.began /\ x.hit = r.hit
      /\ x.after = f /\ x.before = r.before /\ x.bak = r.bak /\ x.undo = "restored"
  BY DEF CallState
<1>4. (x.listed => r.listed \/ r.step = "validate")
  BY DEF CallState
<1>5. x.sound => r.sound
  BY DEF CallState
<1>6. FstabMove(x, r, h)
  BY <1>2, <1>3 DEF FstabMove, SameHistory, Kin
<1>7. QED
  BY <1>3, <1>4, <1>5, <1>6 DEF Ends

\* The answer after a rollback that failed.
LEMMA EndedFailed ==
    ASSUME NEW r \in CallState, NEW f \in SUBSET Line, NEW h, NEW x,
           x = [r EXCEPT !.step = "done", !.answer = "success", !.undo = "failed",
                              !.after = f]
    PROVE  Ends(x, r, f, "failed", h)
<1>1. "done" \in Steps \union { "idle", "done" } /\ "success" \in Answers
      /\ NoPath \in Host \union {NoPath}
  BY Names
<1>2. x \in CallState
  BY <1>1, ZenonT(60) DEF CallState
<1>3. /\ x.tool = r.tool /\ x.aim = r.aim /\ x.path = r.path /\ x.valid = r.valid
      /\ x.answer = "success" /\ x.checked = r.checked /\ x.late = r.late
      /\ x.step = "done" /\ x.hosts = r.hosts /\ x.began = r.began /\ x.hit = r.hit
      /\ x.after = f /\ x.before = r.before /\ x.bak = r.bak /\ x.undo = "failed"
  BY DEF CallState
<1>4. (x.listed => r.listed \/ r.step = "validate")
  BY DEF CallState
<1>5. x.sound => r.sound
  BY DEF CallState
<1>6. FstabMove(x, r, h)
  BY <1>2, <1>3 DEF FstabMove, SameHistory, Kin
<1>7. QED
  BY <1>3, <1>4, <1>5, <1>6 DEF Ends

\* The answer after a change that failed.
LEMMA EndedUnedited ==
    ASSUME NEW r \in CallState, NEW f \in SUBSET Line, NEW h, NEW x,
           x = [r EXCEPT !.step = "done", !.answer = "success", !.runsAt = NoPath,
                              !.after = f]
    PROVE  Ends(x, r, f, r.undo, h)
<1>1. "done" \in Steps \union { "idle", "done" } /\ "success" \in Answers
      /\ NoPath \in Host \union {NoPath}
  BY Names
<1>2. x \in CallState
  BY <1>1, ZenonT(60) DEF CallState
<1>3. /\ x.tool = r.tool /\ x.aim = r.aim /\ x.path = r.path /\ x.valid = r.valid
      /\ x.answer = "success" /\ x.checked = r.checked /\ x.late = r.late
      /\ x.step = "done" /\ x.hosts = r.hosts /\ x.began = r.began /\ x.hit = r.hit
      /\ x.after = f /\ x.before = r.before /\ x.bak = r.bak /\ x.undo = r.undo
  BY DEF CallState
<1>4. (x.listed => r.listed \/ r.step = "validate")
  BY DEF CallState
<1>5. x.sound => r.sound
  BY DEF CallState
<1>6. FstabMove(x, r, h)
  BY <1>2, <1>3 DEF FstabMove, SameHistory, Kin
<1>7. QED
  BY <1>3, <1>4, <1>5, <1>6 DEF Ends

\* The line that is appended is the one the call will report.
LEMMA AppendKeeps ==
    ASSUME IInv, NEW c \in Call, NEW h \in Host, AppendLine(c, h)
    PROVE  IInv'
<1> DEFINE r == call[c]
           x == [r EXCEPT !.step = "validate"]
           y == call'[c]
<1>1. /\ TypeOK /\ Fine(r) /\ Kept(c, r, host) /\ Remembers(r, spoiled) /\ r \in CallState
      /\ r.step = "append" /\ spoiled' = spoiled /\ spoiled \in BOOLEAN
      /\ Carry(c, "append", h, Goto(c, "validate"))
  BY DEF IInv, Good, AppendLine, At, TypeOK
<1>2. /\ r.answer = "none" /\ ~r.listed /\ r.undo = "none" /\ r.step \in FstabSteps
      /\ r.tool = "create_mount_point"
  BY <1>1 DEF Fine, FstabSteps
<1>3. /\ Goto(c, "validate") = [call EXCEPT ![c] = x] /\ Moves(x, r, "validate", r.answer)
      /\ x.checked = r.checked
  BY <1>1, GotoMoves, Names
<1> HIDE DEF x
<1>4. FstabMove(x, r, h)
  BY <1>2, <1>3 DEF Moves, FstabMove, FstabSteps
<1>5. Carry(c, "append", h, [call EXCEPT ![c] = x])
  BY <1>1, <1>3
<1>6. /\ Becomes(x, "append", h, y) /\ Alters(c, "append", host[h], host'[h])
      /\ (y.sound => x.sound) /\ (AtOneHost(y) => AtOneHost(r) /\ \A k \in y.hosts : k = h)
      /\ (AtOneHost(y) /\ r.step \in FstabSteps => h \in r.hosts)
  BY <1>1, <1>2, <1>4, <1>5, FstabOwn
<1>7. /\ y.tool = r.tool /\ y.path = r.path /\ y.valid = r.valid /\ y.step = "validate"
      /\ y.before = r.before /\ y.bak = r.bak /\ ~y.listed /\ y.answer = "none"
      /\ y.sound => r.sound
  BY <1>2, <1>3, <1>6 DEF Becomes, Same, Moves, Kin
<1>8. LineBy(c, y) = LineBy(c, r)
  BY <1>7 DEF LineBy
<1>9. /\ host'[h].fstab = host[h].fstab \union {LineBy(c, r)}
      /\ host'[h].backup = host[h].backup
  BY <1>6 DEF Alters
<1>10. Kept(c, y, host')
  <2> SUFFICES ASSUME y.sound, AtOneHost(y)
               PROVE  host'[h].backup = y.bak /\ host'[h].fstab = EditedBy(c, y)
    BY <1>6, <1>7 DEF Kept
  <2>1. host[h].backup = r.bak /\ host[h].fstab = r.before
    BY <1>1, <1>2, <1>6, <1>7 DEF Kept
  <2>2. QED
    BY <1>2, <1>7, <1>8, <1>9, <2>1 DEF EditedBy
<1>11. Whole(c, y) /\ Accepted(y, call', spoiled') /\ Remembers(y, spoiled')
  BY <1>1, <1>2, <1>7 DEF Whole, Accepted, Remembers
<1>12. Stays(c, y, host', call', spoiled')
  BY <1>6, <1>8, <1>9 DEF Stays
<1>13. Careful(c, "append", h)
  BY DEF Careful
<1>14. QED
  BY <1>1, <1>2, <1>3, <1>4, <1>10, <1>11, <1>12, <1>13, FstabKeeps

\* A sed that has fstab to itself reads what the call found there.
LEMMA SedReadsKeeps ==
    ASSUME IInv, NEW c \in Call, NEW h \in Host, SedReads(c, h)
    PROVE  IInv'
<1> DEFINE r == call[c]
           x == [r EXCEPT !.step = "replace", !.runsAt = h]
           y == call'[c]
<1>1. /\ TypeOK /\ Fine(r) /\ Kept(c, r, host) /\ Remembers(r, spoiled) /\ r \in CallState
      /\ r.step = "sed" /\ spoiled' = spoiled /\ spoiled \in BOOLEAN
      /\ call \in [Call -> CallState]
      /\ Carry(c, "sed", h, [Goto(c, "replace") EXCEPT ![c].runsAt = h])
  BY DEF IInv, Good, SedReads, At, TypeOK
<1>2. /\ r.answer = "none" /\ ~r.listed /\ r.undo = "none" /\ r.step \in FstabSteps
      /\ r.tool = "unmount_path"
  BY <1>1 DEF Fine, FstabSteps
<1>3. Carry(c, "sed", h, [call EXCEPT ![c] = x])
  <2>1. [Goto(c, "replace") EXCEPT ![c].runsAt = h] = [call EXCEPT ![c] = x]
    BY <1>1 DEF Goto
  <2>2. QED
    BY <1>1, <2>1
<1>4. x \in CallState
  <2>1. "replace" \in Steps \union { "idle", "done" } /\ NoPath \in Host \union {NoPath}
    BY Names
  <2>2. h \in Host \union {NoPath}
    OBVIOUS
  <2>3. QED
    BY <1>1, <2>1, <2>2, ZenonT(60) DEF CallState
<1>5. /\ x.step = "replace" /\ x.runsAt = h /\ x.answer = r.answer /\ x.undo = r.undo
      /\ x.listed = r.listed /\ x.before = r.before /\ x.bak = r.bak /\ x.sound = r.sound
      /\ x.tool = r.tool /\ x.aim = r.aim /\ x.path = r.path /\ x.valid = r.valid
      /\ x.checked = r.checked /\ x.late = r.late
      /\ x.hosts = r.hosts /\ x.began = r.began /\ x.hit = r.hit
  BY <1>1 DEF CallState
<1> HIDE DEF x
<1>6. FstabMove(x, r, h)
  BY <1>2, <1>4, <1>5 DEF FstabMove, FstabSteps, SameHistory, Kin
<1>7. /\ Becomes(x, "sed", h, y) /\ Alters(c, "sed", host[h], host'[h])
      /\ (y.sound => x.sound) /\ (AtOneHost(y) => AtOneHost(r) /\ \A k \in y.hosts : k = h)
      /\ (AtOneHost(y) /\ r.step \in FstabSteps => h \in r.hosts)
  BY <1>1, <1>2, <1>3, <1>6, FstabOwn
<1>8. /\ y.step = "replace" /\ y.before = r.before /\ y.bak = r.bak /\ ~y.listed
      /\ y.answer = "none" /\ y.read = host[h].fstab /\ (y.sound => r.sound)
  BY <1>2, <1>5, <1>7 DEF Becomes, Same
<1>9. host'[h].fstab = host[h].fstab /\ host'[h].backup = host[h].backup
  BY <1>7 DEF Alters
<1>10. Kept(c, y, host')
  <2> SUFFICES ASSUME y.sound, AtOneHost(y)
               PROVE  /\ y.read = y.before
                      /\ host'[h].backup = y.bak /\ host'[h].fstab = y.before
    BY <1>7, <1>8 DEF Kept
  <2>1. host[h].backup = r.bak /\ host[h].fstab = r.before
    BY <1>1, <1>2, <1>7, <1>8 DEF Kept
  <2>2. QED
    BY <1>8, <1>9, <2>1
<1>11. Whole(c, y) /\ Stays(c, y, host', call', spoiled') /\ Accepted(y, call', spoiled')
       /\ Remembers(y, spoiled')
  BY <1>1, <1>2, <1>8 DEF Whole, Stays, Accepted, Remembers
<1>12. Careful(c, "sed", h)
  BY DEF Careful
<1>13. QED
  BY <1>1, <1>2, <1>3, <1>6, <1>10, <1>11, <1>12, FstabKeeps

\* And replaces it by that without the lines of the call's path.
LEMMA SedReplacesKeeps ==
    ASSUME IInv, NEW c \in Call, NEW h \in Host, SedReplaces(c, h)
    PROVE  IInv'
<1> DEFINE r == call[c]
           x == [r EXCEPT !.step = "validate", !.runsAt = NoPath]
           y == call'[c]
<1>1. /\ TypeOK /\ Fine(r) /\ Kept(c, r, host) /\ Remembers(r, spoiled) /\ r \in CallState
      /\ r.step = "replace" /\ call \in [Call -> CallState]
      /\ Carry(c, "replace", h, [Goto(c, "validate") EXCEPT ![c].runsAt = NoPath])
  BY DEF IInv, Good, SedReplaces, At, TypeOK
<1>2. /\ spoiled' \in BOOLEAN /\ (spoiled => spoiled')
      /\ spoiled' \/ r.read = host[h].fstab
  BY DEF IInv, TypeOK, SedReplaces, Outdated
<1>3. /\ r.answer = "none" /\ ~r.listed /\ r.undo = "none" /\ r.step \in FstabSteps
      /\ r.tool = "unmount_path"
  BY <1>1 DEF Fine, FstabSteps
<1>4. Carry(c, "replace", h, [call EXCEPT ![c] = x])
  <2>1. [Goto(c, "validate") EXCEPT ![c].runsAt = NoPath] = [call EXCEPT ![c] = x]
    BY <1>1 DEF Goto
  <2>2. QED
    BY <1>1, <2>1
<1>5. x \in CallState
  <2>1. "validate" \in Steps \union { "idle", "done" } /\ NoPath \in Host \union {NoPath}
    BY Names
  <2>2. h \in Host \union {NoPath}
    OBVIOUS
  <2>3. QED
    BY <1>1, <2>1, <2>2, ZenonT(60) DEF CallState
<1>6. /\ x.step = "validate" /\ x.answer = r.answer /\ x.undo = r.undo
      /\ x.listed = r.listed /\ x.before = r.before /\ x.bak = r.bak /\ x.sound = r.sound
      /\ x.tool = r.tool /\ x.aim = r.aim /\ x.path = r.path /\ x.valid = r.valid
      /\ x.checked = r.checked /\ x.late = r.late
      /\ x.hosts = r.hosts /\ x.began = r.began /\ x.hit = r.hit
  BY <1>1 DEF CallState
<1> HIDE DEF x
<1>7. FstabMove(x, r, h)
  BY <1>3, <1>5, <1>6 DEF FstabMove, FstabSteps, SameHistory, Kin
<1>8. /\ Becomes(x, "replace", h, y) /\ Alters(c, "replace", host[h], host'[h])
      /\ (y.sound => x.sound) /\ (AtOneHost(y) => AtOneHost(r) /\ \A k \in y.hosts : k = h)
      /\ (AtOneHost(y) /\ r.step \in FstabSteps => h \in r.hosts)
  BY <1>1, <1>2, <1>3, <1>4, <1>7, FstabOwn
<1>9. /\ y.tool = r.tool /\ y.path = r.path /\ y.step = "validate" /\ y.before = r.before
      /\ y.bak = r.bak /\ ~y.listed /\ y.answer = "none" /\ (y.sound => r.sound)
  BY <1>3, <1>6, <1>8 DEF Becomes, Same
<1>10. /\ host'[h].fstab = NotAt(r.read, r.path)
       /\ host'[h].backup = host[h].backup
  BY <1>8 DEF Alters
<1>11. Kept(c, y, host')
  <2> SUFFICES ASSUME y.sound, AtOneHost(y)
               PROVE  host'[h].backup = y.bak /\ host'[h].fstab = EditedBy(c, y)
    BY <1>8, <1>9 DEF Kept
  <2>1. host[h].backup = r.bak /\ r.read = r.before
    BY <1>1, <1>3, <1>8, <1>9 DEF Kept
  <2>2. QED
    BY <1>3, <1>9, <1>10, <2>1 DEF EditedBy
<1>12. Whole(c, y) /\ Accepted(y, call', spoiled') /\ Remembers(y, spoiled')
  BY <1>1, <1>2, <1>3, <1>9 DEF Whole, Accepted, Remembers
<1>13. Stays(c, y, host', call', spoiled')
  BY <1>3, <1>9 DEF Stays
<1>14. Careful(c, "replace", h)
  BY <1>2, <1>3 DEF Careful
<1>15. QED
  BY <1>1, <1>2, <1>3, <1>4, <1>7, <1>11, <1>12, <1>13, <1>14, FstabKeeps

\* The conclusion of a handler that has not come to the end of its change.
LEMMA EditFailsKeeps ==
    ASSUME IInv, NEW c \in Call, NEW h \in Host, EditFails(c, h)
    PROVE  IInv'
<1> DEFINE r == call[c]
           f == host[h].fstab
           x == [r EXCEPT !.step = "done", !.answer = "success", !.runsAt = NoPath,
                          !.after = f]
           y == call'[c]
<1>1. /\ TypeOK /\ Fine(r) /\ Kept(c, r, host) /\ r \in CallState /\ f \in SUBSET Line
      /\ r.step \in { "append", "sed", "replace" } /\ spoiled' = spoiled /\ spoiled \in BOOLEAN
      /\ call \in [Call -> CallState]
  BY DEF IInv, Good, EditFails, TypeOK, HostState
<1>2. r.answer = "none" /\ ~r.listed /\ r.undo = "none" /\ r.step \in FstabSteps
  BY <1>1 DEF Fine, FstabSteps
<1>3. Carry(c, "none", h, [call EXCEPT ![c] = x])
  BY <1>1 DEF EditFails
<1>4. Ends(x, r, f, r.undo, h)
  <2>1. r \in CallState /\ f \in SUBSET Line
    BY <1>1
  <2>2. x = [r EXCEPT !.step = "done", !.answer = "success", !.runsAt = NoPath,
                    !.after = f]
    OBVIOUS
  <2> HIDE DEF r, f, x
  <2>3. QED
    BY <2>1, <2>2, EndedUnedited
<1>5. /\ FstabMove(x, r, h) /\ x.step = "done" /\ x.after = f /\ x.before = r.before
      /\ ~x.listed /\ x.undo = "none" /\ (x.sound => r.sound)
  BY <1>1, <1>2, <1>4 DEF Ends
<1> HIDE DEF x, f
<1>6. /\ Becomes(x, "none", h, y)
      /\ (y.sound => x.sound) /\ (AtOneHost(y) => AtOneHost(r) /\ \A k \in y.hosts : k = h)
      /\ (AtOneHost(y) /\ r.step \in FstabSteps => h \in r.hosts)
  BY <1>1, <1>2, <1>3, <1>4, <1>5, FstabOwn
<1>7. y.before = r.before /\ y.after = f /\ ~y.listed /\ y.step = "done" /\ y.undo = "none"
      /\ (y.sound => r.sound)
  BY <1>4, <1>5, <1>6 DEF Becomes, Same
<1>8. Whole(c, y)
  <2> SUFFICES ASSUME y.sound, AtOneHost(y)
               PROVE  f = y.before
    BY <1>7 DEF Whole
  <2>1. host[h].fstab = r.before
    BY <1>1, <1>2, <1>6, <1>7 DEF Kept
  <2>2. QED
    BY <1>7, <2>1 DEF f
<1>9. Kept(c, y, host') /\ Stays(c, y, host', call', spoiled') /\ Accepted(y, call', spoiled')
      /\ Remembers(y, spoiled')
  BY <1>7 DEF Kept, Stays, Accepted, Remembers, FstabSteps
<1>10. Careful(c, "none", h)
  BY DEF Careful
<1>11. QED
  BY <1>1, <1>2, <1>3, <1>4, <1>5, <1>8, <1>9, <1>10, FstabKeeps

\* A valid fstab ends the call.
LEMMA ValidatedKeeps ==
    ASSUME IInv, NEW c \in Call, NEW h \in Host, Validate(c, h), FstabValid(host[h])
    PROVE  IInv'
<1> DEFINE r == call[c]
           f == host[h].fstab
           x == [r EXCEPT !.step = "done", !.answer = "success", !.listed = TRUE, !.after = f]
           y == call'[c]
<1>1. /\ TypeOK /\ Fine(r) /\ Kept(c, r, host) /\ Stays(c, r, host, call, spoiled)
      /\ r.step = "validate" /\ spoiled' = spoiled /\ spoiled \in BOOLEAN /\ r \in CallState
      /\ f \in SUBSET Line /\ call \in [Call -> CallState]
  BY DEF IInv, Good, Validate, TypeOK, At, HostState
<1>2. r.step \in FstabSteps
  BY <1>1 DEF FstabSteps
<1>3. Carry(c, "validate", h, [call EXCEPT ![c] = x])
  <2>1. Effect(c, r.step, host[h]) = host[h]
    BY <1>1 DEF Effect
  <2>2. Carry(c, "validate", h, EndFstab(c, h, TRUE))
    BY DEF Validate
  <2>3. EndFstab(c, h, TRUE) = [call EXCEPT ![c] = x]
    BY <1>1, <2>1 DEF EndFstab
  <2>4. QED
    BY <2>2, <2>3
<1>4. Ends(x, r, f, r.undo, h) /\ x.listed
  <2>1. r \in CallState /\ f \in SUBSET Line /\ r.step = "validate"
    BY <1>1
  <2>2. x = [r EXCEPT !.step = "done", !.answer = "success", !.listed = TRUE,
                    !.after = f]
    OBVIOUS
  <2> HIDE DEF r, f, x
  <2>3. QED
    BY <2>1, <2>2, EndedListed
<1>5. /\ FstabMove(x, r, h) /\ x.step = "done" /\ x.after = f /\ x.before = r.before
      /\ (x.sound => r.sound)
  BY <1>4 DEF Ends
<1> HIDE DEF x, f
<1>6. /\ Becomes(x, "validate", h, y) /\ Alters(c, "validate", host[h], host'[h])
      /\ (y.sound => x.sound)
      /\ (AtOneHost(y) => AtOneHost(r) /\ \A k \in y.hosts : k = h)
      /\ (AtOneHost(y) /\ r.step \in FstabSteps => h \in r.hosts)
      /\ Makes(c, "validate", h, x)
  BY <1>1, <1>2, <1>3, <1>4, <1>5, FstabOwn
<1>7. /\ y.tool = r.tool /\ y.path = r.path /\ y.valid = r.valid
      /\ y.before = r.before /\ y.after = f /\ y.listed /\ y.step = "done"
      /\ (y.sound => r.sound)
  BY <1>4, <1>5, <1>6 DEF Becomes, Same, FstabMove, Kin
<1>8. EditedBy(c, y) = EditedBy(c, r) /\ LineBy(c, y) = LineBy(c, r)
  BY <1>7 DEF EditedBy, LineBy
<1>9. Whole(c, y)
  <2> SUFFICES ASSUME y.sound, AtOneHost(y) PROVE  f = EditedBy(c, y)
    BY <1>7 DEF Whole
  <2>1. host[h].fstab = EditedBy(c, r)
    BY <1>1, <1>2, <1>6, <1>7 DEF Kept
  <2>2. QED
    BY <1>8, <2>1 DEF f
<1>10. (\A d \in Call : call'[d].tool = "unmount_path" => call'[d].path # y.path)
      => \A d \in Call : call[d].tool = "unmount_path" => call[d].path # r.path
  BY <1>1, <1>6, <1>7, TypedAfter
<1>11. ASSUME y.tool = "create_mount_point", AtOneHost(y), ~spoiled',
              \A d \in Call : call'[d].tool = "unmount_path" => call'[d].path # y.path
       PROVE  LineBy(c, r) \in host[h].fstab
  <2>1. \A d \in Call : call[d].tool = "unmount_path" => call[d].path # r.path
    BY <1>10, <1>11
  <2>2. QED
    BY <1>1, <1>2, <1>6, <1>7, <1>11, <2>1 DEF Stays
<1>12. Stays(c, y, host', call', spoiled')
  <2>1. host'[h].fstab = host[h].fstab
    BY <1>6 DEF Alters
  <2>2. QED
    BY <1>6, <1>8, <1>11, <2>1 DEF Stays
<1>13. Accepted(y, call', spoiled')
  <2>1. LineBy(c, r) \in host[h].fstab => r.valid
    BY DEF FstabValid, LineBy
  <2>2. QED
    BY <1>7, <1>11, <2>1 DEF Accepted
<1>14. Kept(c, y, host') /\ Remembers(y, spoiled') /\ Careful(c, "validate", h)
  BY <1>7 DEF Kept, Remembers, FstabSteps, Careful
<1>15. QED
  BY <1>1, <1>2, <1>3, <1>4, <1>5, <1>9, <1>12, <1>13, <1>14, FstabKeeps

\* An invalid one sends it to the rollback.
LEMMA InvalidKeeps ==
    ASSUME IInv, NEW c \in Call, NEW h \in Host, Validate(c, h), ~FstabValid(host[h])
    PROVE  IInv'
<1> DEFINE r == call[c]
           x == [r EXCEPT !.step = "rollback"]
           y == call'[c]
<1>1. /\ TypeOK /\ Fine(r) /\ Kept(c, r, host) /\ Remembers(r, spoiled)
      /\ r.step = "validate" /\ spoiled' = spoiled /\ spoiled \in BOOLEAN
      /\ Carry(c, "validate", h, Goto(c, "rollback"))
  BY DEF IInv, Good, Validate, TypeOK, At
<1>2. r.answer = "none" /\ ~r.listed /\ r.undo = "none" /\ r.step \in FstabSteps
  BY <1>1 DEF Fine, FstabSteps
<1>3. /\ Goto(c, "rollback") = [call EXCEPT ![c] = x] /\ Moves(x, r, "rollback", r.answer)
      /\ x.checked = r.checked
  BY <1>1, GotoMoves, Names
<1> HIDE DEF x
<1>4. FstabMove(x, r, h)
  BY <1>2, <1>3 DEF Moves, FstabMove, FstabSteps
<1>5. Carry(c, "validate", h, [call EXCEPT ![c] = x])
  BY <1>1, <1>3
<1>6. /\ Becomes(x, "validate", h, y) /\ Alters(c, "validate", host[h], host'[h])
      /\ (y.sound => x.sound)
      /\ (AtOneHost(y) => AtOneHost(r) /\ \A k \in y.hosts : k = h)
      /\ (AtOneHost(y) /\ r.step \in FstabSteps => h \in r.hosts)
  BY <1>1, <1>2, <1>4, <1>5, FstabOwn
<1>7. /\ y.tool = r.tool /\ y.path = r.path /\ y.valid = r.valid /\ y.step = "rollback"
      /\ y.before = r.before /\ y.bak = r.bak /\ ~y.listed /\ y.answer = "none"
      /\ (y.sound => r.sound)
  BY <1>2, <1>3, <1>6 DEF Becomes, Same, Moves, Kin
<1>8. EditedBy(c, y) = EditedBy(c, r)
  BY <1>7 DEF EditedBy, LineBy
<1>9. Kept(c, y, host')
  <2> SUFFICES ASSUME y.sound, AtOneHost(y)
               PROVE  host'[h].backup = y.bak /\ host'[h].fstab = EditedBy(c, y)
    BY <1>6, <1>7 DEF Kept
  <2>1. host[h].backup = r.bak /\ host[h].fstab = EditedBy(c, r)
    BY <1>1, <1>2, <1>6, <1>7 DEF Kept
  <2>2. host'[h].backup = host[h].backup /\ host'[h].fstab = host[h].fstab
    BY <1>6 DEF Alters
  <2>3. QED
    BY <1>7, <1>8, <2>1, <2>2
<1>10. Whole(c, y) /\ Stays(c, y, host', call', spoiled') /\ Accepted(y, call', spoiled')
      /\ Remembers(y, spoiled') /\ Careful(c, "validate", h)
  BY <1>1, <1>2, <1>7 DEF Whole, Stays, Accepted, Remembers, Careful
<1>11. QED
  BY <1>1, <1>2, <1>3, <1>4, <1>9, <1>10, FstabKeeps

\* A rollback leaves what the newest backup has: what the call found, or fstab is
\* spoiled.
LEMMA RollbackKeeps ==
    ASSUME IInv, NEW c \in Call, NEW h \in Host, Rollback(c, h)
    PROVE  IInv'
<1> DEFINE r == call[c]
           f == Effect(c, "rollback", host[h]).fstab
           x == [r EXCEPT !.step = "done", !.answer = "success", !.listed = FALSE,
                          !.after = f, !.undo = "restored"]
           y == call'[c]
<1>1. /\ TypeOK /\ Fine(r) /\ Kept(c, r, host) /\ r.step = "rollback" /\ r \in CallState
      /\ host[h] \in HostState /\ call \in [Call -> CallState] /\ host[h].backup # {}
  BY DEF IInv, Good, Rollback, TypeOK, At
<1>2. r.step \in FstabSteps /\ r.hosts # {} /\ ~r.listed
  BY <1>1 DEF Fine, FstabSteps
<1>3. f \in SUBSET Line /\ f = UNION host[h].backup
  <2>1. /\ Effect(c, "rollback", host[h]) \in HostState
        /\ Alters(c, "rollback", host[h], Effect(c, "rollback", host[h]))
    BY <1>1, EffectAlters
  <2>2. QED
    BY <1>1, <2>1 DEF Alters, HostState
<1> HIDE DEF f
<1>4. Carry(c, "rollback", h, [call EXCEPT ![c] = x])
  <2>1. Carry(c, "rollback", h, [EndFstab(c, h, FALSE) EXCEPT ![c].undo = "restored"])
    BY DEF Rollback
  <2>2. [EndFstab(c, h, FALSE) EXCEPT ![c].undo = "restored"] = [call EXCEPT ![c] = x]
    BY <1>1 DEF EndFstab, f
  <2>3. QED
    BY <2>1, <2>2
<1>5. Ends(x, r, f, "restored", h)
  <2>1. r \in CallState /\ f \in SUBSET Line
    BY <1>1, <1>3
  <2>2. x = [r EXCEPT !.step = "done", !.answer = "success", !.listed = FALSE,
                    !.after = f, !.undo = "restored"]
    OBVIOUS
  <2> HIDE DEF r, f, x
  <2>3. QED
    BY <2>1, <2>2, EndedRestored
<1>6. /\ FstabMove(x, r, h) /\ x.step = "done" /\ x.after = f /\ x.bak = r.bak
      /\ ~x.listed /\ x.undo = "restored" /\ (x.sound => r.sound)
  BY <1>1, <1>2, <1>5 DEF Ends
<1> HIDE DEF x
<1>7. spoiled' \in BOOLEAN /\ (spoiled => spoiled')
  BY DEF Rollback, IInv, TypeOK
<1>8. /\ Becomes(x, "rollback", h, y)
      /\ (y.sound => x.sound) /\ (AtOneHost(y) => AtOneHost(r) /\ \A k \in y.hosts : k = h)
      /\ (AtOneHost(y) /\ r.step \in FstabSteps => h \in r.hosts)
  BY <1>1, <1>2, <1>4, <1>5, <1>6, <1>7, FstabOwn
<1>9. /\ y.after = f /\ y.bak = r.bak /\ ~y.listed /\ y.step = "done" /\ y.undo = "restored"
      /\ (y.sound => r.sound)
  BY <1>5, <1>6, <1>8 DEF Becomes, Same
<1>10. Whole(c, y)
  <2> SUFFICES ASSUME y.sound, AtOneHost(y) PROVE f = UNION y.bak
    BY <1>9 DEF Whole
  <2>1. host[h].backup = r.bak
    BY <1>1, <1>2, <1>8, <1>9 DEF Kept
  <2>2. QED
    BY <1>3, <1>9, <2>1
<1>11. Kept(c, y, host') /\ Stays(c, y, host', call', spoiled') /\ Accepted(y, call', spoiled')
       /\ Remembers(y, spoiled')
  BY <1>9 DEF Kept, Stays, Accepted, Remembers, FstabSteps
<1>12. Careful(c, "rollback", h)
  <2> DEFINE z == Noted(call, c, "rollback", h)[c]
  <2>1. /\ z.bak = r.bak /\ z.before = r.before /\ z.hosts = r.hosts \union {h}
        /\ (z.sound => r.sound)
    BY <1>1, NotedFields DEF Same
  <2>2. spoiled' \/ (z.sound /\ z.hosts = {h} /\ z.bak = {z.before})
    BY DEF Rollback, OwnBackup
  <2> HIDE DEF z
  <2>3. z.hosts = {h} => r.hosts = {h}
    BY <1>2, <2>1
  <2>4. QED
    BY <1>1, <2>1, <2>2, <2>3 DEF Careful
<1>13. QED
  BY <1>1, <1>2, <1>4, <1>5, <1>6, <1>7, <1>10, <1>11, <1>12, FstabKeeps

\* A rollback that fails leaves the edit.
LEMMA RollbackFailsKeeps ==
    ASSUME IInv, NEW c \in Call, NEW h \in Host, RollbackFails(c, h)
    PROVE  IInv'
<1> DEFINE r == call[c]
           f == host[h].fstab
           x == [r EXCEPT !.step = "done", !.answer = "success", !.undo = "failed",
                          !.after = f]
           y == call'[c]
<1>1. /\ TypeOK /\ Fine(r) /\ Kept(c, r, host) /\ r \in CallState /\ f \in SUBSET Line
      /\ r.step = "rollback" /\ spoiled' = spoiled /\ spoiled \in BOOLEAN
      /\ call \in [Call -> CallState]
  BY DEF IInv, Good, RollbackFails, TypeOK, At, HostState
<1>2. ~r.listed /\ r.undo = "none" /\ r.step \in FstabSteps
  BY <1>1 DEF Fine, FstabSteps
<1>3. Carry(c, "none", h, [call EXCEPT ![c] = x])
  BY <1>1 DEF RollbackFails
<1>4. Ends(x, r, f, "failed", h)
  <2>1. r \in CallState /\ f \in SUBSET Line
    BY <1>1
  <2>2. x = [r EXCEPT !.step = "done", !.answer = "success", !.undo = "failed",
                    !.after = f]
    OBVIOUS
  <2> HIDE DEF r, f, x
  <2>3. QED
    BY <2>1, <2>2, EndedFailed
<1>5. /\ FstabMove(x, r, h) /\ x.step = "done" /\ x.after = f /\ x.before = r.before
      /\ ~x.listed /\ x.undo = "failed" /\ (x.sound => r.sound)
  BY <1>1, <1>2, <1>4 DEF Ends
<1> HIDE DEF x, f
<1>6. /\ Becomes(x, "none", h, y)
      /\ (y.sound => x.sound) /\ (AtOneHost(y) => AtOneHost(r) /\ \A k \in y.hosts : k = h)
      /\ (AtOneHost(y) /\ r.step \in FstabSteps => h \in r.hosts)
  BY <1>1, <1>2, <1>3, <1>4, <1>5, FstabOwn
<1>7. /\ y.tool = r.tool /\ y.path = r.path /\ y.valid = r.valid /\ y.before = r.before
      /\ y.after = f /\ ~y.listed /\ y.step = "done" /\ y.undo = "failed"
      /\ (y.sound => r.sound)
  BY <1>4, <1>5, <1>6 DEF Becomes, Same, FstabMove, Kin
<1>8. Whole(c, y)
  <2> SUFFICES ASSUME y.sound, AtOneHost(y) PROVE f = EditedBy(c, y)
    BY <1>7 DEF Whole
  <2>1. host[h].fstab = EditedBy(c, r)
    BY <1>1, <1>2, <1>6, <1>7 DEF Kept
  <2>2. EditedBy(c, y) = EditedBy(c, r)
    BY <1>7 DEF EditedBy, LineBy
  <2>3. QED
    BY <2>1, <2>2 DEF f
<1>9. Kept(c, y, host') /\ Stays(c, y, host', call', spoiled') /\ Accepted(y, call', spoiled')
      /\ Remembers(y, spoiled') /\ Careful(c, "none", h)
  BY <1>7 DEF Kept, Stays, Accepted, Remembers, FstabSteps, Careful
<1>10. QED
  BY <1>1, <1>2, <1>3, <1>4, <1>5, <1>8, <1>9, FstabKeeps

----------------------------------------------------------------------------
\* A command that nobody waits for, and what happens outside the tools.

\* A step that changes only the record of call c.
LEMMA RecordKeeps ==
    ASSUME IInv, NEW c \in Call, NEW x \in CallState, call' = [call EXCEPT ![c] = x],
           UNCHANGED <<disk, route, host, spoiled>>,
           call[c].tool = "unmount_path" => x.tool = "unmount_path" /\ x.path = call[c].path,
           Fine(x), Passed(x), Unseen(x, host), HitUnseen(x),
           x.step \notin FstabSteps, ~x.listed, x.answer # "success"
    PROVE  IInv'
<1>1. TypeOK /\ \A d \in Call : Good(d, call[d], host, call, spoiled)
  BY DEF IInv
<1>2. call'[c] = x /\ \A d \in Call \ {c} : call'[d] = call[d]
  BY <1>1 DEF TypeOK
<1>3. TypeOK'
  BY <1>1 DEF TypeOK
<1>4. Good(c, x, host, call', spoiled)
  BY DEF Good, Kept, Whole, Stays, Accepted, Remembers, FstabSteps
<1>5. ASSUME NEW d \in Call, d # c PROVE Good(d, call[d], host, call', spoiled)
  <2>1. Stays(d, call[d], host, call, spoiled)
    BY <1>1 DEF Good
  <2>2. (\A e \in Call : call'[e].tool = "unmount_path" => call'[e].path # call[d].path)
        => \A e \in Call : call[e].tool = "unmount_path" => call[e].path # call[d].path
    BY <1>2
  <2>3. Stays(d, call[d], host, call', spoiled)
    BY <2>1, <2>2 DEF Stays
  <2>4. Accepted(call[d], call', spoiled)
    BY <1>1, <2>2 DEF Good, Accepted
  <2>5. QED
    BY <1>1, <2>3, <2>4 DEF Good
<1>6. ASSUME NEW d \in Call PROVE Good(d, call'[d], host', call', spoiled')
  <2>1. CASE d = c
    BY <1>2, <1>4, <2>1
  <2>2. CASE d # c
    BY <1>2, <1>5, <2>2
  <2>3. QED
    BY <2>1, <2>2
<1>7. AdminLineStays'
  BY DEF IInv, AdminLineStays
<1>8. QED
  BY <1>3, <1>6, <1>7, Primed

\* A call that begins has passed no check.
LEMMA StartedKeeps ==
    ASSUME IInv, NEW c \in Call, NEW x \in CallState, Start(c, x),
           x.step \in { "boot", "target", "path" }, Belongs(x.step, x.tool),
           x.tool \in { "create_mount_point", "unmount_path" } => x.path \in Path,
           x.hosts = {}, x.hit = {}, x.late = "none", x.before = {}, x.answer = "none",
           ~x.listed, x.undo = "none", \A s \in Gates : x.checked[s] = NoPath
    PROVE  IInv'
<1>1. /\ call[c].tool = "none" /\ call' = [call EXCEPT ![c] = x]
      /\ UNCHANGED <<disk, route, host, spoiled>>
  BY DEF Start, NoCall
<1>2. Fine(x) /\ Passed(x)
  BY DEF Fine, Passed, Belongs, Destroying, Destructive, FstabSteps
<1>3. NoPath \notin Host /\ \A s \in GatesOf(x.tool) : s \in Gates
  BY LineAssumption DEF GatesOf, Gates
<1>4. Unseen(x, host) /\ HitUnseen(x)
  BY <1>3 DEF Unseen, HitUnseen
<1>5. QED
  BY <1>1, <1>2, <1>4, RecordKeeps DEF FstabSteps

\* A call begins.
LEMMA StartKeeps ==
    ASSUME IInv, NEW c \in Call, Partition(c) \/ Format(c) \/ Mount(c) \/ Unmount(c)
    PROVE  IInv'
<1>1. /\ "boot" \in Steps \union { "idle", "done" } /\ "target" \in Steps \union { "idle", "done" }
      /\ "path" \in Steps \union { "idle", "done" }
      /\ "partition_disk" \in Tools \union { "none" } /\ "format_disk" \in Tools \union { "none" }
      /\ "create_mount_point" \in Tools \union { "none" }
      /\ "unmount_path" \in Tools \union { "none" }
  BY Names
<1>2. CASE Partition(c)
  <2> DEFINE x == [NoCall EXCEPT !.tool = "partition_disk", !.step = "boot"]
  <2>1. x \in CallState
    BY <1>1, NoCallTyped, ZenonT(60) DEF CallState
  <2>2. /\ x.tool = "partition_disk" /\ x.step = "boot" /\ x.hosts = {} /\ x.hit = {}
        /\ x.late = "none" /\ x.before = {} /\ x.answer = "none" /\ ~x.listed
        /\ x.undo = "none" /\ \A s \in Gates : x.checked[s] = NoPath
    BY DEF NoCall
  <2>3. Start(c, x)
    BY <1>2 DEF Partition
  <2> HIDE DEF x
  <2>4. Belongs(x.step, x.tool)
    BY <2>2 DEF Belongs, Destructive
  <2>5. QED
    BY <2>1, <2>2, <2>3, <2>4, StartedKeeps
<1>3. CASE Format(c)
  <2>1. PICK a \in { "disk", "partition" } :
            Start(c, [NoCall EXCEPT !.tool = "format_disk", !.step = "target", !.aim = a])
    BY <1>3 DEF Format
  <2> DEFINE x == [NoCall EXCEPT !.tool = "format_disk", !.step = "target", !.aim = a]
  <2>2. x \in CallState
    BY <1>1, NoCallTyped, ZenonT(60) DEF CallState
  <2>3. /\ x.tool = "format_disk" /\ x.step = "target" /\ x.hosts = {} /\ x.hit = {}
        /\ x.late = "none" /\ x.before = {} /\ x.answer = "none" /\ ~x.listed
        /\ x.undo = "none" /\ \A s \in Gates : x.checked[s] = NoPath
    BY DEF NoCall
  <2>4. Start(c, x)
    BY <2>1
  <2> HIDE DEF x
  <2>5. Belongs(x.step, x.tool)
    BY <2>3 DEF Belongs, Destructive
  <2>6. QED
    BY <2>2, <2>3, <2>4, <2>5, StartedKeeps
<1>4. CASE Mount(c)
  <2>1. PICK p \in Path, v \in BOOLEAN :
            Start(c, [NoCall EXCEPT !.tool = "create_mount_point", !.step = "path",
                            !.path = p, !.valid = v])
    BY <1>4 DEF Mount
  <2> DEFINE x == [NoCall EXCEPT !.tool = "create_mount_point", !.step = "path",
                            !.path = p, !.valid = v]
  <2>2. x \in CallState
    BY <1>1, NoCallTyped, ZenonT(60) DEF CallState
  <2>3. /\ x.tool = "create_mount_point" /\ x.step = "path" /\ x.hosts = {} /\ x.hit = {}
        /\ x.late = "none" /\ x.before = {} /\ x.answer = "none" /\ ~x.listed /\ x.path = p
        /\ x.undo = "none" /\ \A s \in Gates : x.checked[s] = NoPath
    BY DEF NoCall
  <2>4. Start(c, x)
    BY <2>1
  <2> HIDE DEF x
  <2>5. Belongs(x.step, x.tool)
    BY <2>3 DEF Belongs, Destructive
  <2>6. QED
    BY <2>2, <2>3, <2>4, <2>5, StartedKeeps
<1>5. CASE Unmount(c)
  <2>1. PICK p \in Path :
            Start(c, [NoCall EXCEPT !.tool = "unmount_path", !.step = "path", !.path = p])
    BY <1>5 DEF Unmount
  <2> DEFINE x == [NoCall EXCEPT !.tool = "unmount_path", !.step = "path", !.path = p]
  <2>2. x \in CallState
    BY <1>1, NoCallTyped, ZenonT(60) DEF CallState
  <2>3. /\ x.tool = "unmount_path" /\ x.step = "path" /\ x.hosts = {} /\ x.hit = {}
        /\ x.late = "none" /\ x.before = {} /\ x.answer = "none" /\ ~x.listed /\ x.path = p
        /\ x.undo = "none" /\ \A s \in Gates : x.checked[s] = NoPath
    BY DEF NoCall
  <2>4. Start(c, x)
    BY <2>1
  <2> HIDE DEF x
  <2>5. Belongs(x.step, x.tool)
    BY <2>3 DEF Belongs, Destructive
  <2>6. QED
    BY <2>2, <2>3, <2>4, <2>5, StartedKeeps
<1>6. QED
  BY <1>2, <1>3, <1>4, <1>5

\* The command a call gives up is one that the call's gates allowed.
LEMMA RaiseKeeps ==
    ASSUME IInv, NEW c \in Call, NEW h \in Host, Raise(c, h)
    PROVE  IInv'
<1> DEFINE r == call[c]
           l == IF r.step \in Changing THEN r.step ELSE "none"
           at == IF r.step \in Changing THEN h ELSE NoPath
           x == [r EXCEPT !.step = "done", !.answer = "error", !.late = l, !.runsAt = at,
                          !.hosts = r.hosts \union {h}]
<1>1. /\ TypeOK /\ r \in CallState /\ r.step \in Steps /\ call \in [Call -> CallState]
      /\ Fine(r) /\ Passed(r) /\ Unseen(r, host) /\ HitUnseen(r)
      /\ UNCHANGED <<disk, route, host, spoiled>>
  BY DEF IInv, Good, TypeOK, Raise
<1>2. call' = [call EXCEPT ![c] = x]
  <2>1. call' = [Done(c, "error") EXCEPT ![c].late = l, ![c].runsAt = at,
                                         ![c].hosts = @ \union {h}]
    BY Zenon DEF Raise
  <2> HIDE DEF l, at
  <2>2. QED
    BY <1>1, <2>1, ZenonT(60) DEF Done
<1>3. /\ l \in Changing \union { "none" } /\ at \in Host \union {NoPath}
      /\ "done" \in Steps \union { "idle", "done" } /\ "error" \in Answers
      /\ r.hosts \union {h} \in SUBSET Host
  BY <1>1, Names, Fields
<1> HIDE DEF l, at
<1>4. x \in CallState
  BY <1>1, <1>3, ZenonT(60) DEF CallState
<1>5. /\ x.tool = r.tool /\ x.aim = r.aim /\ x.path = r.path /\ x.step = "done"
      /\ x.answer = "error" /\ x.late = l /\ x.runsAt = at /\ x.hosts = r.hosts \union {h}
      /\ x.checked = r.checked /\ x.began = r.began /\ x.hit = r.hit /\ x.listed = r.listed
  BY <1>1 DEF CallState
<1> HIDE DEF x
<1>6. ~x.listed
  BY <1>1, <1>5, Names DEF Fine
<1>7. l # "none" => at = h /\ r.step = l
  BY DEF l, at
<1>8. Destroying(x) => Destroying(r)
  BY <1>5, <1>7, Names DEF Destroying, Destructive
<1>9. Looking(x) => Looking(r)
  BY <1>5, <1>8, Names DEF Looking, Gates
<1>10. Fine(x)
  BY <1>1, <1>5, <1>6, <1>7, <1>8 DEF Fine, FstabSteps, Gates
<1>11. Passed(x)
  BY <1>1, <1>5, <1>8 DEF Passed
<1>12. \A s : SeenBy(x, s) = SeenBy(r, s)
  BY <1>5 DEF SeenBy
<1>13. Unseen(x, host)
  BY <1>1, <1>5, <1>9, <1>12 DEF Unseen
<1>14. HitUnseen(x)
  BY <1>1, <1>5, <1>12 DEF HitUnseen
<1>15. QED
  BY <1>1, <1>2, <1>4, <1>5, <1>6, <1>10, <1>11, <1>13, <1>14, RecordKeeps DEF FstabSteps

\* Record x is record r after the command it no longer waits for came to an end, or
\* its sed has read and is to replace the file.
Lands(x, r) ==
    /\ x \in CallState /\ SameHistory(x, r) /\ Kin(x, r) /\ x.checked = r.checked
    /\ x.step = "done" /\ x.answer = "error" /\ ~x.listed
    /\ x.late \in { "none", "replace" }
    /\ x.late = "replace" => r.late = "sed" /\ x.runsAt = r.runsAt

\* A call whose command has settled.
LEMMA SettledLands ==
    ASSUME IInv, NEW c \in Call, call[c].late # "none"
    PROVE  LET x == [call[c] EXCEPT !.late = "none", !.runsAt = NoPath]
           IN  Settled(c) = [call EXCEPT ![c] = x] /\ Lands(x, call[c])
<1> DEFINE r == call[c]
           x == [r EXCEPT !.late = "none", !.runsAt = NoPath]
<1>1. /\ r \in CallState /\ call \in [Call -> CallState] /\ Fine(r)
  BY DEF IInv, Good, TypeOK
<1>2. r.step = "done" /\ r.answer = "error" /\ ~r.listed
  BY <1>1 DEF Fine
<1>3. x \in CallState
  <2>1. "none" \in Changing \union { "none" } /\ NoPath \in Host \union {NoPath}
    OBVIOUS
  <2>2. QED
    BY <1>1, <2>1, ZenonT(60) DEF CallState
<1>4. /\ x.hosts = r.hosts /\ x.began = r.began /\ x.hit = r.hit
      /\ x.tool = r.tool /\ x.aim = r.aim /\ x.path = r.path /\ x.valid = r.valid
      /\ x.step = r.step /\ x.answer = r.answer /\ x.late = "none" /\ x.listed = r.listed
      /\ x.checked = r.checked
  BY <1>1 DEF CallState
<1>5. Settled(c) = [call EXCEPT ![c] = x]
  BY <1>1 DEF Settled
<1> HIDE DEF x
<1>6. Lands(x, r)
  BY <1>2, <1>3, <1>4 DEF SameHistory, Kin, Lands
<1>7. QED
  BY <1>5, <1>6 DEF x

\* A call whose sed has read.
LEMMA ReadLands ==
    ASSUME IInv, NEW c \in Call, call[c].late = "sed"
    PROVE  LET x == [call[c] EXCEPT !.late = "replace"]
           IN  [call EXCEPT ![c].late = "replace"] = [call EXCEPT ![c] = x] /\ Lands(x, call[c])
<1> DEFINE r == call[c]
           x == [r EXCEPT !.late = "replace"]
<1>1. /\ r \in CallState /\ call \in [Call -> CallState] /\ Fine(r)
  BY DEF IInv, Good, TypeOK
<1>2. r.step = "done" /\ r.answer = "error" /\ ~r.listed
  BY <1>1 DEF Fine
<1>3. x \in CallState
  <2>1. "replace" \in Changing \union { "none" }
    BY DEF Changing
  <2>2. QED
    BY <1>1, <2>1, ZenonT(60) DEF CallState
<1>4. /\ x.hosts = r.hosts /\ x.began = r.began /\ x.hit = r.hit
      /\ x.tool = r.tool /\ x.aim = r.aim /\ x.path = r.path /\ x.valid = r.valid
      /\ x.step = r.step /\ x.answer = r.answer /\ x.late = "replace" /\ x.listed = r.listed
      /\ x.checked = r.checked /\ x.runsAt = r.runsAt
  BY <1>1 DEF CallState
<1>5. [call EXCEPT ![c].late = "replace"] = [call EXCEPT ![c] = x]
  BY <1>1
<1> HIDE DEF x
<1>6. Lands(x, r)
  BY <1>2, <1>3, <1>4 DEF SameHistory, Kin, Lands
<1>7. QED
  BY <1>5, <1>6 DEF x

\* A call that does not look at the disk any more.
LEMMA LandedRests ==
    ASSUME NEW x, NEW r, Lands(x, r)
    PROVE  ~Looking(x) /\ ~Destroying(x)
BY Names DEF Lands, Looking, Destroying, Gates, Destructive

\* A command whose channel was closed may never have effect.
LEMMA LapseKeeps ==
    ASSUME IInv, NEW c \in Call, Lapse(c)
    PROVE  IInv'
<1> DEFINE r == call[c]
           x == [r EXCEPT !.late = "none", !.runsAt = NoPath]
<1>1. /\ r.late # "none" /\ call' = Settled(c) /\ UNCHANGED <<disk, route, host, spoiled>>
      /\ Fine(r) /\ HitUnseen(r)
  BY DEF Lapse, IInv, Good
<1>2. Settled(c) = [call EXCEPT ![c] = x] /\ Lands(x, r)
  BY <1>1, SettledLands
<1>3. x.late = "none"
  BY <1>2 DEF Lands, IInv, TypeOK, CallState
<1> HIDE DEF x
<1>4. ~Looking(x) /\ ~Destroying(x)
  BY <1>2, LandedRests
<1>5. /\ x.tool = r.tool /\ x.aim = r.aim /\ x.path = r.path /\ x.checked = r.checked
      /\ x.hit = r.hit /\ x.began = r.began /\ x.step = "done" /\ x.answer = "error"
      /\ ~x.listed /\ x \in CallState
  BY <1>2 DEF Lands, Kin, SameHistory
<1>6. Fine(x) /\ Passed(x)
  BY <1>1, <1>3, <1>4, <1>5 DEF Fine, Passed, FstabSteps, Gates
<1>7. Unseen(x, host)
  BY <1>4 DEF Unseen
<1>8. HitUnseen(x)
  <2>1. \A s : SeenBy(x, s) = SeenBy(r, s)
    BY <1>5 DEF SeenBy
  <2>2. QED
    BY <1>1, <1>5, <2>1 DEF HitUnseen
<1>9. QED
  BY <1>1, <1>2, <1>5, <1>6, <1>7, <1>8, RecordKeeps DEF FstabSteps

\* A command whose channel was closed may have its effect later.
LEMMA LandKeeps ==
    ASSUME IInv, NEW c \in Call, Land(c)
    PROVE  IInv'
<1> DEFINE r == call[c]
           h == r.runsAt
           y == call'[c]
<1>1. /\ TypeOK /\ Fine(r) /\ r \in CallState /\ r.late # "none"
      /\ Carry(c, r.late, h, IF r.late = "sed" THEN [call EXCEPT ![c].late = "replace"]
                             ELSE Settled(c))
      /\ spoiled' = (spoiled \/ r.late = "rollback" \/ (r.late = "replace" /\ Outdated(c, h)))
  BY DEF Land, IInv, Good, TypeOK
<1>2. PICK x : Carry(c, r.late, h, [call EXCEPT ![c] = x]) /\ Lands(x, r)
  <2>1. CASE r.late = "sed"
    BY <1>1, <2>1, ReadLands
  <2>2. CASE r.late # "sed"
    BY <1>1, <2>2, SettledLands
  <2>3. QED
    BY <2>1, <2>2
<1>3. h \in Host
  BY <1>1, Fields DEF Fine
<1>4. r.late = "mount" => r.path \in Path
  BY <1>1 DEF Fine
<1>5. /\ spoiled' \in BOOLEAN /\ (spoiled => spoiled') /\ (r.late = "rollback" => spoiled')
      /\ r.late = "replace" => spoiled' \/ r.read = host[h].fstab
  BY <1>1 DEF Outdated
<1>6. Makes(c, r.late, h, x)
  BY <1>2, <1>4, <1>5 DEF Makes, Lands
<1>7. Becomes(x, r.late, h, y)
  BY <1>1, <1>3, <1>6, OwnAfter
<1>8. ~Looking(x) /\ Looks(x, r, h) /\ SameHistory(x, r)
  BY <1>2, LandedRests DEF Lands, Looks
<1>9. Unseen(y, host')
  BY <1>3, <1>6, <1>8, OwnUnseen
<1>10. r.late \in Destructive => Destroying(r)
  BY DEF Destroying
<1>11. HitUnseen(y)
  BY <1>3, <1>6, <1>8, <1>10, OwnHit
<1>12. /\ y.tool = r.tool /\ y.path = r.path /\ y.step = "done" /\ y.answer = "error"
       /\ ~y.listed /\ h \in y.hosts
       /\ y.late \in { "none", "replace" }
       /\ y.late = "replace" => r.late = "sed" /\ y.runsAt = h
  BY <1>2, <1>7 DEF Becomes, Same, Lands, Kin
<1>13. r.late \in { "sed", "replace" } => r.tool = "unmount_path"
  BY <1>1 DEF Fine
<1> HIDE DEF y, h
<1>14. Fine(y) /\ Passed(y)
  BY <1>1, <1>12, <1>13 DEF Fine, Passed, FstabSteps, Destroying, Destructive, Gates
<1>15. Kept(c, y, host') /\ Whole(c, y) /\ Stays(c, y, host', call', spoiled')
       /\ Accepted(y, call', spoiled') /\ Remembers(y, spoiled')
  BY <1>12 DEF Kept, Whole, Stays, Accepted, Remembers, FstabSteps
<1>16. Good(c, y, host', call', spoiled')
  BY <1>9, <1>11, <1>14, <1>15 DEF Good
<1>17. Careful(c, r.late, h)
  BY <1>5, <1>13 DEF Careful
<1>18. QED
  BY <1>3, <1>6, <1>16, <1>17, StepKeeps DEF y

\* A use that an operator begins is noted by the calls that look for it.
LEMMA OperateKeeps ==
    ASSUME IInv, NEW h \in Host, NEW u \in NewUses, Operate(h, u)
    PROVE  IInv'
<1>1. /\ TypeOK /\ host' = [host EXCEPT ![h].uses = @ \union {u}]
      /\ call' = [d \in Call |-> [call[d] EXCEPT !.began = Begin(call[d], h, u)]]
      /\ UNCHANGED <<disk, route, spoiled>>
  BY DEF Operate, IInv
<1>2. /\ host' \in [Host -> HostState]
      /\ \A k \in Host : /\ host'[k].fstab = host[k].fstab /\ host'[k].backup = host[k].backup
                         /\ host'[k].mounts = host[k].mounts
                         /\ host'[k].uses \subseteq host[k].uses \union IF k = h THEN {u} ELSE {}
  <2>1. u \in Uses
    BY UseAssumption DEF Uses
  <2>2. host[h].uses \union {u} \in SUBSET Uses
    BY <1>1, <2>1 DEF TypeOK, HostState
  <2> DEFINE e == [host[h] EXCEPT !.uses = host[h].uses \union {u}]
  <2>3. /\ e \in HostState /\ e.fstab = host[h].fstab /\ e.backup = host[h].backup
        /\ e.mounts = host[h].mounts /\ e.uses = host[h].uses \union {u}
    BY <1>1, <2>2 DEF TypeOK, HostState
  <2>4. host' = [host EXCEPT ![h] = e]
    BY <1>1 DEF TypeOK
  <2> HIDE DEF e
  <2>5. /\ host' \in [Host -> HostState] /\ host'[h] = e
        /\ \A k \in Host \ {h} : host'[k] = host[k]
    BY <1>1, <2>3, <2>4 DEF TypeOK
  <2>6. QED
    BY <2>3, <2>5
<1>3. \A k \in Host : UsesOf(host'[k]) \subseteq
                          UsesOf(host[k]) \union IF k = h THEN {u} ELSE {}
  BY <1>2 DEF UsesOf
<1>4. ASSUME NEW d \in Call
      PROVE  /\ call'[d] \in CallState
             /\ Same(call'[d], call[d])
             /\ call'[d].hosts = call[d].hosts /\ call'[d].hit = call[d].hit
             /\ call'[d].read = call[d].read /\ (call'[d].sound => call[d].sound)
             /\ call'[d].began = Begin(call[d], h, u)
  <2>1. call[d] \in CallState
    BY <1>1 DEF TypeOK
  <2>2. <<h, u>> \in Host \X Uses
    BY UseAssumption DEF Uses
  <2>3. Begin(call[d], h, u) \in SUBSET (Host \X Uses)
    BY <2>1, <2>2, Fields DEF Begin
  <2> DEFINE g == Begin(call[d], h, u)
  <2>4. call'[d] = [call[d] EXCEPT !.began = g]
    BY <1>1
  <2> HIDE DEF g
  <2>5. call'[d] \in CallState
    BY <2>1, <2>3, <2>4 DEF CallState, g
  <2>6. Same(call'[d], call[d])
    BY <2>1, <2>4 DEF CallState, Same
  <2>7. /\ call'[d].hosts = call[d].hosts /\ call'[d].hit = call[d].hit
        /\ call'[d].read = call[d].read /\ (call'[d].sound => call[d].sound)
        /\ call'[d].began = Begin(call[d], h, u)
    BY <2>1, <2>4 DEF CallState, g
  <2>8. QED
    BY <2>5, <2>6, <2>7
<1>5. call' \in [Call -> CallState]
  BY <1>1, <1>4
<1>6. TypeOK'
  BY <1>1, <1>2, <1>5 DEF TypeOK
<1>7. ASSUME NEW d \in Call PROVE Good(d, call'[d], host', call', spoiled')
  <2> DEFINE r == call[d]
             y == call'[d]
  <2>1. Good(d, r, host, call, spoiled) /\ r.hosts \subseteq Host
    BY <1>1, Fields DEF IInv, TypeOK
  <2>2. /\ y.tool = r.tool /\ y.aim = r.aim /\ y.path = r.path /\ y.valid = r.valid
        /\ y.step = r.step /\ y.late = r.late /\ y.runsAt = r.runsAt /\ y.checked = r.checked
        /\ y.before = r.before /\ y.bak = r.bak /\ y.undo = r.undo /\ y.after = r.after
        /\ y.listed = r.listed /\ y.answer = r.answer /\ y.hosts = r.hosts
        /\ y.hit = r.hit /\ y.read = r.read /\ (y.sound => r.sound)
        /\ y.began = Begin(r, h, u)
    BY <1>4, Zenon DEF Same
  <2>3. \A e \in Call : call'[e].tool = call[e].tool /\ call'[e].path = call[e].path
    BY <1>4 DEF Same
  <2> HIDE DEF r, y
  <2>4. AtOneHost(y) <=> AtOneHost(r)
    BY <2>2 DEF AtOneHost
  <2>5. \A s : SeenBy(y, s) = SeenBy(r, s)
    BY <2>2 DEF SeenBy
  <2>6. r.began \subseteq y.began
    BY <2>2 DEF Begin
  <2>7. Fine(y) /\ Passed(y)
    BY <2>1, <2>2 DEF Good, Fine, Passed, Destroying
  <2>8. Unseen(y, host')
    <3> SUFFICES ASSUME Looking(y), NEW s \in GatesOf(y.tool), y.checked[s] \in Host,
                        NEW v \in UsesOf(host'[y.checked[s]]) \intersect SeenBy(y, s)
                 PROVE  <<y.checked[s], v>> \in y.began
      BY DEF Unseen
    <3>1. /\ Looking(r) /\ s \in GatesOf(r.tool) /\ y.checked[s] = r.checked[s]
          /\ v \in SeenBy(r, s)
      BY <2>2, <2>5 DEF Looking, Destroying
    <3>2. CASE v \in UsesOf(host[r.checked[s]])
      BY <2>1, <2>6, <3>1, <3>2 DEF Good, Unseen
    <3>3. CASE r.checked[s] = h /\ v = u
      BY <2>1, <2>2, <3>1, <3>3, LookingNotes DEF Good
    <3>4. QED
      BY <1>3, <3>1, <3>2, <3>3
  <2>9. HitUnseen(y)
    BY <2>1, <2>2, <2>5, <2>6 DEF Good, HitUnseen
  <2>10. EditedBy(d, y) = EditedBy(d, r) /\ LineBy(d, y) = LineBy(d, r)
    BY <2>2 DEF EditedBy, LineBy
  <2>11. Kept(d, y, host')
    <3> SUFFICES ASSUME y.sound, AtOneHost(y), y.step \in FstabSteps
                 PROVE  /\ y.step = "replace" => y.read = y.before
                        /\ \A k \in y.hosts :
                              /\ host'[k].backup = y.bak
                              /\ host'[k].fstab =
                                     IF y.step \in { "append", "sed", "replace" } THEN y.before
                                     ELSE EditedBy(d, y)
      BY DEF Kept
    <3>1. /\ r.step = "replace" => r.read = r.before
          /\ \A k \in r.hosts :
                /\ host[k].backup = r.bak
                /\ host[k].fstab = IF r.step \in { "append", "sed", "replace" } THEN r.before
                                   ELSE EditedBy(d, r)
      BY <2>1, <2>2, <2>4 DEF Good, Kept
    <3>2. QED
      BY <1>2, <2>1, <2>2, <2>10, <3>1
  <2>12. Whole(d, y)
    BY <2>1, <2>2, <2>4, <2>10 DEF Good, Whole
  <2>13. Stays(d, y, host', call', spoiled')
    <3> SUFFICES ASSUME y.tool = "create_mount_point", y.step = "validate" \/ y.listed,
                        AtOneHost(y), ~spoiled',
                        \A e \in Call : call'[e].tool = "unmount_path" => call'[e].path # y.path,
                        NEW k \in y.hosts
                 PROVE  LineBy(d, y) \in host'[k].fstab
      BY DEF Stays
    <3>1. \A e \in Call : call[e].tool = "unmount_path" => call[e].path # r.path
      BY <2>2, <2>3
    <3>2. k \in r.hosts /\ k \in Host /\ AtOneHost(r) /\ ~spoiled
          /\ r.tool = "create_mount_point" /\ (r.step = "validate" \/ r.listed)
      BY <1>1, <2>1, <2>2, <2>4
    <3>3. LineBy(d, r) \in host[k].fstab
      BY <2>1, <3>1, <3>2 DEF Good, Stays
    <3>4. QED
      BY <1>2, <2>10, <3>2, <3>3
  <2>14. Accepted(y, call', spoiled')
    <3>1. (\A e \in Call : call'[e].tool = "unmount_path" => call'[e].path # y.path)
          => \A e \in Call : call[e].tool = "unmount_path" => call[e].path # r.path
      BY <2>2, <2>3
    <3>2. QED
      BY <1>1, <2>1, <2>2, <2>4, <3>1 DEF Good, Accepted
  <2>15. Remembers(y, spoiled')
    BY <1>1, <2>1, <2>2 DEF Good, Remembers
  <2>16. QED
    BY <2>7, <2>8, <2>9, <2>11, <2>12, <2>13, <2>14, <2>15 DEF Good, y
<1>8. AdminLineStays'
  BY <1>1, <1>2 DEF IInv, AdminLineStays
<1>9. QED
  BY <1>1, <1>6, <1>7, <1>8, Primed

\* The name of the node comes to resolve to another host.
LEMMA RerouteKeeps ==
    ASSUME IInv, Reroute
    PROVE  IInv'
<1>1. TypeOK /\ UNCHANGED <<disk, host, call, spoiled>>
  BY DEF IInv, Reroute
<1>2. route' \in Seq(Host) /\ route' # << >>
  <2>1. route \in Seq(Host) /\ Len(route) > 1 /\ route # << >> /\ route' = Tail(route)
    BY <1>1 DEF TypeOK, Reroute
  <2>2. Tail(route) \in Seq(Host) /\ Len(Tail(route)) = Len(route) - 1
    BY <2>1, HeadTailProperties
  <2>3. Len(route) \in Nat /\ Len(<< >>) = 0
    BY <2>1
  <2>4. QED
    BY <2>1, <2>2, <2>3
<1>3. TypeOK'
  BY <1>1, <1>2 DEF TypeOK
<1>4. \A d \in Call : Good(d, call'[d], host', call', spoiled')
  BY <1>1 DEF IInv
<1>5. AdminLineStays'
  BY <1>1 DEF IInv, AdminLineStays
<1>6. QED
  BY <1>1, <1>3, <1>4, <1>5, Primed

----------------------------------------------------------------------------
\* The invariant.

\* The invariant holds at the start.
LEMMA InitIInv == Init => IInv
<1> SUFFICES ASSUME Init PROVE IInv
  OBVIOUS
<1>1. PICK z \in Cases, b \in OldBackups :
          /\ disk = z.disk
          /\ host = [h \in Host |->
                       [uses |-> z.uses, mounts |-> z.mounts, backup |-> b,
                        fstab |-> { [AdminLine EXCEPT !.path = p] : p \in z.mounts }
                                  \union {AdminLine}]]
  BY DEF Init
<1> DEFINE f == { [AdminLine EXCEPT !.path = p] : p \in z.mounts } \union {AdminLine}
<1>2. disk \in Disks /\ z.uses \in SUBSET Uses /\ z.mounts \in SUBSET Path
  BY <1>1, CaseAssumption DEF Uses
<1>3. AdminLine \in Line /\ \A p \in Path : [AdminLine EXCEPT !.path = p] \in Line
  BY DEF AdminLine, Line
<1>4. f \in SUBSET Line /\ AdminLine \in f
  BY <1>2, <1>3
<1>5. b \in Backups
  <2>1. CASE b = {}
    BY <2>1 DEF Backups
  <2>2. CASE b # {}
    <3>1. PICK l : l \in b
      BY <2>2
    <3>2. b = {l} /\ l \in SUBSET Line
      BY <3>1, LineAssumption
    <3>3. QED
      BY <3>2 DEF Backups
  <2>3. QED
    BY <2>1, <2>2
<1>6. host = [h \in Host |-> [uses |-> z.uses, mounts |-> z.mounts, backup |-> b, fstab |-> f]]
  BY <1>1
<1> HIDE DEF f
<1>7. host \in [Host -> HostState]
  BY <1>2, <1>4, <1>5, <1>6 DEF HostState
<1>8. call \in [Call -> CallState] /\ \A c \in Call : call[c] = NoCall
  BY NoCallTyped DEF Init
<1>9. TypeOK
  BY <1>2, <1>7, <1>8, RouteAssumption DEF TypeOK, Init
<1>10. /\ NoCall.tool = "none" /\ NoCall.step = "idle" /\ NoCall.hit = {}
       /\ NoCall.late = "none" /\ NoCall.before = {} /\ NoCall.answer = "none"
       /\ ~NoCall.listed /\ NoCall.undo = "none"
  BY DEF NoCall
<1>11. ASSUME NEW c \in Call PROVE Good(c, NoCall, host, call, spoiled)
  <2>1. Fine(NoCall) /\ Passed(NoCall) /\ ~Looking(NoCall)
    BY <1>10 DEF Fine, Passed, Looking, Destroying, Gates, FstabSteps, Destructive
  <2>2. Unseen(NoCall, host) /\ HitUnseen(NoCall)
    BY <1>10, <2>1 DEF Unseen, HitUnseen
  <2>3. Kept(c, NoCall, host) /\ Whole(c, NoCall) /\ Stays(c, NoCall, host, call, spoiled)
        /\ Accepted(NoCall, call, spoiled) /\ Remembers(NoCall, spoiled)
    BY <1>10 DEF Kept, Whole, Stays, Accepted, Remembers, FstabSteps
  <2>4. QED
    BY <2>1, <2>2, <2>3 DEF Good
<1>12. AdminLineStays
  BY <1>4, <1>6 DEF AdminLineStays
<1>13. QED
  BY <1>8, <1>9, <1>11, <1>12 DEF IInv

\* Every step keeps it.
LEMMA NextIInv == IInv /\ [Next]_vars => IInv'
<1> SUFFICES ASSUME IInv, [Next]_vars PROVE IInv'
  OBVIOUS
<1>1. ASSUME NEW c \in Call PROVE HostOf(c) \in Host
  <2>1. TypeOK /\ Fine(call[c]) /\ Head(route) \in Host
    BY Hosts DEF IInv, Good
  <2>2. At(c, "replace") => call[c].runsAt \in call[c].hosts
    BY <2>1 DEF At, Fine
  <2>3. call[c].hosts \subseteq Host
    BY <2>1, Fields DEF TypeOK
  <2>4. QED
    BY <2>1, <2>2, <2>3 DEF HostOf
<1>2. ASSUME NEW c \in Call, Command(c, HostOf(c)) PROVE IInv'
  <2>1. PICK h \in Host : Command(c, h)
    BY <1>1, <1>2
  <2>2. CASE Gate(c, h)
    BY <2>2, GateKeeps
  <2>3. CASE GateRefuses(c, h) \/ Wipe(c, h) \/ WipeFails(c, h) \/ Table(c, h)
             \/ Mkfs(c, h) \/ MkfsFails(c, h)
    BY <2>3, DestroyerKeeps
  <2>4. CASE PathChecked(c, h) \/ DoMount(c, h) \/ Verify(c, h) \/ DoUnmount(c, h)
             \/ CommandFails(c, h)
    BY <2>4, MountKeeps
  <2>5. CASE Backup(c, h) \/ BackupFails(c, h)
    BY <2>5, BackupKeeps
  <2>6. CASE AppendLine(c, h)
    BY <2>6, AppendKeeps
  <2>7. CASE SedReads(c, h)
    BY <2>7, SedReadsKeeps
  <2>8. CASE SedReplaces(c, h)
    BY <2>8, SedReplacesKeeps
  <2>9. CASE EditFails(c, h)
    BY <2>9, EditFailsKeeps
  <2>10. CASE Validate(c, h)
    BY <2>10, ValidatedKeeps, InvalidKeeps
  <2>11. CASE Rollback(c, h)
    BY <2>11, RollbackKeeps
  <2>12. CASE RollbackFails(c, h)
    BY <2>12, RollbackFailsKeeps
  <2>13. CASE Raise(c, h)
    BY <2>13, RaiseKeeps
  <2>14. QED
    BY <2>1, <2>2, <2>3, <2>4, <2>5, <2>6, <2>7, <2>8, <2>9, <2>10, <2>11, <2>12, <2>13
       DEF Command
<1>3. ASSUME NEW c \in Call, Partition(c) \/ Format(c) \/ Mount(c) \/ Unmount(c) PROVE IInv'
  BY <1>3, StartKeeps
<1>4. ASSUME NEW c \in Call, Land(c) PROVE IInv'
  BY <1>4, LandKeeps
<1>5. ASSUME NEW c \in Call, Lapse(c) PROVE IInv'
  BY <1>5, LapseKeeps
<1>6. CASE Reroute
  BY <1>6, RerouteKeeps
<1>7. ASSUME NEW h \in Host, NEW u \in NewUses, Operate(h, u) PROVE IInv'
  BY <1>7, OperateKeeps
<1>8. CASE UNCHANGED vars
  <2>1. disk' = disk /\ route' = route /\ host' = host /\ call' = call /\ spoiled' = spoiled
    BY <1>8 DEF vars
  <2>2. /\ TypeOK' /\ AdminLineStays'
        /\ \A d \in Call : Good(d, call'[d], host', call', spoiled')
    BY <2>1 DEF IInv, TypeOK, AdminLineStays
  <2>3. QED
    BY <2>1, <2>2, Primed
<1>9. QED
  BY <1>2, <1>3, <1>4, <1>5, <1>6, <1>7, <1>8 DEF Next

\* The inductive invariant is one.
LEMMA Inductive == Spec => []IInv
BY InitIInv, NextIInv, PTL DEF Spec

\* Every variable keeps to its values.
THEOREM TypeCorrect == Spec => []TypeOK
<1>1. IInv => TypeOK
  BY DEF IInv
<1>2. QED
  BY <1>1, Inductive, PTL

\* Let partition_disk or format_disk send a command that destroys data to a host where
\* the disk, or the partition to be formatted, has a use that one of the tool's checks
\* finds.  Then that use began after the tool was called, or that check was passed on
\* another host.
THEOREM HitsAreUnseen == Spec => []HitsOnlyUnseen
<1>1. IInv => HitsOnlyUnseen
  BY DEF IInv, Good, HitUnseen, HitsOnlyUnseen
<1>2. QED
  BY <1>1, Inductive, PTL

\* What a call leaves in fstab if no other call was at it meanwhile and all of its
\* commands reached one host: its edit if it reports the entry as added (removed), but
\* also if the cp of its rollback failed; after a rollback, what the newest backup has,
\* be it its own or, if the cp of its backup failed, an older one; what it found
\* otherwise (create_mount_point, unmount_path).
THEOREM FstabIsAllOrNothing == Spec => []FstabAllOrNothing
<1>1. IInv => FstabAllOrNothing
  <2> SUFFICES ASSUME IInv, NEW c \in Call, AloneAtFstab(c)
               PROVE  call[c].after = IF call[c].listed \/ call[c].undo = "failed" THEN Edited(c)
                                      ELSE IF call[c].undo = "restored" THEN UNION call[c].bak
                                      ELSE call[c].before
    BY DEF FstabAllOrNothing
  <2>1. AtOneHost(call[c]) /\ Whole(c, call[c])
    BY DEF AloneAtFstab, OneHost, AtOneHost, IInv, Good
  <2>2. EditedBy(c, call[c]) = Edited(c)
    BY DEF Edited, EditedBy, LineOf, LineBy
  <2>3. QED
    BY <2>1, <2>2 DEF Whole, AloneAtFstab
<1>2. QED
  BY <1>1, Inductive, PTL

\* An entry reported as added stays while no call removes entries of its path, as long
\* as no call restores a backup that it had not just made, and no sed replaces the file
\* by what it had read before it was written to (create_mount_point).
THEOREM AddedEntriesRemain == Spec => []AddedEntriesStay
<1>1. IInv => AddedEntriesStay
  <2> SUFFICES ASSUME IInv, NEW c \in Call, Added(c), PathKept(c), ~spoiled
               PROVE  \E h \in call[c].hosts : LineOf(c) \in host[h].fstab
    BY DEF AddedEntriesStay
  <2>1. Stays(c, call[c], host, call, spoiled) /\ call[c].hosts # {}
    BY DEF IInv, Good, Fine, Added
  <2>2. LineOf(c) = LineBy(c, call[c]) /\ AtOneHost(call[c])
    BY DEF LineOf, LineBy, Added, OneHost, AtOneHost
  <2>3. QED
    BY <2>1, <2>2 DEF Stays, Added, PathKept
<1>2. QED
  BY <1>1, Inductive, PTL

\* The administrator's line stays under the same two conditions, whatever is added,
\* removed and rolled back otherwise (create_mount_point, unmount_path).
THEOREM AdminLineRemains == Spec => []AdminLineStays
<1>1. IInv => AdminLineStays
  BY DEF IInv
<1>2. QED
  BY <1>1, Inductive, PTL

\* What create_mount_point reports as added is accepted by mount -a, under the
\* conditions of AddedEntriesRemain.
THEOREM ReportedIsValid == Spec => []ReportedEntriesValid
<1>1. IInv => ReportedEntriesValid
  <2> SUFFICES ASSUME IInv, NEW c \in Call, Added(c), PathKept(c), ~spoiled
               PROVE  call[c].valid
    BY DEF ReportedEntriesValid
  <2>1. Accepted(call[c], call, spoiled)
    BY DEF IInv, Good
  <2>2. QED
    BY <2>1 DEF Accepted, Added, PathKept, OneHost, AtOneHost
<1>2. QED
  BY <1>1, Inductive, PTL
=============================================================================
