-------------------------- MODULE ToolTableProofs --------------------------
(***************************************************************************)
(* The gates of every mutating tool are well ordered, so what              *)
(* ToolCallsProofs proves of well-ordered tools holds of these.            *)
(***************************************************************************)
EXTENDS ToolCallsProofs, ToolTable

\* In the sequence s, every request comes after a gate of G.
After(G, s) ==
    \A i \in 1..Len(s) : s[i] \in WriteGates => \E j \in 1..(i - 1) : s[j] \in G

\* What is asked of every tool, and what of some.
Sound(s) ==
    /\ After({"dryrun"}, s)
    /\ (\E i \in 1..Len(s) : s[i] \in NodeGates) => After(NodeGates, s)
    /\ \A i, j \in 1..Len(s) :
          s[i] \in {"dryrun"} \union ConfirmGates /\ s[j] \in WriteGates => i < j
    /\ \A i \in 1..(Len(s) + 1) :
          i = Len(s) + 1 \/ s[i] = "option" => \E j \in 1..(i - 1) : s[j] = "write"

Asks(s) == \E i \in 1..Len(s) : s[i] \in ConfirmGates

Ordered(t, s) ==
    /\ Sound(s)
    /\ Asks(s) => t \in TableConfirmTools
    /\ t \in TableConfirmTools => After(ConfirmGates, s)
    /\ t \in TableGuestTools => After({"protected"}, s)

AllOrdered(f) == \A t \in DOMAIN f : Ordered(t, f[t])

LEMMA JoinedOrdered ==
    ASSUME NEW tables, \A f \in tables : AllOrdered(f)
    PROVE  AllOrdered(Joined(tables))
<1> SUFFICES ASSUME NEW t \in UNION { DOMAIN f : f \in tables }
             PROVE  Ordered(t, (CHOOSE f \in tables : t \in DOMAIN f)[t])
  BY DEF AllOrdered, Joined
<1> DEFINE g == CHOOSE f \in tables : t \in DOMAIN f
<1>1. \E f \in tables : t \in DOMAIN f
  OBVIOUS
<1>2. g \in tables /\ t \in DOMAIN g
  BY <1>1
<1> QED BY <1>2 DEF AllOrdered

LEMMA ShapesSound ==
    /\ Sound(Guarded) /\ ~Asks(Guarded) /\ After({"protected"}, Guarded)
    /\ Sound(Unguarded) /\ ~Asks(Unguarded)
    /\ Sound(GuardedConfig) /\ ~Asks(GuardedConfig) /\ After({"protected"}, GuardedConfig)
    /\ Sound(GuardedConfirm) /\ After({"protected"}, GuardedConfirm)
    /\ After(ConfirmGates, GuardedConfirm)
    /\ Sound(GuardedDelete) /\ After({"protected"}, GuardedDelete)
    /\ After(ConfirmGates, GuardedDelete)
    /\ Sound(OnNode) /\ ~Asks(OnNode)
    /\ Sound(OnNodeConfirm) /\ After(ConfirmGates, OnNodeConfirm)
    /\ Sound(ClusterConfirm) /\ After(ConfirmGates, ClusterConfirm)
<1> USE DEF Sound, Asks, After, WriteGates, NodeGates, ConfirmGates
<1>1. Sound(Guarded) /\ ~Asks(Guarded) /\ After({"protected"}, Guarded)
  BY DEF Guarded
<1>2. Sound(Unguarded) /\ ~Asks(Unguarded)
  BY DEF Unguarded
<1>3. Sound(GuardedConfig) /\ ~Asks(GuardedConfig) /\ After({"protected"}, GuardedConfig)
  BY DEF GuardedConfig
<1>4. Sound(GuardedConfirm) /\ After({"protected"}, GuardedConfirm)
      /\ After(ConfirmGates, GuardedConfirm)
  BY DEF GuardedConfirm
<1>5. Sound(GuardedDelete) /\ After({"protected"}, GuardedDelete)
      /\ After(ConfirmGates, GuardedDelete)
  BY DEF GuardedDelete
<1>6. Sound(OnNode) /\ ~Asks(OnNode)
  BY DEF OnNode
<1>7. Sound(OnNodeConfirm) /\ After(ConfirmGates, OnNodeConfirm)
  BY DEF OnNodeConfirm
<1>8. Sound(ClusterConfirm) /\ After(ConfirmGates, ClusterConfirm)
  BY DEF ClusterConfirm
<1> QED BY <1>1, <1>2, <1>3, <1>4, <1>5, <1>6, <1>7, <1>8

LEMMA VmOrdered ==
    /\ AllOrdered(VmPowerTools) /\ AllOrdered(VmLifecycleTools)
    /\ AllOrdered(VmConfigTools) /\ AllOrdered(VmCloudInitTools)
<1>1. AllOrdered(VmPowerTools)
  BY ShapesSound DEF AllOrdered, Ordered, TableConfirmTools, TableGuestTools, VmPowerTools
<1>2. AllOrdered(VmLifecycleTools)
  BY ShapesSound DEF AllOrdered, Ordered, TableConfirmTools, TableGuestTools, VmLifecycleTools
<1>3. AllOrdered(VmConfigTools)
  BY ShapesSound DEF AllOrdered, Ordered, TableConfirmTools, TableGuestTools, VmConfigTools
<1>4. AllOrdered(VmCloudInitTools)
  BY ShapesSound DEF AllOrdered, Ordered, TableConfirmTools, TableGuestTools, VmCloudInitTools
<1> QED BY <1>1, <1>2, <1>3, <1>4

LEMMA ContainerOrdered ==
    /\ AllOrdered(ContainerPowerTools) /\ AllOrdered(ContainerLifecycleTools)
    /\ AllOrdered(ContainerConfigTools)
<1>1. AllOrdered(ContainerPowerTools)
  BY ShapesSound DEF AllOrdered, Ordered, TableConfirmTools, TableGuestTools, ContainerPowerTools
<1>2. AllOrdered(ContainerLifecycleTools)
  BY ShapesSound DEF AllOrdered, Ordered, TableConfirmTools, TableGuestTools, ContainerLifecycleTools
<1>3. AllOrdered(ContainerConfigTools)
  BY ShapesSound DEF AllOrdered, Ordered, TableConfirmTools, TableGuestTools, ContainerConfigTools
<1> QED BY <1>1, <1>2, <1>3

LEMMA BackupOrdered ==
    /\ AllOrdered(SnapshotTools) /\ AllOrdered(BackupTools)
    /\ AllOrdered(BackupJobTools)
<1>1. AllOrdered(SnapshotTools)
  <2>1. /\ Sound(SnapshotTools.delete_snapshot)
        /\ After(ConfirmGates, SnapshotTools.delete_snapshot)
    BY DEF SnapshotTools, Sound, Asks, After, WriteGates, NodeGates, ConfirmGates
  <2> QED BY <2>1, ShapesSound
          DEF AllOrdered, Ordered, TableConfirmTools, TableGuestTools, SnapshotTools
<1>2. AllOrdered(BackupTools)
  BY ShapesSound DEF AllOrdered, Ordered, TableConfirmTools, TableGuestTools, BackupTools
<1>3. AllOrdered(BackupJobTools)
  <2>1. Sound(BackupJobTools.create_backup_job) /\ ~Asks(BackupJobTools.create_backup_job)
    BY DEF BackupJobTools, Sound, Asks, After, WriteGates, NodeGates, ConfirmGates
  <2> QED BY <2>1, ShapesSound
          DEF AllOrdered, Ordered, TableConfirmTools, TableGuestTools, BackupJobTools
<1> QED BY <1>1, <1>2, <1>3

LEMMA FirewallOrdered ==
    /\ AllOrdered(NodeFirewallTools) /\ AllOrdered(VmFirewallTools)
<1>1. AllOrdered(NodeFirewallTools)
  BY ShapesSound DEF AllOrdered, Ordered, TableConfirmTools, TableGuestTools, NodeFirewallTools
<1>2. AllOrdered(VmFirewallTools)
  <2>1. /\ Sound(VmFirewallTools.create_vm_firewall_rule)
        /\ ~Asks(VmFirewallTools.create_vm_firewall_rule)
        /\ After({"protected"}, VmFirewallTools.create_vm_firewall_rule)
    BY DEF VmFirewallTools, Sound, Asks, After, WriteGates, NodeGates, ConfirmGates
  <2> QED BY <2>1, ShapesSound
          DEF AllOrdered, Ordered, TableConfirmTools, TableGuestTools, VmFirewallTools
<1> QED BY <1>1, <1>2

LEMMA ClusterOrdered ==
    /\ AllOrdered(PoolTools) /\ AllOrdered(UserTools)
    /\ AllOrdered(HaTools) /\ AllOrdered(NodePowerTools)
<1>1. AllOrdered(PoolTools)
  <2>1. Sound(PoolTools.create_pool) /\ ~Asks(PoolTools.create_pool)
    BY DEF PoolTools, Sound, Asks, After, WriteGates, NodeGates, ConfirmGates
  <2>2. Sound(PoolTools.modify_pool) /\ ~Asks(PoolTools.modify_pool)
    BY DEF PoolTools, Sound, Asks, After, WriteGates, NodeGates, ConfirmGates
  <2> QED BY <2>1, <2>2, ShapesSound
          DEF AllOrdered, Ordered, TableConfirmTools, TableGuestTools, PoolTools
<1>2. AllOrdered(UserTools)
  <2>1. /\ Sound(UserTools.set_user_permission)
        /\ After(ConfirmGates, UserTools.set_user_permission)
    BY DEF UserTools, Sound, Asks, After, WriteGates, NodeGates, ConfirmGates
  <2> QED BY <2>1, ShapesSound
          DEF AllOrdered, Ordered, TableConfirmTools, TableGuestTools, UserTools
<1>3. AllOrdered(HaTools)
  <2>1. Sound(HaTools.create_ha_resource) /\ ~Asks(HaTools.create_ha_resource)
    BY DEF HaTools, Sound, Asks, After, WriteGates, NodeGates, ConfirmGates
  <2>2. Sound(HaTools.modify_ha_resource) /\ ~Asks(HaTools.modify_ha_resource)
    BY DEF HaTools, Sound, Asks, After, WriteGates, NodeGates, ConfirmGates
  <2> QED BY <2>1, <2>2, ShapesSound
          DEF AllOrdered, Ordered, TableConfirmTools, TableGuestTools, HaTools
<1>4. AllOrdered(NodePowerTools)
  BY ShapesSound DEF AllOrdered, Ordered, TableConfirmTools, TableGuestTools, NodePowerTools
<1> QED BY <1>1, <1>2, <1>3, <1>4

LEMMA StorageOrdered ==
    /\ AllOrdered(StorageAddTools) /\ AllOrdered(StorageTools)
<1>1. AllOrdered(StorageAddTools)
  <2>1. Sound(StorageAddTools.add_storage) /\ ~Asks(StorageAddTools.add_storage)
    BY DEF StorageAddTools, Sound, Asks, After, WriteGates, NodeGates, ConfirmGates
  <2> QED BY <2>1
          DEF AllOrdered, Ordered, TableConfirmTools, TableGuestTools, StorageAddTools
<1>2. AllOrdered(StorageTools)
  <2>1. /\ Sound(StorageTools.remove_storage)
        /\ After(ConfirmGates, StorageTools.remove_storage)
    BY DEF StorageTools, Sound, Asks, After, WriteGates, NodeGates, ConfirmGates
  <2> QED BY <2>1, ShapesSound
          DEF AllOrdered, Ordered, TableConfirmTools, TableGuestTools, StorageTools
<1> QED BY <1>1, <1>2

LEMMA PciOrdered ==
    /\ AllOrdered(PciMappingTools) /\ AllOrdered(PciDeviceTools)
<1>1. AllOrdered(PciMappingTools)
  <2>1. /\ Sound(PciMappingTools.create_pci_mapping)
        /\ After(ConfirmGates, PciMappingTools.create_pci_mapping)
    BY DEF PciMappingTools, Sound, Asks, After, WriteGates, NodeGates, ConfirmGates
  <2>2. /\ Sound(PciMappingTools.add_pci_mapping_target)
        /\ After(ConfirmGates, PciMappingTools.add_pci_mapping_target)
    BY DEF PciMappingTools, Sound, Asks, After, WriteGates, NodeGates, ConfirmGates
  <2>3. /\ Sound(PciMappingTools.delete_pci_mapping)
        /\ After(ConfirmGates, PciMappingTools.delete_pci_mapping)
    BY DEF PciMappingTools, Sound, Asks, After, WriteGates, NodeGates, ConfirmGates
  <2> QED BY <2>1, <2>2, <2>3
          DEF AllOrdered, Ordered, TableConfirmTools, TableGuestTools, PciMappingTools
<1>2. AllOrdered(PciDeviceTools)
  <2>1. /\ Sound(PciDeviceTools.assign_pci_device)
        /\ After(ConfirmGates, PciDeviceTools.assign_pci_device)
        /\ After({"protected"}, PciDeviceTools.assign_pci_device)
    BY DEF PciDeviceTools, Sound, Asks, After, WriteGates, NodeGates, ConfirmGates
  <2>2. /\ Sound(PciDeviceTools.remove_pci_device)
        /\ After(ConfirmGates, PciDeviceTools.remove_pci_device)
        /\ After({"protected"}, PciDeviceTools.remove_pci_device)
    BY DEF PciDeviceTools, Sound, Asks, After, WriteGates, NodeGates, ConfirmGates
  <2> QED BY <2>1, <2>2
          DEF AllOrdered, Ordered, TableConfirmTools, TableGuestTools, PciDeviceTools
<1> QED BY <1>1, <1>2

LEMMA DiskOrdered ==
    /\ AllOrdered(PartitionTools) /\ AllOrdered(FormatTools)
    /\ AllOrdered(MountTools) /\ AllOrdered(UnmountTools)
<1>1. AllOrdered(PartitionTools)
  <2>1. /\ Sound(PartitionTools.partition_disk)
        /\ After(ConfirmGates, PartitionTools.partition_disk)
    BY DEF PartitionTools, Sound, Asks, After, WriteGates, NodeGates, ConfirmGates
  <2> QED BY <2>1
          DEF AllOrdered, Ordered, TableConfirmTools, TableGuestTools, PartitionTools
<1>2. AllOrdered(FormatTools)
  <2>1. /\ Sound(FormatTools.format_disk)
        /\ After(ConfirmGates, FormatTools.format_disk)
    BY DEF FormatTools, Sound, Asks, After, WriteGates, NodeGates, ConfirmGates
  <2> QED BY <2>1
          DEF AllOrdered, Ordered, TableConfirmTools, TableGuestTools, FormatTools
<1>3. AllOrdered(MountTools)
  <2>1. Sound(MountTools.create_mount_point) /\ ~Asks(MountTools.create_mount_point)
    BY DEF MountTools, Sound, Asks, After, WriteGates, NodeGates, ConfirmGates
  <2> QED BY <2>1
          DEF AllOrdered, Ordered, TableConfirmTools, TableGuestTools, MountTools
<1>4. AllOrdered(UnmountTools)
  <2>1. Sound(UnmountTools.unmount_path) /\ ~Asks(UnmountTools.unmount_path)
    BY DEF UnmountTools, Sound, Asks, After, WriteGates, NodeGates, ConfirmGates
  <2> QED BY <2>1
          DEF AllOrdered, Ordered, TableConfirmTools, TableGuestTools, UnmountTools
<1> QED BY <1>1, <1>2, <1>3, <1>4

LEMMA SshOrdered ==
    /\ AllOrdered(InstallTools) /\ AllOrdered(ServiceTools)
    /\ AllOrdered(TransferTools) /\ AllOrdered(ScriptTools)
<1>1. AllOrdered(InstallTools)
  <2>1. Sound(InstallTools.install_package) /\ ~Asks(InstallTools.install_package)
    BY DEF InstallTools, Sound, Asks, After, WriteGates, NodeGates, ConfirmGates, SshTarget
  <2> QED BY <2>1
          DEF AllOrdered, Ordered, TableConfirmTools, TableGuestTools, InstallTools
<1>2. AllOrdered(ServiceTools)
  <2>1. Sound(ServiceTools.manage_service) /\ ~Asks(ServiceTools.manage_service)
    BY DEF ServiceTools, Sound, Asks, After, WriteGates, NodeGates, ConfirmGates, SshTarget
  <2> QED BY <2>1
          DEF AllOrdered, Ordered, TableConfirmTools, TableGuestTools, ServiceTools
<1>3. AllOrdered(TransferTools)
  <2>1. Sound(TransferTools.transfer_file) /\ ~Asks(TransferTools.transfer_file)
    BY DEF TransferTools, Sound, Asks, After, WriteGates, NodeGates, ConfirmGates, SshTarget
  <2> QED BY <2>1
          DEF AllOrdered, Ordered, TableConfirmTools, TableGuestTools, TransferTools
<1>4. AllOrdered(ScriptTools)
  <2>1. /\ Sound(ScriptTools.execute_script)
        /\ After(ConfirmGates, ScriptTools.execute_script)
    BY DEF ScriptTools, Sound, Asks, After, WriteGates, NodeGates, ConfirmGates, SshTarget
  <2> QED BY <2>1
          DEF AllOrdered, Ordered, TableConfirmTools, TableGuestTools, ScriptTools
<1> QED BY <1>1, <1>2, <1>3, <1>4

LEMMA TableOrdered == AllOrdered(AllGates)
BY VmOrdered, ContainerOrdered, BackupOrdered, FirewallOrdered, ClusterOrdered,
   StorageOrdered, PciOrdered, DiskOrdered, SshOrdered, JoinedOrdered DEF AllGates

----------------------------------------------------------------------------

(***************************************************************************)
(* The handlers of the mutating tools, whichever of them are offered, test *)
(* dry run, confirmation, protection and the allowlist before they send    *)
(* their first request, and refuse nothing after it.                       *)
(***************************************************************************)
THEOREM HandlersAreOrdered ==
    ASSUME Tools \subseteq AllTools, Gates = AllGates,
           ConfirmTools = TableConfirmTools, GuestTools = TableGuestTools
    PROVE  /\ DryRunFirst /\ ConfirmFirst /\ ProtectFirst /\ NodeFirst /\ RefuseFirst
           /\ WriteBeforeEnd /\ ConfirmOffered
<1>1. ASSUME NEW t \in Tools PROVE Ordered(t, Gates[t])
  BY <1>1, TableOrdered DEF AllOrdered, AllTools
<1>2. DryRunFirst
  BY <1>1 DEF DryRunFirst, Precedes, Ordered, Sound, After
<1>3. ConfirmFirst
  BY <1>1 DEF ConfirmFirst, Precedes, Ordered, After
<1>4. ProtectFirst
  BY <1>1 DEF ProtectFirst, Precedes, Ordered, After
<1>5. NodeFirst
  BY <1>1 DEF NodeFirst, HasGate, Precedes, Ordered, Sound, After
<1>6. RefuseFirst
  BY <1>1 DEF RefuseFirst, PrecedesAny, Ordered, Sound
<1>7. WriteBeforeEnd
  BY <1>1 DEF WriteBeforeEnd, EndsAfterWrite, Ordered, Sound
<1>8. ConfirmOffered
  BY <1>1 DEF ConfirmOffered, HasGate, Ordered, Asks
<1> QED BY <1>2, <1>3, <1>4, <1>5, <1>6, <1>7, <1>8

(***************************************************************************)
(* So the tools as they are written keep what their gates check, however   *)
(* many calls run at once, for any cluster, any configuration and any      *)
(* target: dry run, confirmation, protection of the guest whose endpoints  *)
(* are used, and the allowlist as far as the parameter node goes.  That    *)
(* targets and detected nodes stay on the allowlist is not claimed, and is *)
(* not so (OnlyAllowedNodes).                                              *)
(***************************************************************************)
THEOREM ToolsAreSafe ==
    ASSUME Tools \subseteq AllTools, Gates = AllGates,
           ConfirmTools = TableConfirmTools, GuestTools = TableGuestTools
    PROVE  ToolSpec => [](/\ DryRunSendsNothing
                          /\ RefusalsAreClean
                          /\ ConfirmedOnly
                          /\ ProtectedGuestsKept
                          /\ ActingNodesAllowed)
<1>1. ToolSpec => []DryRunSendsNothing
  BY HandlersAreOrdered, DryRunHolds
<1>2. ToolSpec => []RefusalsAreClean
  BY HandlersAreOrdered, RefusalsHold
<1>3. ToolSpec => []ConfirmedOnly
  BY HandlersAreOrdered, ConfirmationHolds
<1>4. ToolSpec => []ProtectedGuestsKept
  BY HandlersAreOrdered, ProtectionHolds
<1>5. ToolSpec => []ActingNodesAllowed
  BY HandlersAreOrdered, AllowlistHolds
<1> QED BY <1>1, <1>2, <1>3, <1>4, <1>5, PTL

(***************************************************************************)
(* ... and nothing in what they send and answer tells them from calls that *)
(* follow the promise of the safety settings, without gates.               *)
(***************************************************************************)
THEOREM ToolsImplementThePromise ==
    ASSUME Tools \subseteq AllTools, Gates = AllGates,
           ConfirmTools = TableConfirmTools, GuestTools = TableGuestTools
    PROVE  ToolSpec => ImplementsPermittedCalls
BY HandlersAreOrdered, GatesImplementThePromise
=============================================================================
