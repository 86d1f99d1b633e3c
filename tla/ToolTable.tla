----------------------------- MODULE ToolTable -----------------------------
(***************************************************************************)
(* The mutating tools (src/proxmox_mcp/tools/), each as the sequence of    *)
(* gates its handler passes before, between and after the requests that    *)
(* change something:                                                       *)
(*   args         checks of the arguments alone                            *)
(*   protected    client.check_protected(vmid)                             *)
(*   node         client.validate_node(node), the node being an argument   *)
(*   resolve      client.resolve_node(vmid, node), the node optional       *)
(*   confirm      confirmation_required unless confirm(_destructive)       *)
(*   confirmRead  the same, after reading the guest's status for the text  *)
(*   read         an awaited request that changes nothing and may refuse   *)
(*   dryrun       dry_run_response when PROXMOX_DRY_RUN                    *)
(*   write        an awaited request that changes the cluster or a host    *)
(*   mayWrite     the same, unless the arguments make it unnecessary       *)
(*   option       the handler is done here, or goes on: it depends on the  *)
(*                arguments or on the reply to the last request            *)
(* What the gates do is in ToolCalls.                                      *)
(***************************************************************************)
EXTENDS Sequences

----------------------------------------------------------------------------
\* Handlers that share their order of gates share a definition.

\* Mutants of Guarded: a missing check, a write before the dry-run test.
GuardedUnprotected == <<"args", "resolve", "dryrun", "write">>
GuardedWriteFirst == <<"args", "protected", "resolve", "write", "dryrun">>

\* start_vm and the other power operations
Guarded == <<"args", "protected", "resolve", "dryrun", "write">>

\* clone_vm, migrate_vm, create_snapshot, create_backup
Unguarded == <<"args", "resolve", "dryrun", "write">>

\* modify_vm_config and its likes reject bad keys only after the dry run
GuardedConfig == <<"args", "protected", "resolve", "dryrun", "args", "write">>

\* Mutant of GuardedConfirm: the confirmation is asked for after the write.
GuardedConfirmLate == <<"args", "protected", "resolve", "dryrun", "write", "confirm">>

\* convert_vm_to_template, rollback_snapshot, delete_vm_firewall_rule
GuardedConfirm == <<"args", "protected", "resolve", "confirm", "dryrun", "write">>

\* delete_vm, delete_container
GuardedDelete == <<"args", "protected", "resolve", "confirmRead", "dryrun", "write">>

\* create_vm and other tools that name their node
OnNode == <<"args", "node", "args", "dryrun", "write">>

\* reboot_node and other tools that name their node and ask for confirmation
OnNodeConfirm == <<"args", "node", "confirm", "dryrun", "write">>

\* delete_pool and other cluster-wide deletions
ClusterConfirm == <<"confirm", "dryrun", "write">>

\* What _get_ssh_target does before a command is run in a guest: validate the
\* vmid, resolve the node, find the guest's address.
SshTarget == <<"args", "resolve", "read">>

----------------------------------------------------------------------------
\* tools/vm.py

VmPowerTools ==
    [ start_vm |-> Guarded, stop_vm |-> Guarded, shutdown_vm |-> Guarded,
      reboot_vm |-> Guarded, suspend_vm |-> Guarded, resume_vm |-> Guarded,
      reset_vm |-> Guarded ]

VmLifecycleTools ==
    [ clone_vm |-> Unguarded, migrate_vm |-> Unguarded, create_vm |-> OnNode,
      delete_vm |-> GuardedDelete ]

VmConfigTools ==
    [ resize_vm_disk |-> Guarded, convert_vm_to_template |-> GuardedConfirm,
      modify_vm_config |-> GuardedConfig ]

VmCloudInitTools ==
    [ set_vm_cloudinit |-> GuardedConfig, regenerate_cloudinit_image |-> Guarded ]

\* tools/container.py

ContainerPowerTools ==
    [ start_container |-> Guarded, stop_container |-> Guarded,
      shutdown_container |-> Guarded, reboot_container |-> Guarded ]

ContainerLifecycleTools ==
    [ clone_container |-> Unguarded, migrate_container |-> Unguarded,
      create_container |-> OnNode ]

ContainerConfigTools ==
    [ delete_container |-> GuardedDelete, modify_container_config |-> GuardedConfig ]

\* tools/backup.py

SnapshotTools ==
    [ create_snapshot |-> Unguarded,
      rollback_snapshot |-> GuardedConfirm,
      delete_snapshot |-> <<"args", "resolve", "confirm", "dryrun", "write">> ]

BackupTools ==
    [ create_backup |-> Unguarded, restore_backup |-> OnNodeConfirm ]

BackupJobTools ==
    [ create_backup_job |-> <<"args", "dryrun", "write">>,
      delete_backup_job |-> ClusterConfirm ]

\* tools/network.py

NodeFirewallTools ==
    [ create_node_firewall_rule |-> OnNode, delete_node_firewall_rule |-> OnNodeConfirm ]

VmFirewallTools ==
    [ create_vm_firewall_rule |->
          <<"args", "protected", "args", "resolve", "dryrun", "write">>,
      delete_vm_firewall_rule |-> GuardedConfirm ]

\* tools/cluster.py

PoolTools ==
    [ create_pool |-> <<"dryrun", "write">>,
      modify_pool |-> <<"dryrun", "args", "write">>,
      delete_pool |-> ClusterConfirm ]

\* set_user_permission reads the known roles before it asks for confirmation
UserTools ==
    [ create_user |-> ClusterConfirm, delete_user |-> ClusterConfirm,
      set_user_permission |-> <<"args", "read", "confirm", "dryrun", "write">> ]

HaTools ==
    [ create_ha_resource |-> <<"args", "dryrun", "write">>,
      modify_ha_resource |-> <<"args", "dryrun", "args", "write">>,
      delete_ha_resource |-> ClusterConfirm ]

\* tools/node.py

NodePowerTools == [ reboot_node |-> OnNodeConfirm, shutdown_node |-> OnNodeConfirm ]

\* tools/storage.py

\* add_storage reads the existing ids and then checks the other arguments
StorageAddTools ==
    [ add_storage |-> <<"args", "read", "args", "dryrun", "write">> ]

StorageTools ==
    [ remove_storage |-> <<"args", "confirm", "dryrun", "write">>,
      download_to_storage |-> OnNode ]

\* tools/pci.py

\* the device (and the present map) are read only after the dry-run test
PciMappingTools ==
    [ create_pci_mapping |->
          <<"args", "node", "args", "confirm", "dryrun", "read", "write">>,
      add_pci_mapping_target |->
          <<"args", "node", "args", "confirm", "dryrun", "read", "read", "write">>,
      delete_pci_mapping |-> <<"args", "confirm", "dryrun", "write">> ]

PciDeviceTools ==
    [ assign_pci_device |->
          <<"args", "protected", "confirm", "resolve", "dryrun", "write">>,
      remove_pci_device |->
          <<"args", "protected", "confirm", "resolve", "dryrun", "write">> ]

\* tools/disk.py; the reads are the safety gates run on the node over SSH

\* wipefs, partition table, re-read, mkfs, then blkid
PartitionTools ==
    [ partition_disk |->
          <<"args", "node", "args", "confirm", "read", "read", "read", "read", "dryrun",
            "write", "write", "write", "mayWrite", "read">> ]

\* wipefs, mkfs, then blkid
FormatTools ==
    [ format_disk |->
          <<"args", "node", "args", "confirm", "read", "read", "dryrun",
            "write", "write", "read">> ]

\* mkdir, mount, verify; if asked for, back /etc/fstab up and add the entry; if
\* that worked, validate; if that did not, roll back
MountTools ==
    [ create_mount_point |->
          <<"args", "node", "args", "read", "read", "read", "dryrun",
            "write", "write", "read",
            "option", "write", "write", "option", "read", "option", "write">> ]

\* umount, then /etc/fstab likewise
UnmountTools ==
    [ unmount_path |->
          <<"args", "node", "args", "read", "dryrun", "write",
            "option", "write", "write", "option", "read", "option", "write">> ]

\* tools/ssh_tools.py

InstallTools ==
    [ install_package |-> <<"args", "dryrun">> \o SshTarget \o <<"read", "write">> ]

ServiceTools == [ manage_service |-> <<"args", "dryrun">> \o SshTarget \o <<"write">> ]

TransferTools == [ transfer_file |-> <<"args", "dryrun">> \o SshTarget \o <<"write">> ]

\* its confirmation test is skipped in a dry run, which returns right after
ScriptTools ==
    [ execute_script |-> <<"args", "dryrun", "confirm">> \o SshTarget \o <<"write">> ]

----------------------------------------------------------------------------

\* The tools of several tables in one.
Joined(tables) ==
    [t \in UNION { DOMAIN f : f \in tables } |-> (CHOOSE f \in tables : t \in DOMAIN f)[t]]

AllGates == Joined(
    { VmPowerTools, VmLifecycleTools, VmConfigTools, VmCloudInitTools,
      ContainerPowerTools, ContainerLifecycleTools, ContainerConfigTools,
      SnapshotTools, BackupTools, BackupJobTools,
      NodeFirewallTools, VmFirewallTools,
      PoolTools, UserTools, HaTools, NodePowerTools,
      StorageAddTools, StorageTools, PciMappingTools, PciDeviceTools,
      PartitionTools, FormatTools, MountTools, UnmountTools,
      InstallTools, ServiceTools, TransferTools, ScriptTools })

AllTools == DOMAIN AllGates

\* Tools whose signature has a confirm or confirm_destructive parameter.
TableConfirmTools ==
    { "delete_vm", "convert_vm_to_template", "delete_container",
      "rollback_snapshot", "delete_snapshot", "restore_backup", "delete_backup_job",
      "delete_node_firewall_rule", "delete_vm_firewall_rule",
      "delete_pool", "create_user", "delete_user", "set_user_permission",
      "delete_ha_resource", "reboot_node", "shutdown_node", "remove_storage",
      "create_pci_mapping", "add_pci_mapping_target", "delete_pci_mapping",
      "assign_pci_device", "remove_pci_device",
      "partition_disk", "format_disk", "execute_script" }

\* Tools that take a second node, none of which checks it: target_node of the
\* tools that clone and migrate, nodes of add_storage.
TableTargetTools ==
    { "clone_vm", "migrate_vm", "clone_container", "migrate_container", "add_storage" }

\* Tools for which that parameter has no default.
TableMigrateTools == { "migrate_vm", "migrate_container" }

\* Tools whose write stops, reconfigures, rolls back or deletes the guest named
\* by their vmid through its own /qemu or /lxc endpoint.
TableGuestTools ==
    { "stop_vm", "shutdown_vm", "reboot_vm", "suspend_vm", "reset_vm", "delete_vm",
      "resize_vm_disk", "convert_vm_to_template", "modify_vm_config",
      "set_vm_cloudinit", "regenerate_cloudinit_image",
      "stop_container", "shutdown_container", "reboot_container",
      "delete_container", "modify_container_config", "rollback_snapshot",
      "create_vm_firewall_rule", "delete_vm_firewall_rule",
      "assign_pci_device", "remove_pci_device" }

\* Further tools that change the guest named by their vmid: where it runs, the
\* snapshots it has, its whole content, or what is installed inside it.
TableOtherGuestTools ==
    { "migrate_vm", "migrate_container", "delete_snapshot", "restore_backup",
      "install_package", "manage_service", "transfer_file", "execute_script" }
=============================================================================
