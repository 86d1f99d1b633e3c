---------------------------- MODULE MCToolCalls ----------------------------
(* Small instances of ToolCalls for TLC, with the gates of ToolTable.      *)
EXTENDS ToolCalls, ToolTable, TLC

Symmetry == Permutations(Call) \union Permutations(Node)

\* A tool that resolves its guest through the cache, and then sends a request.
SharedTools == { "stop_vm" }
SharedGates == [ stop_vm |-> AllGates["stop_vm"] ]

\* Tools README's protection of VMIDs does not reach.
ReadmeProtected == { "migrate_vm", "delete_snapshot", "restore_backup" }

\* Every configuration; one that forbids nothing; ones with v protected, with n
\* as the only allowed node.
AnyConfig == Config
OpenConfig == { [dry_run |-> FALSE, protected |-> {}, allowed |-> {}] }
ProtectedConfig == { [dry_run |-> FALSE, protected |-> Vmid, allowed |-> {}] }
RestrictedConfig ==
    { [dry_run |-> FALSE, protected |-> {}, allowed |-> {n}] : n \in Node }

\* A tool that acts on one node and sends the guest to another.
ReadmeAllowed == { "migrate_vm" }
=============================================================================
