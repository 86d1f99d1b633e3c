---------------------------- MODULE MCDiskTools ----------------------------
(* DiskTools on small instances.                                           *)
EXTENDS DiskTools, TLC

CONSTANTS h1, h2, p2

\* An unused disk, and one with the running system and a mounted file system, whose
\* line is in fstab.
UsedDisks == { [disk |-> "one", uses |-> {}, mounts |-> {}],
               [disk |-> "several", uses |-> {"boot"}, mounts |-> {p2}] }

\* The disk of a default installation: the running system and its volume group.
SystemDisk == { [disk |-> "nvme", uses |-> {"boot", "memberPart"}, mounts |-> {}] }

\* A backup was made before the mounted file system's line was there.
OldBackup == { { {} } }

\* The node's name ceases to resolve: PROXMOX_HOST is another host.
Astray == << h1, h2 >>
Straight == << h1 >>

Symmetry == Permutations(Call)
=============================================================================
