----------------------------- MODULE MCSshPool -----------------------------
(* Small instances of SshPool for TLC.                                     *)
EXTENDS SshPool, TLC

Symmetry == Permutations(Thread) \union Permutations(Key)
=============================================================================
