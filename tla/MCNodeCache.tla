---------------------------- MODULE MCNodeCache ----------------------------
(* A small instance of NodeCache for TLC; constants are in the .cfg files. *)
EXTENDS NodeCache, TLC

Symmetry == Permutations(Call) \union Permutations(Node)
=============================================================================
