---------------------------- MODULE MCGuestExec ----------------------------
(* GuestExec on a small instance.                                          *)
EXTENDS GuestExec, TLC

CONSTANTS g1, g2, a1, inner, local

\* g1 is reached at a1; at the loopback address it is the server itself that answers,
\* or here the other guest, and nobody does in the guests' own networks.
FirstG1 == { [a \in Address |-> CASE a = a1 -> g1 [] a = local -> g2 [] OTHER -> Nobody] }

Symmetry == Permutations(Call)
=============================================================================
