--------------------------- MODULE MCSessionTree ---------------------------
(***************************************************************************)
(* SessionTree for TLC: session ids and requests nothing tells apart.      *)
(***************************************************************************)
EXTENDS SessionTree, TLC

Symmetry == Permutations(Sessions) \cup Permutations(Requests)

=============================================================================
