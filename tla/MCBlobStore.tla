---------------------------- MODULE MCBlobStore ----------------------------
(* Instances of BlobStore for TLC. *)
EXTENDS BlobStore

OneLarge == {1}
Nested == {<<2, 1>>}
Flat == {}

Symmetry == Permutations(Writers) \cup Permutations(Sweepers)
=============================================================================
