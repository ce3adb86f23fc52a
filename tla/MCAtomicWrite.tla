--------------------------- MODULE MCAtomicWrite ---------------------------
(* An instance of AtomicWrite for TLC: processes and images are only       *)
(* compared, never ordered.                                                *)
EXTENDS AtomicWrite, TLC

Symmetry == Permutations(Writer) \cup Permutations(Image)
=============================================================================
