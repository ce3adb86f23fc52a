---------------------------- MODULE MCStateFiles ----------------------------
(* Instances of StateFiles for TLC: uploads and processes are only compared. *)
EXTENDS StateFiles, TLC

Symmetry == Permutations(Token) \cup Permutations(Proc)
=============================================================================
