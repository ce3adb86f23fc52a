--------------------------- MODULE MCUploadEngine ---------------------------
(* Instances of UploadEngine for TLC: which paths the queued jobs name, and *)
(* the symmetry of the values the model only compares.                      *)
EXTENDS UploadEngine, TLC

\* Every job uploads a file of its own: File and Job are the same set.
OwnFiles == [j \in Job |-> j]

\* Every job names the same path (`upload a.bin a.bin`).
OnePath == [j \in Job |-> CHOOSE f \in File : TRUE]

TokenSymmetry == Permutations(Token)
=============================================================================
