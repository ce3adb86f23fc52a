------------------------------ MODULE MCDownload ------------------------------
(* Instances of Download for TLC. *)
EXTENDS Download, TLC

CONSTANTS a, b, n1, n2
\* Each link under its own name; or both under the same.
OwnNames == a :> n1 @@ b :> n2
SameName == a :> n1 @@ b :> n1
Sizes == a :> 3 @@ b :> 2
EmptyToo == a :> 3 @@ b :> 0
Single == {<<a>>}
Both == {<<a>>, <<a, b>>}
Collection == {<<a, b>>}
===============================================================================
