------------------------------ MODULE MCBundle -------------------------------
(* Instances of Bundle for TLC. *)
EXTENDS Bundle, FiniteSets

CONSTANTS a, b
TwoFiles == {<<a, b>>}
Lists == {<<a, b>>, <<Stdin>>, <<Stdin, Stdin>>}
WithStdin == {<<a, Stdin>>, <<Stdin>>, <<Stdin, Stdin>>}
=============================================================================
