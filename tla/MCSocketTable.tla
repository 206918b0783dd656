--------------------------- MODULE MCSocketTable ---------------------------
(* Finite instances of KTPSocketTable for TLC.                             *)
EXTENDS KTPSocketTable, TLC

\* The specification names no process and no address.
Symmetry == Permutations(Processes) \cup Permutations(Addresses)
=============================================================================
