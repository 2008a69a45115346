---- MODULE MCIOHistory ----
(***************************************************************************)
(* Small instances of IOHistory for TLC.                                   *)
(***************************************************************************)
EXTENDS IOHistory, TLC

CONSTANTS c1, c2, n1, n2

\* No definition tells the containers, or the names, apart.
Symmetry == Permutations(Containers) \cup Permutations(Names)
====
