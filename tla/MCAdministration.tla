--------------------------- MODULE MCAdministration ---------------------------
(***************************************************************************)
(* A small instance of Administration for TLC.                             *)
(***************************************************************************)
EXTENDS Administration, TLC

\* Requests, seeders and role names are interchangeable.
Symmetry == Permutations(Procs) \cup Permutations(Seeders) \cup Permutations(Names)

=============================================================================
