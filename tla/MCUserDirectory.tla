--------------------------- MODULE MCUserDirectory ---------------------------
(***************************************************************************)
(* Small instances of UserDirectory for TLC.                               *)
(***************************************************************************)
EXTENDS UserDirectory, TLC

\* Requests and accounts are interchangeable.
Symmetry == Permutations(Procs) \cup Permutations(Users)

=============================================================================
