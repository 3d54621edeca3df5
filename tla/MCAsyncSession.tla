--------------------------- MODULE MCAsyncSession ---------------------------
(***************************************************************************)
(* AsyncSession for TLC.  Tasks and connections are interchangeable.       *)
(***************************************************************************)
EXTENDS AsyncSession

Symmetry == Permutations(Tasks) \cup Permutations(Conns)

=============================================================================
