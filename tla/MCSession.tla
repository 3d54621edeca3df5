----------------------------- MODULE MCSession -----------------------------
(***************************************************************************)
(* Session for TLC.  Threads and connections are interchangeable, which    *)
(* the runs without liveness use as symmetry.                              *)
(***************************************************************************)
EXTENDS Session, TLC

Symmetry == Permutations(Threads) \cup Permutations(Conns)

=============================================================================
