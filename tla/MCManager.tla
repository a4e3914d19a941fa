----------------------------- MODULE MCManager -----------------------------
(* Instances of Manager for TLC.                                           *)
EXTENDS Manager, TLC

Symmetry == Permutations(Conns) \cup Permutations(Broadcasters)

=============================================================================
