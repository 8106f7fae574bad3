--------------------------- MODULE MCCollaboration ---------------------------
(* Two sessions that compete for the lock. *)
EXTENDS Collaboration, TLC

CONSTANTS s1, s2

MCClient == {s1, s2}
MCIds == 1 .. 4
Symmetry == Permutations(MCClient)
=============================================================================
