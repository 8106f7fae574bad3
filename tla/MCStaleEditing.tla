--------------------------- MODULE MCStaleEditing ---------------------------
(* Two sessions; one of them pauses and recovers. *)
EXTENDS StaleEditing, TLC

CONSTANTS s1, s2

MCClient == {s1, s2}
MCIds == 1 .. 4
Symmetry == Permutations(MCClient)
=============================================================================
