-------------------------- MODULE MCRuntimeInstall --------------------------
(* One workstation, two pieces of work. *)
EXTENDS RuntimeInstall

CONSTANTS w1, w2

MCWork == {w1, w2}
=============================================================================
