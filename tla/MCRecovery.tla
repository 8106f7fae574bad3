----------------------------- MODULE MCRecovery -----------------------------
(* Session 1 is the receipt of an installed MAIN.  The session after it may  *)
(* save twice; the others are there for the receipt that a restore ends in   *)
(* and for the session whose retention comes after it.                       *)
EXTENDS RecoveryMirror

MCSession == 1 .. 4
MCEdit == {<<2, 1>>, <<2, 2>>}
=============================================================================
