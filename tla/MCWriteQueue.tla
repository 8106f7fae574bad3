----------------------------- MODULE MCWriteQueue -----------------------------
(* A small instance of WriteQueue: two sessions, the first of which asks     *)
(* twice and has a clock that is ahead.                                      *)
EXTENDS WriteQueue, TLC

CONSTANTS s1, s2, r1, r2, r3

MCSession == {s1, s2}
MCRequest == {r1, r2, r3}
MCOwner == r1 :> s1 @@ r2 :> s2 @@ r3 :> s1
MCPriority == [r \in MCRequest |-> 1]
MCOffset == s1 :> 1 @@ s2 :> 0
=============================================================================
