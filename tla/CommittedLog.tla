---------------------------- MODULE CommittedLog ----------------------------
(* What the mirror of the recovery outbox promises: a log of committed       *)
(* operations and a copy of it, which grow and never hold anything else.     *)
CONSTANT Operation
VARIABLES committed, copied

Init == committed = {} /\ copied = {}
Commit(e) == committed' = committed \cup {e} /\ UNCHANGED copied
Copy(e) == e \in committed /\ copied' = copied \cup {e} /\ UNCHANGED committed
Next == \E e \in Operation : Commit(e) \/ Copy(e)

Spec == Init /\ [][Next]_<<committed, copied>>
=============================================================================
