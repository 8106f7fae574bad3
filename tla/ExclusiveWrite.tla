--------------------------- MODULE ExclusiveWrite ---------------------------
(* What a session is promised when it asks to write: one session writes at a *)
(* time, nobody writes who has not asked or has called the request off, and  *)
(* a request ends in one of two ways, it is granted or it is called off.     *)
CONSTANT Client
VARIABLE phase   \* phase[s]: where s stands

Init == phase = [s \in Client |-> "away"]

NobodyWrites == \A s \in Client : phase[s] # "writing"
Move(s, from, to) == phase[s] = from /\ phase' = [phase EXCEPT ![s] = to]

Ask(s) == Move(s, "away", "asking")
Enter(s) == NobodyWrites /\ Move(s, "asking", "writing")
Leave(s) == Move(s, "writing", "away")
CallOff(s) == Move(s, "asking", "stopping")
CalledOff(s) == Move(s, "stopping", "away")
Die(s) == \E from \in {"away", "asking", "stopping", "writing"} : Move(s, from, "dead")

Next == \E s \in Client : \/ Ask(s) \/ Enter(s) \/ Leave(s)
                          \/ CallOff(s) \/ CalledOff(s) \/ Die(s)

Spec == Init /\ [][Next]_phase
=============================================================================
