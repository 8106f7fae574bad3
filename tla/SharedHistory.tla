---------------------------- MODULE SharedHistory ----------------------------
(***************************************************************************)
(* What the workstations promise each other about MAIN: a single line of   *)
(* versions.  Edits belong to transactions; publishing a transaction adds  *)
(* all of its edits to the newest version, at once and once.  A published  *)
(* transaction is closed, nothing published is ever taken out again.       *)
(***************************************************************************)
EXTENDS Naturals, Sequences, SequencesExt

CONSTANTS
    Tx,     \* transactions
    Number  \* an edit is the n-th of its transaction

VARIABLES
    history,  \* the versions of MAIN, oldest first: each a set of edits
    made      \* every edit that was ever saved

OfTx(t) == {e \in made : e[1] = t}
Published(t) == \E e \in Last(history) : e[1] = t

Init ==
    /\ history = << {} >>
    /\ made = {}

Save(t) ==
    /\ ~Published(t)
    /\ \E n \in Number :
         /\ <<t, n>> \notin made
         /\ made' = made \cup {<<t, n>>}
    /\ UNCHANGED history

Publish(t) ==
    /\ ~Published(t)
    /\ history' = Append(history, Last(history) \cup OfTx(t))
    /\ UNCHANGED made

Next == \E t \in Tx : Save(t) \/ Publish(t)

Spec == Init /\ [][Next]_<<history, made>>
=============================================================================
