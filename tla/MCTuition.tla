------------------------------ MODULE MCTuition ------------------------------
(* What a contract owes and what was paid for it.  The two components share  *)
(* no variable, so a behaviour works on one of them, for at most             *)
(* MaxTransitions operations on contracts or MaxSteps on money, and leaves   *)
(* the other as it began.                                                    *)
EXTENDS Enrollment, FinanceLedger, TLC

CONSTANTS anna, math, art, first, second, MaxTransitions, MaxSteps

VARIABLES part, steps

(* Two classes, the first of two sessions and the second of one. *)
MCStudent == {anna}
MCClass == {math, art}
MCPlanned == [c \in MCClass |-> IF c = math THEN 2 ELSE 1]
MCCapacity == [c \in MCClass |-> IF c = math THEN 2 ELSE 1]

(* The months from December 2025 to November 2026, and three of their dates: *)
(* 10 and 25 January, 20 February.                                           *)
MCMonthDays == <<31, 31, 28, 31, 30, 31, 30, 31, 31, 30, 31, 30>>
MCSample == {DateOf(1, 10), DateOf(1, 25), DateOf(2, 20)}
MCContract == {first, second}
MCDue == [k \in MCContract |-> 1]

Symmetry == Permutations(MCContract)

MCInit ==
    /\ EnrollmentInit /\ Init /\ steps = 0
    /\ \/ part = "contracts" /\ configs = {}
       \/ part = "money" /\ contract = << >>

MCNext ==
    /\ steps' = steps + 1 /\ UNCHANGED part
    /\ \/ part = "contracts" /\ steps < MaxTransitions /\ EnrollmentNext /\ UNCHANGED vars
       \/ part = "money" /\ steps < MaxSteps /\ Next /\ UNCHANGED enrollmentVars

MCSpec == MCInit /\ [][MCNext]_<<enrollmentVars, vars, part, steps>>
=============================================================================
